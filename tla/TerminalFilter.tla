--------------------------- MODULE TerminalFilter ---------------------------
(***************************************************************************)
(* What the terminal is promised about the bytes of a session (contracts.md*)
(* 39): everything is shown, in order, except the first sentinel and at    *)
(* most the line end that follows it; the sentinel is found as soon as it  *)
(* is complete, however the bytes are split; and what cannot belong to a   *)
(* sentinel any more is not withheld.                                      *)
(***************************************************************************)
EXTENDS Integers, Sequences, SequencesExt

CONSTANTS
    Byte,
    Sentinel,    \* what the server prints once the login was accepted: a
                 \* non-empty sequence of bytes
    LineEnds     \* what may be removed with it: sequences of bytes

VARIABLES
    fed,         \* all the bytes received
    shown,       \* all the bytes passed on
    found        \* the sentinel was found

filter == <<fed, shown, found>>

\* The sentinel stands in s after its first i bytes.
OccursAt(s, i) ==
    /\ i + Len(Sentinel) <= Len(s)
    /\ \A k \in 1..Len(Sentinel) : s[i + k] = Sentinel[k]
Occurs(s) == \E i \in 0..Len(s) : OccursAt(s, i)
FirstAt(s, i) == OccursAt(s, i) /\ \A j \in 0..(i - 1) : ~OccursAt(s, j)

\* t is s without the sentinel after its first i bytes, and without e, which
\* follows the sentinel.
Removed(s, t, i, e) ==
    LET n == i + Len(Sentinel) IN
    /\ n + Len(e) <= Len(s)
    /\ SubSeq(s, n + 1, n + Len(e)) = e
    /\ t = SubSeq(s, 1, i) \o SubSeq(s, n + Len(e) + 1, Len(s))
Cleaned(s, t) ==
    \E i \in 0..Len(s), e \in LineEnds \cup {<<>>} : FirstAt(s, i) /\ Removed(s, t, i, e)

\* t is s except for a few last bytes, which may begin a sentinel.
Withheld(s, t) ==
    \E n \in 0..Len(s) : Len(s) - n < Len(Sentinel) /\ t = SubSeq(s, 1, n)

FilterInit == fed = <<>> /\ shown = <<>> /\ found = FALSE

Receive ==
    /\ IsPrefix(fed, fed') /\ IsPrefix(shown, shown')
    /\ found' = Occurs(fed')
    /\ IF found' THEN Cleaned(fed', shown') ELSE Withheld(fed', shown')

FilterSpec == FilterInit /\ [][Receive]_filter
=============================================================================
