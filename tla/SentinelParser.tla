--------------------------- MODULE SentinelParser ---------------------------
(***************************************************************************)
(* The sentinel parser of the terminal's reader thread (src-tauri/src/     *)
(* native_ssh.rs, lines 62-71 and 249-280).  The reader pushes what each   *)
(* read returned, which may end anywhere in the sentinel, and shows what   *)
(* comes back.  Until the sentinel is found the parser keeps the last      *)
(* bytes, because they may begin it.                                       *)
(***************************************************************************)
EXTENDS Integers, Sequences, SequencesExt

CONSTANTS
    Byte,
    CR, LF,      \* the bytes of a line end
    Sentinel,    \* the bytes the remote command prints first
    MaxInput     \* bound: bytes received in one session

ASSUME ParserAssumption ==
    /\ CR \in Byte /\ LF \in Byte
    /\ Sentinel \in Seq(Byte) /\ Sentinel # <<>>
    /\ MaxInput \in Nat

VARIABLES
    pending,       \* SentinelParser.pending
    authenticated, \* SentinelParser.authenticated
    fed,           \* history: all the bytes pushed
    output         \* history: all the bytes returned

pvars == <<pending, authenticated, fed, output>>

ParserTypeOK ==
    /\ pending \in Seq(Byte) /\ fed \in Seq(Byte) /\ output \in Seq(Byte)
    /\ authenticated \in BOOLEAN
    /\ Len(pending) < Len(Sentinel)

ParserInit == pending = <<>> /\ authenticated = FALSE /\ fed = <<>> /\ output = <<>>

\* find_bytes: the windows of the haystack are compared with the sentinel from
\* the left; the first equal one begins after i bytes, or there is none.
Window(haystack, i) == SubSeq(haystack, i + 1, i + Len(Sentinel))
FoundAt(haystack, i) ==
    /\ i \in 0..(Len(haystack) - Len(Sentinel))
    /\ Window(haystack, i) = Sentinel
    /\ \A j \in 0..(i - 1) : Window(haystack, j) # Sentinel
NotFound(haystack) ==
    \A i \in 0..(Len(haystack) - Len(Sentinel)) : Window(haystack, i) # Sentinel

\* The line end at the start of a suffix, which is removed with the sentinel.
LineEnd(suffix) ==
    IF IsPrefix(<<CR, LF>>, suffix) THEN <<CR, LF>>
    ELSE IF IsPrefix(<<LF>>, suffix) THEN <<LF>> ELSE <<>>

\* Faulty variant: as many bytes as the sentinel has are kept.
KeptTooLong(haystack) ==
    IF Len(haystack) < Len(Sentinel) THEN Len(haystack) ELSE Len(Sentinel)

\* How many bytes are kept when there is no sentinel yet.
Kept(haystack) ==
    IF Len(haystack) < Len(Sentinel) - 1 THEN Len(haystack) ELSE Len(Sentinel) - 1

\* push, once the sentinel has been found
PushThrough(bytes) ==
    /\ authenticated
    /\ output' = output \o bytes
    /\ UNCHANGED <<pending, authenticated>>

\* push that completes the sentinel after the first i pending bytes
PushFinds(bytes, i) ==
    LET haystack == pending \o bytes
        suffix == SubSeq(haystack, i + Len(Sentinel) + 1, Len(haystack))
        rest == SubSeq(suffix, Len(LineEnd(suffix)) + 1, Len(suffix))
    IN /\ ~authenticated /\ FoundAt(haystack, i)
       /\ output' = output \o (SubSeq(haystack, 1, i) \o rest)
       /\ pending' = <<>>
       /\ authenticated' = TRUE

\* Faulty variant: what was kept is forgotten when more comes.
PushForgets(bytes) ==
    LET split == Len(bytes) - Kept(bytes) IN
    /\ ~authenticated /\ NotFound(bytes)
    /\ output' = output \o SubSeq(bytes, 1, split)
    /\ pending' = SubSeq(bytes, split + 1, Len(bytes))
    /\ UNCHANGED authenticated

\* push that does not complete the sentinel
PushKeeps(bytes) ==
    LET haystack == pending \o bytes
        split == Len(haystack) - Kept(haystack)
    IN /\ ~authenticated /\ NotFound(haystack)
       /\ output' = output \o SubSeq(haystack, 1, split)
       /\ pending' = SubSeq(haystack, split + 1, Len(haystack))
       /\ UNCHANGED authenticated

Push(bytes) ==
    /\ fed' = fed \o bytes
    /\ \/ PushThrough(bytes)
       \/ \E i \in 0..(Len(pending) + Len(bytes)) : PushFinds(bytes, i)
       \/ PushKeeps(bytes)

\* A read returns at least one byte; it may return any number.
ParserNext ==
    \E n \in 1..(MaxInput - Len(fed)) : \E bytes \in [1..n -> Byte] : Push(bytes)

ParserSpec == ParserInit /\ [][ParserNext]_pvars

-----------------------------------------------------------------------------
(* Properties *)

Filter == INSTANCE TerminalFilter
            WITH LineEnds <- {<<CR, LF>>, <<LF>>}, shown <- output, found <- authenticated

\* However the bytes are split into reads, the sentinel is found with the byte
\* that completes it and announced from then on, everything else is shown in
\* order, and fewer bytes are withheld than the sentinel has (contracts.md 39;
\* native_ssh.rs 254-274).
FiltersTerminal == Filter!FilterSpec
=============================================================================
