-------------------------- MODULE SessionLifecycle --------------------------
(***************************************************************************)
(* What the session manager promises the interface about the lives of its  *)
(* sessions, without threads, locks or clients.                            *)
(*                                                                         *)
(* One session is open at most.  Each is opened once and let go once; the  *)
(* one who lets it go reports the end, at once or, if no command asked for *)
(* it, as an obligation that somebody still has to meet.  What was decided *)
(* to be said while a session was open may be said after its end, but one  *)
(* such message at most, and no two authentications.                       *)
(***************************************************************************)
EXTENDS Sequences

CONSTANTS Gen, NoGen

VARIABLES
    session,     \* the open session, or NoGen
    opened,      \* the sessions that were ever open
    due,         \* what was decided to be said about each session, not said yet
    leaving,     \* sessions let go whose end is still to be reported
    events,      \* said, not heard yet
    told         \* history: what was said about each session

lives == <<session, opened, due, leaving, events, told>>

Init ==
    /\ session = NoGen
    /\ opened = {}
    /\ due = [g \in Gen |-> {}]
    /\ leaving = {}
    /\ events = <<>>
    /\ told = [g \in Gen |-> {}]

Say(g, k) ==
    /\ events' = Append(events, [gen |-> g, kind |-> k])
    /\ told' = [told EXCEPT ![g] = @ \cup {k}]

SayClosedIfOpen ==
    IF session = NoGen THEN UNCHANGED <<events, told>> ELSE Say(session, "closed")

\* A session is opened in the place of the one that was open.
Open(g) ==
    /\ g \notin opened
    /\ SayClosedIfOpen
    /\ session' = g
    /\ opened' = opened \cup {g}
    /\ UNCHANGED <<due, leaving>>

\* The attempt to open one fails; the one that was open is closed all the same.
OpenFails ==
    /\ SayClosedIfOpen
    /\ session' = NoGen
    /\ UNCHANGED <<opened, due, leaving>>

\* A session is closed on request, which never closes another one.
Close(g) ==
    /\ session \in {g, NoGen}
    /\ Say(g, "closed")
    /\ session' = NoGen
    /\ UNCHANGED <<opened, due, leaving>>

\* Something is to be said about the open session.
Decide(g, k) ==
    /\ session = g /\ due[g] = {}
    /\ k = "authenticated" => k \notin told[g]
    /\ due' = [due EXCEPT ![g] = {k}]
    /\ UNCHANGED <<session, opened, leaving, events, told>>

Tell(g, k) ==
    /\ due[g] = {k}
    /\ Say(g, k)
    /\ due' = [due EXCEPT ![g] = {}]
    /\ UNCHANGED <<session, opened, leaving>>

\* The open session ends unasked.
Leave(g) ==
    /\ session = g
    /\ session' = NoGen
    /\ leaving' = leaving \cup {g}
    /\ UNCHANGED <<opened, due, events, told>>

\* Its end is reported, once; only an authenticated session is said to have been
\* closed, any other failed.
Report(g, k) ==
    /\ g \in leaving
    /\ k = "closed" => "authenticated" \in told[g]
    /\ Say(g, k)
    /\ leaving' = leaving \ {g}
    /\ UNCHANGED <<session, opened, due>>

Hear ==
    /\ events # <<>>
    /\ events' = Tail(events)
    /\ UNCHANGED <<session, opened, due, leaving, told>>

Next ==
    \/ OpenFails \/ Hear
    \/ \E g \in Gen :
         \/ Open(g) \/ Close(g) \/ Leave(g)
         \/ \E k \in {"authenticated", "output"} : Decide(g, k) \/ Tell(g, k)
         \/ \E k \in {"failed", "closed"} : Report(g, k)

LifeSpec == Init /\ [][Next]_lives
=============================================================================
