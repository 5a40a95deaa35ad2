------------------------ MODULE SshConnectionProofs -------------------------
(***************************************************************************)
(* Proofs about the terminal connection, for every number of sessions,     *)
(* outputs and clicks.  The native invariant IInv is kept by the composed  *)
(* system; on top of it KInv says what the two sides know of each other,   *)
(* and PInv what a user who waits for an attempt to end may rely on: the   *)
(* start is the last thing on the wire, nothing the native side said of    *)
(* the active session was missed, and an installed session is known.       *)
(***************************************************************************)
EXTENDS SshConnection, SshSessionProofs, Functions

Launched(g) == g \in Gen /\ reader[g] # "off"
Ended(g) == told[g] \cap Ending # {}
Comes(g, k) == [gen |-> g, kind |-> k] \in Range(events)
IsStart(m) == m.op \in {"start_ssh", "started", "not_started"}
HasStart(s) == \E m \in Range(s) : IsStart(m)
NothingAfterStart(s) == \A i \in 1..Len(s) : IsStart(s[i]) => i = Len(s)

-----------------------------------------------------------------------------
(* Whatever the user does *)

\* What the webview receives or keeps was said by the native side.
EventsAreTold ==
    /\ \A e \in Range(events) : e.kind \in told[e.gen]
    /\ \A g \in Gen : Range(heldEvents[g]) \subseteq told[g]

\* A generation that is named anywhere was launched.
NamesAreLaunched ==
    /\ active # NoGen => Launched(active)
    /\ \A m \in Range(inbox) : m.op = "close_ssh" => Launched(m.gen)
    /\ \A r \in Range(replies) : r.op \in {"started", "close_done"} => Launched(r.gen)

\* A session that was reported as ended, or that a close has answered for, is
\* not installed.
EndedIsGone ==
    /\ \A g \in Gen : Ended(g) => session # g
    /\ \A r \in Range(replies) : r.op = "close_done" => session # r.gen

KInv == IInv /\ ConnTypeOK /\ EventsAreTold /\ NamesAreLaunched /\ EndedIsGone

-----------------------------------------------------------------------------
(* For a user who waits *)

\* A start is awaited, and nothing was asked for after it.
StartIsLast ==
    /\ NothingAfterStart(inbox) /\ NothingAfterStart(replies)
    /\ HasStart(inbox) => starting
    /\ HasStart(replies) => starting /\ inbox = <<>>

StartingIsOffline == starting => active = NoGen /\ conn # "online"

\* A close is about the active generation.
ClosesTheActive ==
    /\ \A m \in Range(inbox) : m.op = "close_ssh" => active \in {m.gen, NoGen}
    /\ \A r \in Range(replies) : r.op = "close_done" => active \in {r.gen, NoGen}

\* What was said of the active generation, or of the one whose receipt is on its
\* way, is in flight, kept, or shown.
NothingIsMissed ==
    /\ active # NoGen =>
         \A k \in told[active] \cap Lifecycle :
           Comes(active, k) \/ (k = "authenticated" /\ conn = "online")
    /\ \A r \in Range(replies) : r.op = "started" =>
         \A k \in told[r.gen] \cap Lifecycle :
           Comes(r.gen, k) \/ k \in Range(heldEvents[r.gen])

\* The interface knows the installed session, or will.
SessionIsKnown ==
    session # NoGen =>
        hung \/ active = session \/ [op |-> "started", gen |-> session] \in Range(replies)

PInv ==
    /\ KInv
    /\ StartIsLast /\ StartingIsOffline /\ ClosesTheActive
    /\ NothingIsMissed /\ SessionIsKnown /\ OnlineIsAuthenticated

-----------------------------------------------------------------------------
(* Sequences *)

LEMMA RangeIsWithin ==
  ASSUME NEW S, NEW s \in Seq(S)
  PROVE  /\ Range(s) \subseteq S /\ Range(s) = {s[i] : i \in 1..Len(s)}
         /\ s = <<>> => Range(s) = {}
BY DEF Range

LEMMA RangeOfAppend ==
  ASSUME NEW S, NEW s \in Seq(S), NEW e \in S
  PROVE  Append(s, e) \in Seq(S) /\ Range(Append(s, e)) = Range(s) \cup {e}
<1>1. /\ Append(s, e) \in Seq(S) /\ Len(Append(s, e)) = Len(s) + 1 /\ Len(s) \in Nat
      /\ \A i \in 1..Len(s) : Append(s, e)[i] = s[i]
      /\ Append(s, e)[Len(s) + 1] = e
  <2>1. Append(s, e) \in Seq(S) /\ Len(Append(s, e)) = Len(s) + 1 /\ Len(s) \in Nat
    OBVIOUS
  <2>2. \A i \in 1..Len(s) : Append(s, e)[i] = s[i]
    OBVIOUS
  <2>3. Append(s, e)[Len(s) + 1] = e
    OBVIOUS
  <2> QED
    BY <2>1, <2>2, <2>3
<1>2. Range(Append(s, e)) = {Append(s, e)[i] : i \in 1..(Len(s) + 1)}
  <2>1. \A t \in Seq(S) : Range(t) = {t[i] : i \in 1..Len(t)}
    BY RangeIsWithin
  <2>2. Range(Append(s, e)) = {Append(s, e)[i] : i \in 1..Len(Append(s, e))}
    BY <1>1, <2>1
  <2> QED
    BY <1>1, <2>2
<1>3. 1..(Len(s) + 1) = 1..Len(s) \cup {Len(s) + 1}
  BY <1>1
<1>4. Range(s) = {s[i] : i \in 1..Len(s)}
  BY RangeIsWithin
<1> QED
  BY <1>1, <1>2, <1>3, <1>4

LEMMA RangeOfTail ==
  ASSUME NEW S, NEW s \in Seq(S), s # <<>>
  PROVE  /\ Tail(s) \in Seq(S) /\ Head(s) \in S
         /\ Range(s) = {Head(s)} \cup Range(Tail(s))
<1>1. /\ Tail(s) \in Seq(S) /\ Head(s) = s[1] /\ Head(s) \in S
      /\ Len(s) \in Nat /\ Len(s) # 0 /\ Len(Tail(s)) = Len(s) - 1
      /\ \A i \in 1..Len(Tail(s)) : Tail(s)[i] = s[i + 1]
  OBVIOUS
<1>2. Range(Tail(s)) = {Tail(s)[i] : i \in 1..Len(Tail(s))} /\ Range(s) = {s[i] : i \in 1..Len(s)}
  BY <1>1, RangeIsWithin
<1>3. ASSUME NEW i \in 1..Len(s) PROVE s[i] \in {Head(s)} \cup Range(Tail(s))
  <2>1. CASE i = 1
    BY <1>1, <2>1
  <2>2. CASE i # 1
    <3>1. i - 1 \in 1..Len(Tail(s)) /\ (i - 1) + 1 = i
      BY <1>1, <2>2
    <3>2. Tail(s)[i - 1] = s[i]
      BY <1>1, <3>1
    <3> QED
      BY <1>2, <3>1, <3>2
  <2> QED
    BY <2>1, <2>2
<1>4. ASSUME NEW i \in 1..Len(Tail(s)) PROVE Tail(s)[i] \in Range(s)
  <2>1. i + 1 \in 1..Len(s)
    BY <1>1
  <2> QED
    BY <1>1, <1>2, <2>1
<1>5. Head(s) \in Range(s)
  <2>1. 1 \in 1..Len(s)
    BY <1>1
  <2> QED
    BY <1>1, <1>2, <2>1
<1> QED
  BY <1>1, <1>2, <1>3, <1>4, <1>5

-----------------------------------------------------------------------------
(* What a native step does, as far as the interface can tell *)

USE DEF Gen, NoGen

\* It says at most one thing.
Says ==
    \/ UNCHANGED <<events, told>>
    \/ \E g \in Gen, k \in EventKind : Emit(g, k)

\* Its invariant is kept; no generation that was launched is forgotten or
\* installed again, and none that has ended is installed.
Moves ==
    /\ IInv' /\ Says
    /\ \A g \in Gen : Launched(g) => Launched(g)' /\ (session' = g => session = g)
    /\ \A g \in Gen : Ended(g)' => session' # g

LEMMA SaysMeans ==
  ASSUME TypeOK, Says, EventsAreTold, UNCHANGED heldEvents
  PROVE  /\ EventsAreTold'
         /\ Range(events) \subseteq Range(events')
         /\ \A g \in Gen : told[g] \subseteq told'[g]
         /\ \A g \in Gen, k \in EventKind : k \in told'[g] => k \in told[g] \/ Comes(g, k)'
<1>1. CASE UNCHANGED <<events, told>>
  BY <1>1 DEF EventsAreTold
<1>2. ASSUME NEW g \in Gen, NEW k \in EventKind, Emit(g, k)
      PROVE  /\ EventsAreTold'
             /\ Range(events) \subseteq Range(events')
             /\ \A h \in Gen : told[h] \subseteq told'[h]
             /\ \A h \in Gen, j \in EventKind : j \in told'[h] => j \in told[h] \/ Comes(h, j)'
  <2> DEFINE e == [gen |-> g, kind |-> k]
  <2>0. e \in Event /\ events \in Seq(Event)
    BY DEF Event, TypeOK
  <2>1. e \in Event /\ events \in Seq(Event) /\ Range(events) \subseteq Event
    BY <2>0, RangeIsWithin
  <2>2. Range(events') = Range(events) \cup {e}
    BY <1>2, <2>1, RangeOfAppend DEF Emit
  <2>3. told'[g] = told[g] \cup {k} /\ \A h \in Gen \ {g} : told'[h] = told[h]
    BY <1>2, EmitEffect
  <2>4. ASSUME NEW f \in Range(events') PROVE f.kind \in told'[f.gen]
    <3>1. CASE f = e
      BY <2>3, <3>1
    <3>2. CASE f \in Range(events)
      <4>1. f.gen \in Gen /\ f.kind \in told[f.gen]
        BY <2>1, <3>2 DEF EventsAreTold, Event
      <4> QED
        BY <2>3, <4>1
    <3> QED
      BY <2>2, <3>1, <3>2
  <2>5. \A h \in Gen, j \in EventKind : j \in told'[h] => j \in told[h] \/ Comes(h, j)'
    BY <2>2, <2>3 DEF Comes
  <2> QED
    BY <2>2, <2>3, <2>4, <2>5 DEF EventsAreTold
<1> QED
  BY <1>1, <1>2 DEF Says

LEMMA NothingMoves == ASSUME KInv, UNCHANGED vars PROVE Moves
<1>1. IInv'
  BY StepPreserves DEF KInv
<1> QED
  BY <1>1 DEF KInv, EndedIsGone, Moves, Says, Launched, Ended, vars, threads

LEMMA ThreadMoves ==
  ASSUME KInv, NEW g \in Gen, Thread(g) \/ ChildExit(g)
  PROVE  Moves
<1>1. IInv' /\ IInv /\ TypeOK /\ TypeOK'
  BY StepPreserves DEF Next, KInv, IInv
<1>2. "closed" \in EventKind /\ "failed" \in EventKind /\ Pending(g) \in EventKind
  BY DEF EventKind, Lifecycle, Ending, Pending
<1>3. session' = session \/ session' = NoGen
  BY DEF Thread, ReadChunk, CheckCurrent, Publish, ReaderEof, ReaderReport, TimerDisarm,
     TimerExpire, TimerTake, TimerKill, ChildExit, TakeCurrent
<1>4. \A h \in Gen : Launched(h) => Launched(h)'
  BY <1>1 DEF Thread, ReadChunk, CheckCurrent, Publish, ReaderEof, ReaderReport, TimerDisarm,
     TimerExpire, TimerTake, TimerKill, ChildExit, threads, Launched, TypeOK
<1>5. CASE UNCHANGED <<events, told>>
  BY <1>1, <1>3, <1>4, <1>5 DEF Moves, Says, KInv, EndedIsGone, Ended
<1>6. CASE Publish(g)
  <2>1. Emit(g, Pending(g)) /\ UNCHANGED session
    BY <1>6 DEF Publish
  <2>2. Pending(g) \notin Ending
    BY DEF Pending, Ending
  <2>3. \A h \in Gen : Ended(h)' => Ended(h)
    BY <1>1, <1>2, <2>1, <2>2, EmitEffect DEF Ended
  <2> QED
    BY <1>1, <1>2, <1>4, <2>1, <2>3 DEF Moves, Says, KInv, EndedIsGone
<1>7. CASE ReaderReport(g) \/ TimerKill(g)
  <2>1. PICK k \in EventKind : Emit(g, k)
    BY <1>2, <1>7 DEF ReaderReport, TimerKill
  <2>2. UNCHANGED session /\ session # g
    BY <1>1, <1>7 DEF ReaderReport, TimerKill, IInv, TakenOnce
  <2>3. \A h \in Gen \ {g} : Ended(h)' => Ended(h)
    BY <1>1, <2>1, EmitEffect DEF Ended
  <2> QED
    BY <1>1, <1>4, <2>1, <2>2, <2>3 DEF Moves, Says, KInv, EndedIsGone
<1> QED
  BY <1>5, <1>6, <1>7 DEF Thread, ReadChunk, CheckCurrent, ReaderEof, TimerDisarm, TimerExpire,
     TimerTake, ChildExit

\* Closing the installed session says so, whatever is installed after it.
LEMMA CloseInstalledSays ==
  ASSUME IInv, CloseInstalled
  PROVE  Says /\ \A g \in Gen : Ended(g)' /\ ~Ended(g) => session = g
<1>1. CASE session = NoGen
  BY <1>1 DEF CloseInstalled, Says, Ended
<1>2. CASE session \in Gen
  <2>1. Emit(session, "closed") /\ "closed" \in EventKind
    BY <1>2 DEF CloseInstalled, EventKind, Lifecycle, Ending
  <2> QED
    BY <1>2, <2>1, CloseInstalledEffect DEF Says, Ended
<1> QED
  BY <1>1, <1>2 DEF IInv, TypeOK

LEMMA StartMoves ==
  ASSUME KInv, StartSsh
  PROVE  \E n \in Gen : /\ n = next /\ Moves /\ session' = n
                        /\ Launched(n)' /\ told'[n] = {}
<1>1. IInv' /\ IInv /\ TypeOK
  BY StartSshPreserves DEF KInv, IInv
<1>2. PICK n \in Gen : n = next
  BY DEF StartSsh
<1>3. reader[n] = "off" /\ told[n] = {} /\ session # n
  BY <1>1, <1>2 DEF IInv, FreshGenerations
<1>4. Launched(n)' /\ \A g \in Gen : Launched(g) => Launched(g)' /\ g # n
  <2>1. \A g \in Gen : reader'[g] = IF g = n THEN "reading" ELSE reader[g]
    BY <1>1, <1>2 DEF StartSsh, TypeOK
  <2> QED
    BY <1>3, <2>1 DEF Launched
<1>5. told'[n] = {}
  BY <1>1, <1>3, CloseInstalledEffect DEF StartSsh
<1>6. Says /\ session' = n
  BY <1>1, <1>2, CloseInstalledSays DEF StartSsh
<1> QED
  BY <1>1, <1>2, <1>4, <1>5, <1>6 DEF Moves, Ended

LEMMA StartFailsMoves == ASSUME KInv, StartSshFails PROVE Moves /\ session' = NoGen
<1>1. IInv' /\ Says /\ session' = NoGen /\ UNCHANGED reader
  BY StartSshFailsPreserves, CloseInstalledSays DEF KInv, StartSshFails
<1> QED
  BY <1>1 DEF Moves, Launched

LEMMA CloseMoves ==
  ASSUME KInv, NEW g, Launched(g), CloseSsh(g)
  PROVE  Moves /\ session' = NoGen
<1>1. g \in Gen /\ g < next
  BY DEF Launched, KInv, IInv, FreshGenerations, TypeOK
<1>2. "closed" \in EventKind
  BY DEF EventKind, Lifecycle, Ending
<1>3. IInv' /\ Says /\ session' = NoGen /\ UNCHANGED reader
  BY <1>1, <1>2, CloseSshPreserves DEF KInv, CloseSsh, Says
<1> QED
  BY <1>3 DEF Moves, Launched

-----------------------------------------------------------------------------
(* Whatever the user does: the native side *)

\* A native step that answers at most one request.
LEMMA NativeKeepsK ==
  ASSUME KInv, Moves, UNCHANGED <<ui, clicks>>,
         inbox' \in Seq(Request), Range(inbox') \subseteq Range(inbox),
         replies' \in Seq(Reply),
         \A r \in Range(replies') :
           \/ r \in Range(replies)
           \/ /\ r.op \in {"started", "close_done"} => Launched(r.gen)'
              /\ r.op = "close_done" => session' # r.gen
  PROVE  KInv'
<1>1. IInv' /\ TypeOK /\ TypeOK'
  BY DEF KInv, Moves, IInv
<1>2. ConnTypeOK'
  BY <1>1 DEF KInv, ConnTypeOK, ui
<1>3. EventsAreTold'
  BY <1>1, SaysMeans DEF KInv, Moves, ui
<1>4. ASSUME NEW r \in Range(replies')
      PROVE  /\ r.op \in {"started", "close_done"} => Launched(r.gen)'
             /\ r.op = "close_done" => session' # r.gen
  <2>1. CASE r \in Range(replies)
    <3>1. /\ r.op \in {"started", "close_done"} => Launched(r.gen)
          /\ r.op = "close_done" => session # r.gen
      BY <2>1 DEF KInv, NamesAreLaunched, EndedIsGone
    <3> QED
      BY <3>1 DEF Moves, Launched
  <2> QED
    BY <2>1
<1>5. NamesAreLaunched'
  <2>1. active' # NoGen => Launched(active)'
    BY DEF KInv, NamesAreLaunched, Moves, Launched, ui
  <2>2. ASSUME NEW m \in Range(inbox'), m.op = "close_ssh" PROVE Launched(m.gen)'
    BY <2>2 DEF KInv, NamesAreLaunched, Moves, Launched
  <2> QED
    BY <1>4, <2>1, <2>2 DEF NamesAreLaunched, Launched
<1>6. EndedIsGone'
  BY <1>4 DEF EndedIsGone, Moves, Ended
<1> QED
  BY <1>1, <1>2, <1>3, <1>5, <1>6 DEF KInv

LEMMA AnswerKeepsK ==
  ASSUME KInv, Moves, inbox # <<>>,
         NEW op \in {"started", "not_started", "close_done", "logs_stopped"},
         NEW g \in Gen \cup {NoGen}, Answer(op, g), UNCHANGED <<ui, clicks>>,
         op \in {"started", "close_done"} => Launched(g)',
         op = "close_done" => session' # g
  PROVE  KInv'
<1> DEFINE r == [op |-> op, gen |-> g]
<1>1. inbox \in Seq(Request) /\ replies \in Seq(Reply) /\ r \in Reply
  BY DEF KInv, ConnTypeOK, Reply
<1>2. inbox' = Tail(inbox) /\ replies' = Append(replies, r)
  BY DEF Answer
<1>3. inbox' \in Seq(Request) /\ Range(inbox') \subseteq Range(inbox)
  BY <1>1, <1>2, RangeOfTail
<1>4. replies' \in Seq(Reply) /\ Range(replies') = Range(replies) \cup {r}
  BY <1>1, <1>2, RangeOfAppend
<1>5. r.op = op /\ r.gen = g
  OBVIOUS
<1> HIDE DEF r
<1> QED
  BY <1>3, <1>4, <1>5, NativeKeepsK

LEMMA MainThreadKeepsK == KInv /\ MainThread => KInv'
<1> SUFFICES ASSUME KInv, MainThread PROVE KInv'
  OBVIOUS
<1>0. UNCHANGED <<ui, clicks>> /\ inbox # <<>>
  BY DEF MainThread, ServeStart, ServeClose, ServeStopLogs
<1>1. CASE StartSsh /\ Answer("started", next)
  BY <1>0, <1>1, StartMoves, AnswerKeepsK
<1>2. CASE (StartSshFails \/ UNCHANGED vars) /\ Answer("not_started", NoGen)
  BY <1>0, <1>2, StartFailsMoves, NothingMoves, AnswerKeepsK
<1>3. CASE ServeStopLogs
  BY <1>0, <1>3, NothingMoves, AnswerKeepsK DEF ServeStopLogs
<1>4. CASE ServeClose
  <2>1. PICK g : g = Head(inbox).gen
    OBVIOUS
  <2>2. Head(inbox) \in Range(inbox)
    BY <1>0, RangeOfTail DEF KInv, ConnTypeOK
  <2>3. Launched(g) /\ g \in Gen /\ session \in Gen \cup {NoGen}
    BY <1>4, <2>1, <2>2 DEF ServeClose, KInv, NamesAreLaunched, Launched, IInv, TypeOK
  <2>4. CASE CloseIsStale(g) /\ UNCHANGED vars
    <3>1. session' # g
      BY <2>4 DEF CloseIsStale, vars
    <3>2. Moves
      BY <2>4, NothingMoves
    <3>3. Launched(g)'
      BY <2>3, <3>2 DEF Moves
    <3> QED
      BY <1>0, <1>4, <2>1, <2>3, <3>1, <3>2, <3>3, AnswerKeepsK DEF ServeClose
  <2>5. CASE CloseSsh(g)
    <3>1. Moves /\ session' = NoGen
      BY <2>3, <2>5, CloseMoves
    <3>2. Launched(g)'
      BY <2>3, <3>1 DEF Moves
    <3> QED
      BY <1>0, <1>4, <2>1, <2>3, <3>1, <3>2, AnswerKeepsK DEF ServeClose
  <2> QED
    BY <1>4, <2>1, <2>4, <2>5 DEF ServeClose
<1> QED
  BY <1>1, <1>2, <1>3, <1>4 DEF MainThread, ServeStart

LEMMA ThreadKeepsK == ASSUME KInv, NEW g \in Gen, NativeStep(g) PROVE KInv'
<1>1. Moves
  BY ThreadMoves DEF NativeStep
<1>2. UNCHANGED <<ui, clicks>> /\ UNCHANGED <<inbox, replies>>
  BY DEF NativeStep, Quiet, wire
<1>3. inbox' \in Seq(Request) /\ replies' \in Seq(Reply)
  BY <1>2 DEF KInv, ConnTypeOK
<1> QED
  BY <1>1, <1>2, <1>3, NativeKeepsK

-----------------------------------------------------------------------------
(* Whatever the user does: the webview *)

\* A task that changes nothing about the sessions and names only what it knows.
LEMMA WebviewKeepsK ==
  ASSUME KInv, IInv', ConnTypeOK', UNCHANGED <<session, reader, told>>,
         Range(events') \subseteq Range(events),
         \A g \in Gen : Range(heldEvents'[g]) \subseteq told[g],
         active' # NoGen => Launched(active'),
         \A m \in Range(inbox') : m \in Range(inbox) \/ (m.op = "close_ssh" => Launched(m.gen)),
         Range(replies') \subseteq Range(replies)
  PROVE  KInv'
<1>1. EventsAreTold'
  BY DEF KInv, EventsAreTold
<1>2. NamesAreLaunched'
  BY DEF KInv, NamesAreLaunched, Launched
<1>3. EndedIsGone'
  BY DEF KInv, EndedIsGone, Ended
<1> QED
  BY <1>1, <1>2, <1>3 DEF KInv

LEMMA InvokeAppends ==
  ASSUME KInv, NEW op \in {"start_ssh", "close_ssh", "stop_log_stream"},
         NEW g \in Gen \cup {NoGen}, Invoke(op, g)
  PROVE  inbox' \in Seq(Request) /\ Range(inbox') = Range(inbox) \cup {[op |-> op, gen |-> g]}
<1>1. inbox \in Seq(Request) /\ [op |-> op, gen |-> g] \in Request
  BY DEF KInv, ConnTypeOK, Request
<1> QED
  BY <1>1, RangeOfAppend DEF Invoke

\* disconnectTerminal asks for something, or finds nothing to close.
LEMMA DisconnectAsks ==
  ASSUME KInv, CloseActive \/ DisconnectTerminal
  PROVE  \/ /\ UNCHANGED <<conn, active>>
            /\ \/ active # NoGen /\ Invoke("close_ssh", active)
               \/ conn = "online" /\ Invoke("stop_log_stream", NoGen)
         \/ active = NoGen /\ active' = NoGen /\ conn' = "offline" /\ UNCHANGED inbox
BY DEF CloseActive, DisconnectTerminal, Disconnected

LEMMA DisconnectKeepsK ==
  ASSUME KInv, CloseActive \/ DisconnectTerminal
  PROVE  /\ conn' \in {"offline", "connecting", "online", "error"}
         /\ active' \in Gen \cup {NoGen} /\ (active' # NoGen => Launched(active'))
         /\ inbox' \in Seq(Request)
         /\ \A m \in Range(inbox') :
              m \in Range(inbox) \/ (m.op = "close_ssh" => Launched(m.gen))
<1>1. /\ conn \in {"offline", "connecting", "online", "error"}
      /\ active \in Gen \cup {NoGen} /\ (active # NoGen => Launched(active))
      /\ inbox \in Seq(Request)
  BY DEF KInv, ConnTypeOK, NamesAreLaunched
<1>2. CASE UNCHANGED <<conn, active>> /\ active # NoGen /\ Invoke("close_ssh", active)
  BY <1>1, <1>2, InvokeAppends
<1>3. CASE UNCHANGED <<conn, active>> /\ Invoke("stop_log_stream", NoGen)
  BY <1>1, <1>3, InvokeAppends
<1>4. CASE active' = NoGen /\ conn' = "offline" /\ UNCHANGED inbox
  BY <1>1, <1>4
<1> QED
  BY <1>2, <1>3, <1>4, DisconnectAsks

LEMMA ClickKeepsK == KInv /\ (ClickConnect \/ ClickClose) => KInv'
<1> SUFFICES ASSUME KInv, ClickConnect \/ ClickClose PROVE KInv'
  OBVIOUS
<1>1. /\ UNCHANGED vars /\ UNCHANGED <<heldEvents, heldOutput, hung, replies>>
      /\ clicks' = clicks + 1 /\ clicks < MaxClicks
  BY DEF ClickConnect, ClickClose, Click
<1>2. IInv' /\ TypeOK' /\ UNCHANGED <<session, reader, told, events>>
  BY <1>1, StepPreserves DEF KInv, IInv, vars, threads
<1>3. clicks' \in 0..MaxClicks
  BY <1>1, ConnectionAssumption DEF KInv, ConnTypeOK
<1>4. ASSUME /\ conn' \in {"offline", "connecting", "online", "error"}
             /\ active' \in Gen \cup {NoGen} /\ (active' # NoGen => Launched(active'))
             /\ inbox' \in Seq(Request)
             /\ \A m \in Range(inbox') :
                  m \in Range(inbox) \/ (m.op = "close_ssh" => Launched(m.gen)),
             starting' \in BOOLEAN
      PROVE  KInv'
  <2>1. ConnTypeOK'
    BY <1>1, <1>2, <1>3, <1>4 DEF KInv, ConnTypeOK
  <2> QED
    BY <1>1, <1>2, <1>4, <2>1, WebviewKeepsK DEF KInv, EventsAreTold
<1>5. CASE DisconnectTerminal /\ UNCHANGED starting
  <2>1. starting' \in BOOLEAN
    BY <1>5 DEF KInv, ConnTypeOK
  <2> QED
    BY <1>4, <1>5, <2>1, DisconnectKeepsK
<1>6. CASE starting' = TRUE /\ conn' = "connecting" /\ Invoke("start_ssh", NoGen) /\ UNCHANGED active
  BY <1>4, <1>6, InvokeAppends DEF KInv, ConnTypeOK, NamesAreLaunched
<1> QED
  BY <1>5, <1>6 DEF ClickConnect, ClickClose

\* flushBufferedSshEvents loops, adopts a session of which nothing was kept, ends
\* with the last thing kept, or finds nothing but its authentication.
LEMMA FlushEffect ==
  ASSUME KInv, NEW g \in Gen, Flush(g)
  PROVE  \/ hung' = TRUE /\ UNCHANGED <<conn, active, heldEvents, heldOutput>>
         \/ /\ UNCHANGED hung
            /\ heldEvents' \in [Gen -> Seq(Lifecycle)] /\ heldOutput' \in [Gen -> BOOLEAN]
            /\ \A h \in Gen : Range(heldEvents'[h]) \subseteq Range(heldEvents[h])
            /\ \/ /\ active' = g /\ conn' = conn /\ Range(heldEvents[g]) = {}
               \/ /\ active' = NoGen /\ conn' \in {"offline", "error"}
                  /\ Range(heldEvents[g]) \cap Ending # {}
               \/ /\ active' = g /\ conn' = "online" /\ "authenticated" \in Range(heldEvents[g])
                  /\ Range(heldEvents[g]) \cap Ending = {}
<1> DEFINE held == heldEvents[g]
           last == held[Len(held)]
<1>1. /\ held \in Seq(Lifecycle) /\ Len(held) \in Nat
      /\ heldEvents \in [Gen -> Seq(Lifecycle)] /\ heldOutput \in [Gen -> BOOLEAN]
  BY DEF KInv, ConnTypeOK
<1>2. Range(held) = {held[i] : i \in 1..Len(held)} /\ (held = <<>> => Range(held) = {})
  BY <1>1, RangeIsWithin
<1>3. CASE FlushLoops(held, heldOutput[g])
  BY <1>3 DEF Flush
<1>4. CASE ~FlushLoops(held, heldOutput[g])
  <2>1. /\ heldEvents' = [heldEvents EXCEPT ![g] = <<>>]
        /\ heldOutput' = [heldOutput EXCEPT ![g] = FALSE] /\ UNCHANGED hung
        /\ IF held = <<>>
             THEN active' = g /\ UNCHANGED conn
             ELSE /\ conn' = CASE last = "authenticated" -> "online"
                                [] last = "failed" -> "error"
                                [] last = "closed" -> "offline"
                  /\ active' = IF last \in Ending THEN NoGen ELSE g
    BY <1>4 DEF Flush
  <2>2. /\ heldEvents' \in [Gen -> Seq(Lifecycle)] /\ heldOutput' \in [Gen -> BOOLEAN]
        /\ \A h \in Gen : Range(heldEvents'[h]) \subseteq Range(heldEvents[h])
    <3>1. <<>> \in Seq(Lifecycle) /\ Range(<<>>) = {}
      BY DEF Range
    <3>2. \A h \in Gen : heldEvents'[h] = IF h = g THEN <<>> ELSE heldEvents[h]
      BY <1>1, <2>1
    <3>3. heldEvents' \in [Gen -> Seq(Lifecycle)] /\ heldOutput' \in [Gen -> BOOLEAN]
      BY <1>1, <2>1, <3>1
    <3> QED
      BY <3>1, <3>2, <3>3
  <2>3. CASE held = <<>>
    BY <1>2, <2>1, <2>2, <2>3
  <2>4. CASE held # <<>>
    <3>1. Len(held) \in 1..Len(held)
      BY <1>1, <2>4
    <3>2. last \in Range(held) /\ last \in Lifecycle
      BY <1>1, <1>2, <3>1
    <3>3. CASE last \in Ending
      <4>1. conn' \in {"offline", "error"} /\ active' = NoGen
        BY <2>1, <2>4, <3>3 DEF Ending
      <4> QED
        BY <2>1, <2>2, <3>2, <3>3, <4>1
    <3>4. CASE last \notin Ending
      <4>1. last = "authenticated"
        BY <3>2, <3>4 DEF Lifecycle
      <4>2. conn' = "online" /\ active' = g
        BY <2>1, <2>4, <3>4, <4>1
      <4>3. ASSUME NEW i \in 1..Len(held), held[i] \in Ending PROVE FALSE
        <5>1. i # Len(held)
          BY <3>4, <4>3
        <5>2. i \in EndsAt(held) /\ i < Len(held)
          BY <1>1, <4>3, <5>1 DEF EndsAt
        <5> QED
          BY <1>4, <5>2 DEF FlushLoops
      <4>4. Range(held) \cap Ending = {}
        BY <1>2, <4>3
      <4> QED
        BY <2>1, <2>2, <3>2, <4>1, <4>2, <4>4
    <3> QED
      BY <3>3, <3>4
  <2> QED
    BY <2>3, <2>4
<1> QED
  BY <1>3, <1>4

\* A lifecycle event of the active generation.
LEMMA ApplyEffect ==
  ASSUME NEW k \in Lifecycle, Apply(k)
  PROVE  \/ k \in Ending /\ active' = NoGen /\ conn' \in {"offline", "error"}
         \/ k = "authenticated" /\ active' = active /\ conn' = "online"
BY DEF Apply, Lifecycle, Ending

\* What becomes of the oldest event.
LEMMA DeliveryEffect ==
  ASSUME KInv, DeliverEvent
  PROVE  \E e \in Event :
           /\ Range(events) = {e} \cup Range(events') /\ e.kind \in told[e.gen]
           /\ heldEvents' \in [Gen -> Seq(Lifecycle)] /\ heldOutput' \in [Gen -> BOOLEAN]
           /\ \/ /\ active = NoGen /\ UNCHANGED <<conn, active>>
                 /\ \A g \in Gen : Range(heldEvents'[g]) =
                      Range(heldEvents[g]) \cup
                        (IF g = e.gen /\ e.kind \in Lifecycle THEN {e.kind} ELSE {})
              \/ /\ active # NoGen /\ UNCHANGED heldEvents
                 /\ \/ e.gen = active /\ e.kind \in Lifecycle /\ Apply(e.kind)
                    \/ ~(e.gen = active /\ e.kind \in Lifecycle) /\ UNCHANGED <<conn, active>>
<1>1. /\ events \in Seq(Event) /\ events # <<>> /\ events' = Tail(events)
      /\ heldEvents \in [Gen -> Seq(Lifecycle)] /\ heldOutput \in [Gen -> BOOLEAN]
  BY DEF KInv, ConnTypeOK, IInv, TypeOK, DeliverEvent
<1>2. PICK e \in Event : e = Head(events)
  BY <1>1, RangeOfTail
<1>3. Range(events) = {e} \cup Range(events')
  BY <1>1, <1>2, RangeOfTail
<1>4. e.kind \in told[e.gen]
  BY <1>3 DEF KInv, EventsAreTold
<1>5. e.gen \in Gen /\ e.kind \in EventKind /\ (e.kind = "output" <=> e.kind \notin Lifecycle)
  BY DEF Event, EventKind, Lifecycle, Ending
<1>6. CASE active = NoGen
  <2>1. UNCHANGED <<conn, active>>
    BY <1>6 DEF DeliverEvent
  <2>2. CASE e.kind = "output"
    <3>1. heldOutput' = [heldOutput EXCEPT ![e.gen] = TRUE] /\ UNCHANGED heldEvents
      BY <1>2, <1>6, <2>2 DEF DeliverEvent
    <3>2. heldOutput' \in [Gen -> BOOLEAN] /\ heldEvents' \in [Gen -> Seq(Lifecycle)]
      BY <1>1, <1>5, <3>1
    <3> QED
      BY <1>3, <1>4, <1>5, <1>6, <2>1, <2>2, <3>1, <3>2
  <2>3. CASE e.kind # "output"
    <3>1. /\ heldEvents' = [heldEvents EXCEPT ![e.gen] = Append(@, e.kind)]
          /\ UNCHANGED heldOutput
      BY <1>2, <1>6, <2>3 DEF DeliverEvent
    <3>2. /\ Append(heldEvents[e.gen], e.kind) \in Seq(Lifecycle)
          /\ Range(Append(heldEvents[e.gen], e.kind)) = Range(heldEvents[e.gen]) \cup {e.kind}
      BY <1>1, <1>5, <2>3, RangeOfAppend
    <3>3. \A g \in Gen : heldEvents'[g] =
            IF g = e.gen THEN Append(heldEvents[e.gen], e.kind) ELSE heldEvents[g]
      BY <1>1, <3>1
    <3>4. heldEvents' \in [Gen -> Seq(Lifecycle)]
      BY <1>1, <1>5, <3>1, <3>2
    <3>5. \A g \in Gen : Range(heldEvents'[g]) =
            Range(heldEvents[g]) \cup (IF g = e.gen /\ e.kind \in Lifecycle THEN {e.kind} ELSE {})
      BY <1>5, <2>3, <3>2, <3>3
    <3> QED
      BY <1>1, <1>3, <1>4, <1>6, <2>1, <3>1, <3>4, <3>5
  <2> QED
    BY <2>2, <2>3
<1>7. CASE active # NoGen
  <2>1. UNCHANGED <<heldEvents, heldOutput>>
    BY <1>7 DEF DeliverEvent
  <2>2. IF e.gen = active /\ e.kind # "output" THEN Apply(e.kind) ELSE UNCHANGED <<conn, active>>
    BY <1>2, <1>7 DEF DeliverEvent
  <2> QED
    BY <1>1, <1>3, <1>4, <1>5, <1>7, <2>1, <2>2
<1> QED
  BY <1>6, <1>7

LEMMA DeliverEventKeepsK == KInv /\ DeliverEvent => KInv'
<1> SUFFICES ASSUME KInv, DeliverEvent PROVE KInv'
  OBVIOUS
<1>1. UNCHANGED <<session, next, child, threads, told, starting, hung, wire, clicks>>
  BY DEF DeliverEvent
<1>2. IInv' /\ TypeOK'
  BY <1>1, DeliverPreserves DEF KInv, IInv, DeliverEvent, Deliver
<1>3. PICK e \in Event :
        /\ Range(events) = {e} \cup Range(events') /\ e.kind \in told[e.gen]
        /\ heldEvents' \in [Gen -> Seq(Lifecycle)] /\ heldOutput' \in [Gen -> BOOLEAN]
        /\ \/ /\ active = NoGen /\ UNCHANGED <<conn, active>>
              /\ \A g \in Gen : Range(heldEvents'[g]) =
                   Range(heldEvents[g]) \cup
                     (IF g = e.gen /\ e.kind \in Lifecycle THEN {e.kind} ELSE {})
           \/ /\ active # NoGen /\ UNCHANGED heldEvents
              /\ \/ e.gen = active /\ e.kind \in Lifecycle /\ Apply(e.kind)
                 \/ ~(e.gen = active /\ e.kind \in Lifecycle) /\ UNCHANGED <<conn, active>>
  BY DeliveryEffect
<1>4. /\ conn' \in {"offline", "connecting", "online", "error"}
      /\ active' \in {active, NoGen}
  BY <1>3, ApplyEffect DEF KInv, ConnTypeOK
<1>5. ConnTypeOK'
  BY <1>1, <1>2, <1>3, <1>4 DEF KInv, ConnTypeOK, wire
<1>6. \A g \in Gen : Range(heldEvents'[g]) \subseteq told[g]
  BY <1>3 DEF KInv, EventsAreTold
<1>7. active' # NoGen => Launched(active')
  BY <1>4 DEF KInv, NamesAreLaunched
<1>8. /\ UNCHANGED <<session, reader, told, inbox, replies>>
      /\ Range(events') \subseteq Range(events)
  BY <1>1, <1>3 DEF threads, wire
<1> QED
  BY <1>2, <1>5, <1>6, <1>7, <1>8, WebviewKeepsK

LEMMA DeliverReplyKeepsK == KInv /\ DeliverReply => KInv'
<1> SUFFICES ASSUME KInv, DeliverReply PROVE KInv'
  OBVIOUS
<1>1. UNCHANGED vars /\ UNCHANGED clicks /\ replies' = Tail(replies) /\ replies # <<>>
  BY DEF DeliverReply
<1>2. IInv' /\ TypeOK' /\ UNCHANGED <<session, reader, told, events>>
  BY <1>1, StepPreserves DEF KInv, IInv, vars, threads
<1>3. PICK r \in Reply : r = Head(replies) /\ r \in Range(replies)
  BY <1>1, RangeOfTail DEF KInv, ConnTypeOK
<1>4. replies' \in Seq(Reply) /\ Range(replies') \subseteq Range(replies)
  BY <1>1, RangeOfTail DEF KInv, ConnTypeOK
<1>5. ASSUME /\ conn' \in {"offline", "connecting", "online", "error"}
             /\ active' \in Gen \cup {NoGen} /\ (active' # NoGen => Launched(active'))
             /\ inbox' \in Seq(Request)
             /\ \A m \in Range(inbox') :
                  m \in Range(inbox) \/ (m.op = "close_ssh" => Launched(m.gen)),
             starting' \in BOOLEAN, hung' \in BOOLEAN,
             heldEvents' \in [Gen -> Seq(Lifecycle)], heldOutput' \in [Gen -> BOOLEAN],
             \A g \in Gen : Range(heldEvents'[g]) \subseteq Range(heldEvents[g])
      PROVE  KInv'
  <2>1. ConnTypeOK'
    BY <1>1, <1>2, <1>4, <1>5 DEF KInv, ConnTypeOK
  <2>2. \A g \in Gen : Range(heldEvents'[g]) \subseteq told[g]
    BY <1>5 DEF KInv, EventsAreTold
  <2> QED
    BY <1>2, <1>4, <1>5, <2>1, <2>2, WebviewKeepsK
<1>6. /\ conn \in {"offline", "connecting", "online", "error"}
      /\ active \in Gen \cup {NoGen} /\ (active # NoGen => Launched(active))
      /\ inbox \in Seq(Request) /\ starting \in BOOLEAN /\ hung \in BOOLEAN
      /\ heldEvents \in [Gen -> Seq(Lifecycle)] /\ heldOutput \in [Gen -> BOOLEAN]
  BY DEF KInv, ConnTypeOK, NamesAreLaunched
<1>7. CASE Started(r)
  <2>1. r.gen \in Gen /\ Launched(r.gen)
    BY <1>3, <1>7 DEF Started, KInv, NamesAreLaunched, Launched
  <2>2. starting' = (hung' /\ starting) /\ UNCHANGED inbox /\ Flush(r.gen)
    BY <1>7 DEF Started
  <2>3. starting' \in BOOLEAN
    BY <2>2
  <2>4. hung' = TRUE /\ UNCHANGED <<conn, active, heldEvents, heldOutput>> => KInv'
    BY <1>5, <1>6, <2>2, <2>3
  <2>5. ASSUME UNCHANGED hung, heldEvents' \in [Gen -> Seq(Lifecycle)],
               heldOutput' \in [Gen -> BOOLEAN],
               \A h \in Gen : Range(heldEvents'[h]) \subseteq Range(heldEvents[h]),
               active' \in {r.gen, NoGen}, conn' \in {conn, "offline", "error", "online"}
        PROVE  KInv'
    BY <1>5, <1>6, <2>1, <2>2, <2>3, <2>5
  <2> QED
    BY <2>1, <2>2, <2>4, <2>5, FlushEffect
<1>8. CASE NotStarted(r)
  BY <1>5, <1>6, <1>8 DEF NotStarted
<1>9. CASE LogsStopped(r)
  BY <1>5, <1>6, <1>9, DisconnectKeepsK DEF LogsStopped
<1>10. CASE CloseDone(r)
  BY <1>5, <1>6, <1>10 DEF CloseDone, Disconnected
<1> QED
  BY <1>3, <1>7, <1>8, <1>9, <1>10 DEF DeliverReply

LEMMA KInvInitially == ConnInit => KInv
<1> SUFFICES ASSUME ConnInit PROVE KInv
  OBVIOUS
<1>1. IInv /\ TypeOK
  BY InitEstablishes DEF ConnInit, IInv
<1>2. Range(events) = {} /\ Range(inbox) = {} /\ Range(replies) = {}
      /\ \A g \in Gen : Range(heldEvents[g]) = {}
  BY DEF ConnInit, Init, Range
<1>3. ConnTypeOK
  <2>1. <<>> \in Seq(Lifecycle) /\ inbox \in Seq(Request) /\ replies \in Seq(Reply)
    BY DEF ConnInit
  <2>2. heldEvents \in [Gen -> Seq(Lifecycle)] /\ heldOutput \in [Gen -> BOOLEAN]
    BY <2>1 DEF ConnInit
  <2>3. clicks \in 0..MaxClicks
    BY ConnectionAssumption DEF ConnInit
  <2> QED
    BY <1>1, <2>1, <2>2, <2>3 DEF ConnInit, ConnTypeOK
<1> QED
  BY <1>1, <1>2, <1>3
     DEF KInv, ConnInit, Init, EventsAreTold, NamesAreLaunched, EndedIsGone, Ended

LEMMA KInvIsInductive == KInv /\ [ConnNext]_cvars => KInv'
<1> SUFFICES ASSUME KInv, [ConnNext]_cvars PROVE KInv'
  OBVIOUS
<1>1. CASE UNCHANGED cvars
  <2>1. Moves /\ UNCHANGED <<ui, clicks>> /\ UNCHANGED <<inbox, replies>>
    BY <1>1, NothingMoves DEF cvars, wire
  <2>2. inbox' \in Seq(Request) /\ replies' \in Seq(Reply)
    BY <2>1 DEF KInv, ConnTypeOK
  <2> QED
    BY <2>1, <2>2, NativeKeepsK
<1> QED
  BY <1>1, MainThreadKeepsK, ThreadKeepsK, ClickKeepsK, DeliverEventKeepsK, DeliverReplyKeepsK
     DEF ConnNext

LEMMA KInvHolds == ConnSpec => []KInv
BY KInvInitially, KInvIsInductive, PTL DEF ConnSpec

\* The variables of both sides keep their types, whatever the user clicks (main.ts
\* 653-667, lib.rs 22-80).
THEOREM ConnectionTypeCorrect == ConnSpec => []ConnTypeOK
<1>1. KInv => ConnTypeOK
  BY DEF KInv
<1> QED
  BY <1>1, KInvHolds, PTL

\* The interface goes online only for the generation that is then active and
\* that the native side has announced as authenticated, even for a user who
\* clicks while an attempt is under way (main.ts 752-768, 800-802).
THEOREM OnlineIsAnnounced == ConnSpec => GoesOnlineAuthenticated
<1>1. ASSUME KInv, [ConnNext]_cvars, conn # "online", conn' = "online"
      PROVE  active' # NoGen /\ "authenticated" \in told[active']
  <2>1. ~UNCHANGED conn
    BY <1>1
  <2>2. ~MainThread /\ ~UNCHANGED cvars /\ \A g \in Gen : ~NativeStep(g)
    BY <2>1 DEF MainThread, cvars, NativeStep, Quiet, ui
  <2>3. ~DisconnectTerminal /\ ~CloseActive
    BY <1>1 DEF DisconnectTerminal, CloseActive, Disconnected
  <2>4. ~ClickConnect /\ ~ClickClose
    BY <1>1, <2>3 DEF ClickConnect, ClickClose
  <2>5. CASE DeliverEvent
    <3>1. PICK e \in Event :
            /\ e.kind \in told[e.gen]
            /\ \/ UNCHANGED conn
               \/ active # NoGen /\ e.gen = active /\ e.kind \in Lifecycle /\ Apply(e.kind)
      BY <1>1, <2>5, DeliveryEffect
    <3>2. UNCHANGED told
      BY <2>5 DEF DeliverEvent
    <3> QED
      BY <1>1, <2>1, <3>1, <3>2, ApplyEffect
  <2>6. CASE DeliverReply
    <3>1. PICK r \in Reply : Started(r) /\ r \in Range(replies)
      <4>1. replies \in Seq(Reply) /\ replies # <<>>
        BY <1>1, <2>6 DEF DeliverReply, KInv, ConnTypeOK
      <4>2. Head(replies) \in Reply /\ Head(replies) \in Range(replies)
        BY <4>1, RangeOfTail
      <4>3. Started(Head(replies))
        BY <1>1, <2>3, <2>6 DEF DeliverReply, NotStarted, LogsStopped, CloseDone, Disconnected
      <4> QED
        BY <4>2, <4>3
    <3>2. r.gen \in Gen /\ Flush(r.gen)
      BY <1>1, <3>1 DEF Started, KInv, NamesAreLaunched, Launched
    <3>3. active' = r.gen /\ "authenticated" \in Range(heldEvents[r.gen])
      BY <1>1, <3>2, FlushEffect
    <3> QED
      BY <1>1, <3>2, <3>3 DEF KInv, EventsAreTold
  <2> QED
    BY <1>1, <2>2, <2>4, <2>5, <2>6 DEF ConnNext
<1>2. KInv /\ [ConnNext]_cvars =>
        [conn # "online" /\ conn' = "online"
           => active' # NoGen /\ "authenticated" \in told[active']]_cvars
  BY <1>1
<1> QED
  BY <1>2, KInvHolds, PTL DEF ConnSpec, GoesOnlineAuthenticated

-----------------------------------------------------------------------------
(* For a user who waits: where the start is on the wire *)

LEMMA StartAtHead ==
  ASSUME NEW S, NEW s \in Seq(S), s # <<>>, NothingAfterStart(s)
  PROVE  /\ NothingAfterStart(Tail(s)) /\ (HasStart(Tail(s)) => HasStart(s))
         /\ IsStart(Head(s)) => Tail(s) = <<>> /\ HasStart(s) /\ Range(s) = {Head(s)}
<1>1. /\ Len(s) \in Nat /\ Len(s) # 0 /\ Head(s) = s[1] /\ Tail(s) \in Seq(S)
      /\ Len(Tail(s)) = Len(s) - 1
      /\ \A i \in 1..Len(Tail(s)) : Tail(s)[i] = s[i + 1]
  OBVIOUS
<1>2. Range(s) = {Head(s)} \cup Range(Tail(s))
  BY RangeOfTail
<1>3. ASSUME NEW i \in 1..Len(Tail(s)), IsStart(Tail(s)[i]) PROVE i = Len(Tail(s))
  <2>1. i + 1 \in 1..Len(s) /\ Tail(s)[i] = s[i + 1]
    BY <1>1
  <2>2. IsStart(s[i + 1])
    BY <1>3, <2>1
  <2>3. i + 1 = Len(s)
    BY <2>1, <2>2 DEF NothingAfterStart
  <2>4. Len(s) \in Nat /\ Len(Tail(s)) = Len(s) - 1
    BY <1>1
  <2>5. i \in Int
    BY <2>4
  <2> QED
    BY <2>3, <2>4, <2>5
<1>4. ASSUME IsStart(Head(s)) PROVE Tail(s) = <<>>
  <2>1. 1 \in 1..Len(s) /\ IsStart(s[1])
    BY <1>1, <1>4
  <2>2. Len(s) = 1
    BY <2>1 DEF NothingAfterStart
  <2>3. Len(Tail(s)) = 0
    BY <1>1, <2>2
  <2>4. \A t \in Seq(S) : Len(t) = 0 => t = <<>>
    OBVIOUS
  <2> QED
    BY <1>1, <2>3, <2>4
<1>5. Tail(s) = <<>> => Range(Tail(s)) = {}
  BY <1>1, RangeIsWithin
<1> QED
  BY <1>2, <1>3, <1>4, <1>5 DEF NothingAfterStart, HasStart

LEMMA StartAtEnd ==
  ASSUME NEW S, NEW s \in Seq(S), NEW e \in S, ~HasStart(s)
  PROVE  NothingAfterStart(Append(s, e)) /\ (HasStart(Append(s, e)) => IsStart(e))
<1>1. /\ Len(Append(s, e)) = Len(s) + 1 /\ Len(s) \in Nat
      /\ \A i \in 1..Len(s) : Append(s, e)[i] = s[i]
  OBVIOUS
<1>2. Range(s) = {s[i] : i \in 1..Len(s)} /\ Range(Append(s, e)) = Range(s) \cup {e}
  BY RangeIsWithin, RangeOfAppend
<1>3. \A i \in 1..Len(s) : ~IsStart(Append(s, e)[i])
  BY <1>1, <1>2 DEF HasStart
<1>4. \A i \in 1..Len(Append(s, e)) : i \in 1..Len(s) \/ i = Len(Append(s, e))
  BY <1>1
<1> QED
  BY <1>2, <1>3, <1>4 DEF NothingAfterStart, HasStart

-----------------------------------------------------------------------------
(* For a user who waits: the native side *)

LEMMA NativeKeepsP ==
  ASSUME PInv, KInv', Moves, UNCHANGED <<ui, clicks>>, StartIsLast', ClosesTheActive',
         \A r \in Range(replies') : r.op = "started" => r \in Range(replies) \/ told'[r.gen] = {},
         Range(replies) \subseteq Range(replies'),
         session' # NoGen =>
           session' = session \/ [op |-> "started", gen |-> session'] \in Range(replies')
  PROVE  PInv'
<1>1. /\ Range(events) \subseteq Range(events')
      /\ \A g \in Gen : told[g] \subseteq told'[g]
      /\ \A g \in Gen, k \in EventKind : k \in told'[g] => k \in told[g] \/ Comes(g, k)'
  BY SaysMeans DEF PInv, KInv, Moves, IInv, ui
<1>2. UNCHANGED <<conn, active, starting, heldEvents, heldOutput, hung>>
  BY DEF ui
<1>3. \A g \in Gen, k \in Lifecycle : Comes(g, k) => Comes(g, k)'
  BY <1>1 DEF Comes
<1>4. Lifecycle \subseteq EventKind /\ active \in Gen \cup {NoGen}
  BY DEF EventKind, PInv, KInv, ConnTypeOK
<1>5. \A r \in Range(replies') : r.op = "started" => r.gen \in Gen
  BY DEF KInv, NamesAreLaunched, Launched
<1>6. NothingIsMissed'
  <2>1. ASSUME active # NoGen, NEW k \in told'[active] \cap Lifecycle
        PROVE  Comes(active, k)' \/ (k = "authenticated" /\ conn = "online")
    <3>1. k \in told[active] \/ Comes(active, k)'
      BY <1>1, <1>2, <1>4, <2>1 DEF Comes
    <3>2. k \in told[active] => Comes(active, k) \/ (k = "authenticated" /\ conn = "online")
      BY <2>1 DEF PInv, NothingIsMissed
    <3>3. Comes(active, k) => Comes(active, k)'
      BY <1>1, <1>2 DEF Comes
    <3> QED
      BY <3>1, <3>2, <3>3
  <2>2. ASSUME NEW r \in Range(replies'), r.op = "started", NEW k \in told'[r.gen] \cap Lifecycle
        PROVE  [gen |-> r.gen, kind |-> k] \in Range(events') \/ k \in Range(heldEvents[r.gen])
    <3>1. r \in Range(replies) /\ r.gen \in Gen
      BY <1>5, <2>2
    <3>2. k \in told[r.gen] \/ [gen |-> r.gen, kind |-> k] \in Range(events')
      BY <1>1, <1>4, <2>2, <3>1 DEF Comes
    <3>3. k \in told[r.gen] => Comes(r.gen, k) \/ k \in Range(heldEvents[r.gen])
      BY <2>2, <3>1 DEF PInv, NothingIsMissed
    <3> QED
      BY <1>1, <3>2, <3>3 DEF Comes
  <2> QED
    BY <1>2, <2>1, <2>2 DEF NothingIsMissed, Comes
<1>7. SessionIsKnown'
  BY <1>2 DEF PInv, SessionIsKnown
<1>8. OnlineIsAuthenticated' /\ StartingIsOffline'
  BY <1>1, <1>2, <1>4 DEF PInv, OnlineIsAuthenticated, StartingIsOffline
<1> QED
  BY <1>6, <1>7, <1>8 DEF PInv

LEMMA AnswerKeepsP ==
  ASSUME PInv, KInv', Moves, inbox # <<>>, UNCHANGED <<ui, clicks>>,
         NEW op \in {"started", "not_started", "close_done", "logs_stopped"},
         NEW g \in Gen \cup {NoGen}, Answer(op, g),
         op \in {"started", "not_started"} => IsStart(Head(inbox)),
         op = "close_done" => active \in {g, NoGen},
         op = "started" => told'[g] = {},
         session' # NoGen => session' = session \/ (op = "started" /\ session' = g)
  PROVE  PInv'
<1> DEFINE r == [op |-> op, gen |-> g]
<1>1. inbox \in Seq(Request) /\ replies \in Seq(Reply) /\ r \in Reply
  BY DEF PInv, KInv, ConnTypeOK, Reply
<1>2. inbox' = Tail(inbox) /\ replies' = Append(replies, r)
  BY DEF Answer
<1>3. Range(inbox') \subseteq Range(inbox) /\ Range(replies') = Range(replies) \cup {r}
  BY <1>1, <1>2, RangeOfTail, RangeOfAppend
<1>4. UNCHANGED <<conn, active, starting, heldEvents, heldOutput, hung>>
  BY DEF ui
<1>5. /\ NothingAfterStart(inbox) /\ NothingAfterStart(replies)
      /\ (HasStart(inbox) => starting) /\ ~HasStart(replies)
  BY DEF PInv, StartIsLast
<1>6. /\ NothingAfterStart(inbox') /\ (HasStart(inbox') => HasStart(inbox))
      /\ IsStart(Head(inbox)) => inbox' = <<>> /\ HasStart(inbox)
  <2> HIDE DEF r
  <2>1. /\ NothingAfterStart(Tail(inbox)) /\ (HasStart(Tail(inbox)) => HasStart(inbox))
        /\ IsStart(Head(inbox)) => Tail(inbox) = <<>> /\ HasStart(inbox)
    BY <1>1, <1>5, StartAtHead
  <2> QED
    BY <1>2, <2>1 DEF NothingAfterStart, HasStart
<1>7. NothingAfterStart(replies') /\ (HasStart(replies') => IsStart(r))
  BY <1>1, <1>2, <1>5, StartAtEnd
<1>8. IsStart(r) => IsStart(Head(inbox))
  BY DEF IsStart
<1>9. StartIsLast'
  BY <1>4, <1>5, <1>6, <1>7, <1>8 DEF StartIsLast, NothingAfterStart, HasStart, IsStart
<1>10. ClosesTheActive'
  BY <1>3, <1>4 DEF PInv, ClosesTheActive
<1> QED
  BY <1>3, <1>9, <1>10, NativeKeepsP

LEMMA MainThreadKeepsP == ASSUME PInv, MainThread PROVE PInv'
<1>0. /\ KInv /\ KInv' /\ UNCHANGED <<ui, clicks>>
      /\ inbox # <<>> /\ inbox \in Seq(Request)
  BY MainThreadKeepsK DEF PInv, KInv, ConnTypeOK, MainThread, ServeStart, ServeClose, ServeStopLogs
<1>1. Head(inbox) \in Range(inbox)
  BY <1>0, RangeOfTail
<1>2. ASSUME ServeStart PROVE PInv'
  <2>1. IsStart(Head(inbox))
    BY <1>2 DEF ServeStart, IsStart
  <2>2. CASE StartSsh /\ Answer("started", next)
    <3>1. PICK n \in Gen : n = next /\ Moves /\ session' = n /\ told'[n] = {}
      BY <1>0, <2>2, StartMoves
    <3> QED
      BY <1>0, <2>1, <2>2, <3>1, AnswerKeepsP
  <2>3. CASE StartSshFails /\ Answer("not_started", NoGen)
    BY <1>0, <2>1, <2>3, StartFailsMoves, AnswerKeepsP
  <2>4. CASE UNCHANGED vars /\ Answer("not_started", NoGen)
    BY <1>0, <2>1, <2>4, NothingMoves, AnswerKeepsP DEF vars
  <2> QED
    BY <1>2, <2>2, <2>3, <2>4 DEF ServeStart
<1>3. ASSUME ServeClose PROVE PInv'
  <2>1. PICK g \in Gen : g = Head(inbox).gen /\ Launched(g) /\ active \in {g, NoGen}
    BY <1>0, <1>1, <1>3 DEF ServeClose, PInv, KInv, NamesAreLaunched, ClosesTheActive, Launched
  <2>2. CASE UNCHANGED vars
    BY <1>0, <1>3, <2>1, <2>2, NothingMoves, AnswerKeepsP DEF ServeClose, vars
  <2>3. CASE CloseSsh(g)
    BY <1>0, <1>3, <2>1, <2>3, CloseMoves, AnswerKeepsP DEF ServeClose
  <2> QED
    BY <1>3, <2>1, <2>2, <2>3 DEF ServeClose
<1>4. ASSUME ServeStopLogs PROVE PInv'
  BY <1>0, <1>4, NothingMoves, AnswerKeepsP DEF ServeStopLogs, vars
<1> QED
  BY <1>2, <1>3, <1>4 DEF MainThread

LEMMA ThreadKeepsP == ASSUME PInv, NEW g \in Gen, NativeStep(g) PROVE PInv'
<1>1. KInv' /\ Moves /\ UNCHANGED <<ui, clicks>> /\ UNCHANGED <<inbox, replies>>
  BY ThreadKeepsK, ThreadMoves DEF PInv, NativeStep, Quiet, wire
<1>2. session' = session \/ session' = NoGen
  BY DEF NativeStep, Thread, ReadChunk, CheckCurrent, Publish, ReaderEof, ReaderReport,
     TimerDisarm, TimerExpire, TimerTake, TimerKill, ChildExit, TakeCurrent
<1>3. StartIsLast' /\ ClosesTheActive'
  BY <1>1 DEF PInv, StartIsLast, ClosesTheActive, NothingAfterStart, HasStart, ui
<1> QED
  BY <1>1, <1>2, <1>3, NativeKeepsP

-----------------------------------------------------------------------------
(* For a user who waits: the webview *)

\* While nothing starts, a start is nowhere on the wire.
LEMMA NothingStarts ==
  ASSUME StartIsLast, ~starting
  PROVE  /\ ~HasStart(inbox) /\ ~HasStart(replies)
         /\ \A r \in Range(replies) : r.op # "started"
BY DEF StartIsLast, HasStart, IsStart

\* disconnectTerminal while nothing starts.
LEMMA DisconnectKeepsWire ==
  ASSUME PInv, ~starting \/ active = NoGen, conn = "online" => ~starting,
         CloseActive \/ DisconnectTerminal
  PROVE  /\ UNCHANGED active /\ (conn' = conn \/ (active = NoGen /\ conn' = "offline"))
         /\ \/ UNCHANGED inbox
            \/ NothingAfterStart(inbox') /\ ~HasStart(inbox') /\ ~starting
         /\ \A m \in Range(inbox') : m.op = "close_ssh" => active \in {m.gen, NoGen}
<1>0. KInv /\ inbox \in Seq(Request) /\ StartIsLast
  BY DEF PInv, KInv, ConnTypeOK
<1>1. ASSUME NEW op \in {"close_ssh", "stop_log_stream"}, NEW g \in Gen \cup {NoGen},
             Invoke(op, g), ~starting, op = "close_ssh" => g = active
      PROVE  /\ NothingAfterStart(inbox') /\ ~HasStart(inbox')
             /\ \A m \in Range(inbox') : m.op = "close_ssh" => active \in {m.gen, NoGen}
  <2> DEFINE m == [op |-> op, gen |-> g]
  <2>1. m \in Request /\ inbox' = Append(inbox, m) /\ ~HasStart(inbox)
    BY <1>0, <1>1, NothingStarts DEF Request, Invoke
  <2>2. ~IsStart(m) /\ (m.op = "close_ssh" => active = m.gen)
    BY <1>1 DEF IsStart
  <2> HIDE DEF m
  <2>3. NothingAfterStart(Append(inbox, m)) /\ ~HasStart(Append(inbox, m))
    BY <1>0, <2>1, <2>2, StartAtEnd
  <2>4. Range(Append(inbox, m)) = Range(inbox) \cup {m}
    BY <1>0, <2>1, RangeOfAppend
  <2> QED
    BY <2>1, <2>2, <2>3, <2>4 DEF PInv, ClosesTheActive, NothingAfterStart, HasStart
<1>2. active \in Gen \cup {NoGen}
  BY <1>0 DEF KInv, ConnTypeOK
<1>3. CASE UNCHANGED <<conn, active>> /\ active # NoGen /\ Invoke("close_ssh", active)
  BY <1>1, <1>2, <1>3
<1>4. CASE UNCHANGED <<conn, active>> /\ conn = "online" /\ Invoke("stop_log_stream", NoGen)
  BY <1>1, <1>4
<1>5. CASE active = NoGen /\ active' = NoGen /\ conn' = "offline" /\ UNCHANGED inbox
  BY <1>5 DEF PInv, ClosesTheActive
<1> QED
  BY <1>0, <1>3, <1>4, <1>5, DisconnectAsks

LEMMA ClickKeepsP ==
  ASSUME PInv, Impatient = FALSE, ClickConnect \/ ClickClose PROVE PInv'
<1>0. /\ KInv /\ KInv' /\ UNCHANGED <<session, told, events, heldEvents, hung, replies>>
      /\ ~starting /\ (active = NoGen \/ conn = "online")
      /\ inbox \in Seq(Request)
  BY ClickKeepsK DEF PInv, KInv, ConnTypeOK, ClickConnect, ClickClose, Click, AttemptUnderWay, vars
<1>1. StartIsLast /\ ~HasStart(inbox) /\ ~HasStart(replies)
  BY <1>0, NothingStarts DEF PInv
<1>2. ASSUME /\ UNCHANGED active /\ (conn' = conn \/ (active = NoGen /\ conn' # "online"))
             /\ NothingAfterStart(inbox') /\ (HasStart(inbox') => starting')
             /\ \A m \in Range(inbox') : m.op = "close_ssh" => active \in {m.gen, NoGen}
             /\ starting' => active = NoGen /\ conn' # "online"
      PROVE  PInv'
  <2>1. StartIsLast'
    BY <1>0, <1>1, <1>2 DEF StartIsLast, NothingAfterStart, HasStart
  <2>2. ClosesTheActive' /\ StartingIsOffline' /\ OnlineIsAuthenticated' /\ SessionIsKnown'
    BY <1>0, <1>2 DEF PInv, ClosesTheActive, StartingIsOffline, OnlineIsAuthenticated, SessionIsKnown
  <2>3. NothingIsMissed'
    BY <1>0, <1>2 DEF PInv, NothingIsMissed, Comes
  <2> QED
    BY <1>0, <2>1, <2>2, <2>3 DEF PInv
<1>3. CASE DisconnectTerminal /\ UNCHANGED starting
  BY <1>0, <1>1, <1>2, <1>3, DisconnectKeepsWire DEF StartIsLast, NothingAfterStart, HasStart
<1>4. CASE /\ starting' = TRUE /\ conn' = "connecting" /\ UNCHANGED active
           /\ conn # "online" /\ Invoke("start_ssh", NoGen)
  <2> DEFINE m == [op |-> "start_ssh", gen |-> NoGen]
  <2>1. m \in Request /\ inbox' = Append(inbox, m) /\ m.op # "close_ssh"
    BY <1>4 DEF Request, Invoke
  <2> HIDE DEF m
  <2>2. NothingAfterStart(inbox') /\ Range(inbox') = Range(inbox) \cup {m}
    BY <1>0, <1>1, <2>1, StartAtEnd, RangeOfAppend DEF NothingAfterStart
  <2> QED
    BY <1>0, <1>2, <1>4, <2>1, <2>2 DEF PInv, ClosesTheActive
<1> QED
  BY <1>3, <1>4 DEF ClickConnect, ClickClose

LEMMA DeliverEventKeepsP == ASSUME PInv, DeliverEvent PROVE PInv'
<1>0. /\ KInv /\ KInv' /\ UNCHANGED <<session, told, starting, hung, inbox, replies>>
      /\ active \in Gen \cup {NoGen}
  BY DeliverEventKeepsK DEF PInv, KInv, ConnTypeOK, DeliverEvent, wire
<1>1. PICK e \in Event :
        /\ Range(events) = {e} \cup Range(events') /\ e.kind \in told[e.gen]
        /\ \/ /\ active = NoGen /\ UNCHANGED <<conn, active>>
              /\ \A g \in Gen : Range(heldEvents'[g]) =
                   Range(heldEvents[g]) \cup
                     (IF g = e.gen /\ e.kind \in Lifecycle THEN {e.kind} ELSE {})
           \/ /\ active # NoGen /\ UNCHANGED heldEvents
              /\ \/ e.gen = active /\ e.kind \in Lifecycle /\ Apply(e.kind)
                 \/ ~(e.gen = active /\ e.kind \in Lifecycle) /\ UNCHANGED <<conn, active>>
  BY <1>0, DeliveryEffect
<1>2. \A g \in Gen, k \in Lifecycle :
        Comes(g, k) => [gen |-> g, kind |-> k] \in Range(events') \/ (e.gen = g /\ e.kind = k)
  BY <1>1 DEF Comes
<1>3. StartIsLast'
  BY <1>0 DEF PInv, StartIsLast, NothingAfterStart, HasStart
<1>4. \A r \in Range(replies) : r.op = "started" => starting /\ active = NoGen /\ r.gen \in Gen
  BY <1>0, NothingStarts DEF PInv, KInv, NamesAreLaunched, Launched, StartingIsOffline
<1>5. CASE active = NoGen
  <2>1. /\ UNCHANGED <<conn, active>>
        /\ \A g \in Gen : Range(heldEvents'[g]) =
             Range(heldEvents[g]) \cup
               (IF g = e.gen /\ e.kind \in Lifecycle THEN {e.kind} ELSE {})
    BY <1>1, <1>5
  <2>2. NothingIsMissed'
    <3>1. ASSUME NEW r \in Range(replies), r.op = "started", NEW k \in told[r.gen] \cap Lifecycle
          PROVE  \/ [gen |-> r.gen, kind |-> k] \in Range(events')
                 \/ k \in Range(heldEvents'[r.gen])
      <4>1. Comes(r.gen, k) \/ k \in Range(heldEvents[r.gen])
        BY <3>1 DEF PInv, NothingIsMissed
      <4> QED
        BY <1>2, <1>4, <2>1, <3>1, <4>1
    <3> QED
      BY <1>0, <1>5, <2>1, <3>1 DEF NothingIsMissed, Comes
  <2> QED
    BY <1>0, <1>3, <2>1, <2>2
       DEF PInv, ClosesTheActive, StartingIsOffline, OnlineIsAuthenticated, SessionIsKnown
<1>6. CASE active # NoGen /\ e.gen = active /\ e.kind \in Lifecycle /\ Apply(e.kind)
  <2>0. ~starting
    BY <1>6 DEF PInv, StartingIsOffline
  <2>1. CASE e.kind \in Ending /\ active' = NoGen /\ conn' \in {"offline", "error"}
    <3>1. session # active
      BY <1>0, <1>1, <1>6, <2>1 DEF KInv, EndedIsGone, Ended
    <3>2. NothingIsMissed' /\ SessionIsKnown'
      BY <1>0, <1>4, <1>6, <2>1, <3>1 DEF PInv, NothingIsMissed, SessionIsKnown
    <3> QED
      BY <1>0, <1>3, <2>1, <3>2
         DEF PInv, ClosesTheActive, StartingIsOffline, OnlineIsAuthenticated
  <2>2. CASE e.kind = "authenticated" /\ active' = active /\ conn' = "online"
    <3>1. NothingIsMissed'
      <4>1. ASSUME NEW k \in told[active] \cap Lifecycle
            PROVE  [gen |-> active, kind |-> k] \in Range(events') \/ k = "authenticated"
        BY <1>0, <1>2, <1>6, <2>2 DEF PInv, NothingIsMissed
      <4> QED
        BY <1>0, <1>4, <1>6, <2>2, <4>1 DEF NothingIsMissed, Comes
    <3> QED
      BY <1>0, <1>1, <1>3, <1>6, <2>0, <2>2, <3>1
         DEF PInv, ClosesTheActive, StartingIsOffline, OnlineIsAuthenticated, SessionIsKnown
  <2> QED
    BY <1>6, <2>1, <2>2, ApplyEffect
<1>7. CASE /\ active # NoGen /\ ~(e.gen = active /\ e.kind \in Lifecycle)
           /\ UNCHANGED <<conn, active>>
  <2>1. ASSUME NEW k \in told[active] \cap Lifecycle
        PROVE  \/ [gen |-> active, kind |-> k] \in Range(events')
               \/ k = "authenticated" /\ conn = "online"
    BY <1>0, <1>2, <1>7 DEF PInv, NothingIsMissed
  <2>2. NothingIsMissed'
    BY <1>0, <1>4, <1>7, <2>1 DEF NothingIsMissed, Comes
  <2> QED
    BY <1>0, <1>3, <1>7, <2>2
       DEF PInv, ClosesTheActive, StartingIsOffline, OnlineIsAuthenticated, SessionIsKnown
<1> QED
  BY <1>1, <1>5, <1>6, <1>7

LEMMA DeliverReplyKeepsP == ASSUME PInv, DeliverReply PROVE PInv'
<1>0. /\ KInv /\ KInv' /\ UNCHANGED <<session, told, events>> /\ ~hung
      /\ replies \in Seq(Reply) /\ replies # <<>> /\ replies' = Tail(replies)
      /\ active \in Gen \cup {NoGen} /\ session \in Gen \cup {NoGen}
  BY DeliverReplyKeepsK DEF PInv, KInv, ConnTypeOK, DeliverReply, vars, IInv, TypeOK
<1>1. PICK r \in Reply : r = Head(replies) /\ Range(replies) = {r} \cup Range(replies')
  BY <1>0, RangeOfTail
<1>2. /\ NothingAfterStart(Tail(replies)) /\ (HasStart(Tail(replies)) => HasStart(replies))
      /\ IsStart(r) => Tail(replies) = <<>> /\ HasStart(replies) /\ Range(replies) = {r}
  BY <1>0, <1>1, StartAtHead DEF PInv, StartIsLast
<1>3. NothingAfterStart(replies') /\ (HasStart(replies') => HasStart(replies))
  BY <1>0, <1>2 DEF NothingAfterStart, HasStart
<1>4. ASSUME IsStart(r)
      PROVE  /\ starting /\ inbox = <<>> /\ active = NoGen /\ conn # "online"
             /\ Range(inbox) = {} /\ Range(replies') = {} /\ Range(replies) = {r}
             /\ ~HasStart(inbox) /\ ~HasStart(replies') /\ NothingAfterStart(inbox)
             /\ session # NoGen => r.op = "started" /\ session = r.gen
  <2>1. starting /\ inbox = <<>> /\ active = NoGen /\ conn # "online" /\ NothingAfterStart(inbox)
    BY <1>2, <1>4 DEF PInv, StartIsLast, StartingIsOffline
  <2>2. Range(inbox) = {} /\ Range(replies') = {}
    BY <1>0, <1>2, <1>4, <2>1 DEF Range
  <2> QED
    BY <1>0, <1>2, <1>4, <2>1, <2>2 DEF HasStart, PInv, SessionIsKnown
<1>5. CASE Started(r)
  <2>1. r.op = "started" /\ Flush(r.gen) /\ starting' = (hung' /\ starting) /\ UNCHANGED inbox
    BY <1>5 DEF Started
  <2>2. IsStart(r) /\ r.gen \in Gen
    BY <1>0, <1>1, <2>1 DEF IsStart, KInv, NamesAreLaunched, Launched
  <2>3. \A k \in told[r.gen] \cap Lifecycle : Comes(r.gen, k) \/ k \in Range(heldEvents[r.gen])
    BY <1>1, <2>1 DEF PInv, NothingIsMissed
  <2>4. ASSUME starting' => active' = NoGen /\ conn' # "online",
               active' # NoGen => /\ active' = r.gen
                                  /\ \A k \in told[r.gen] \cap Lifecycle :
                                       Comes(r.gen, k) \/ (k = "authenticated" /\ conn' = "online"),
               session # NoGen => hung' \/ active' = session,
               conn' = "online" => active' # NoGen /\ "authenticated" \in told[active']
        PROVE  PInv'
    <3>1. StartIsLast' /\ ClosesTheActive'
      BY <1>3, <1>4, <2>1, <2>2 DEF StartIsLast, ClosesTheActive, HasStart, NothingAfterStart
    <3>2. NothingIsMissed' /\ SessionIsKnown'
      BY <1>0, <1>4, <2>2, <2>4 DEF NothingIsMissed, SessionIsKnown, Comes
    <3> QED
      BY <1>0, <2>4, <3>1, <3>2 DEF PInv, StartingIsOffline, OnlineIsAuthenticated
  <2>5. CASE hung' = TRUE /\ UNCHANGED <<conn, active, heldEvents, heldOutput>>
    BY <1>4, <2>2, <2>4, <2>5
  <2>6. ASSUME UNCHANGED hung PROVE starting' = FALSE
    BY <1>0, <2>1, <2>6
  <2>7. CASE UNCHANGED hung /\ active' = r.gen /\ conn' = conn /\ Range(heldEvents[r.gen]) = {}
    BY <1>4, <2>2, <2>3, <2>4, <2>6, <2>7
  <2>8. CASE /\ UNCHANGED hung /\ active' = NoGen /\ conn' \in {"offline", "error"}
             /\ Range(heldEvents[r.gen]) \cap Ending # {}
    <3>1. session # r.gen
      BY <1>0, <2>2, <2>8 DEF KInv, EventsAreTold, EndedIsGone, Ended
    <3> QED
      BY <1>4, <2>2, <2>4, <2>6, <2>8, <3>1
  <2>9. CASE /\ UNCHANGED hung /\ active' = r.gen /\ conn' = "online"
             /\ "authenticated" \in Range(heldEvents[r.gen])
             /\ Range(heldEvents[r.gen]) \cap Ending = {}
    <3>1. "authenticated" \in told[r.gen] /\ r.gen # NoGen
      BY <1>0, <2>2, <2>9 DEF KInv, EventsAreTold
    <3>2. \A k \in Lifecycle \cap Range(heldEvents[r.gen]) : k = "authenticated"
      BY <2>9 DEF Lifecycle
    <3> QED
      BY <1>4, <2>2, <2>3, <2>4, <2>6, <2>9, <3>1, <3>2
  <2> QED
    BY <1>0, <2>1, <2>2, <2>5, <2>7, <2>8, <2>9, FlushEffect
<1>6. CASE NotStarted(r)
  <2>1. /\ IsStart(r) /\ r.op # "started" /\ conn' = "error" /\ starting' = FALSE
        /\ UNCHANGED <<active, heldEvents, hung, inbox>>
    BY <1>6 DEF NotStarted, IsStart
  <2>2. StartIsLast' /\ ClosesTheActive'
    BY <1>3, <1>4, <2>1 DEF StartIsLast, ClosesTheActive, HasStart, NothingAfterStart
  <2> QED
    BY <1>0, <1>4, <2>1, <2>2
       DEF PInv, NothingIsMissed, SessionIsKnown, StartingIsOffline, OnlineIsAuthenticated
<1>7. ASSUME r.op \notin {"started", "not_started"}, UNCHANGED <<starting, heldEvents, hung>>,
             conn' = "online" => conn = "online",
             \/ UNCHANGED active /\ (conn' = conn \/ active = NoGen)
             \/ active' = NoGen /\ session # active /\ conn' # "online",
             \/ UNCHANGED inbox
             \/ NothingAfterStart(inbox') /\ ~HasStart(inbox') /\ ~starting,
             \A m \in Range(inbox') : m.op = "close_ssh" => active' \in {m.gen, NoGen}
      PROVE  PInv'
  <2>1. StartIsLast'
    <3>1. HasStart(replies') => starting /\ inbox = <<>>
      BY <1>3 DEF PInv, StartIsLast
    <3>2. NothingAfterStart(inbox') /\ (HasStart(inbox') => starting)
      BY <1>7 DEF PInv, StartIsLast, NothingAfterStart, HasStart
    <3>3. HasStart(replies') => UNCHANGED inbox
      BY <1>7, <3>1
    <3> QED
      BY <1>3, <1>7, <3>1, <3>2, <3>3 DEF StartIsLast, HasStart, NothingAfterStart
  <2>2. ClosesTheActive' /\ StartingIsOffline' /\ OnlineIsAuthenticated'
    BY <1>0, <1>1, <1>7 DEF PInv, ClosesTheActive, StartingIsOffline, OnlineIsAuthenticated
  <2>3. NothingIsMissed' /\ SessionIsKnown'
    BY <1>0, <1>1, <1>7 DEF PInv, NothingIsMissed, SessionIsKnown, Comes
  <2> QED
    BY <1>0, <2>1, <2>2, <2>3 DEF PInv
<1>8. CASE LogsStopped(r)
  <2>1. (~starting \/ active = NoGen) /\ (conn = "online" => ~starting) /\ CloseActive
    BY <1>8 DEF PInv, StartingIsOffline, LogsStopped
  <2>2. /\ UNCHANGED active /\ (conn' = conn \/ (active = NoGen /\ conn' = "offline"))
        /\ \/ UNCHANGED inbox
           \/ NothingAfterStart(inbox') /\ ~HasStart(inbox') /\ ~starting
        /\ \A m \in Range(inbox') : m.op = "close_ssh" => active \in {m.gen, NoGen}
    BY <2>1, DisconnectKeepsWire
  <2> QED
    BY <1>7, <1>8, <2>2 DEF LogsStopped
<1>9. CASE CloseDone(r)
  <2>1. session # r.gen /\ active \in {r.gen, NoGen}
    BY <1>0, <1>1, <1>9 DEF CloseDone, KInv, EndedIsGone, PInv, ClosesTheActive
  <2>2. CASE active = NoGen
    BY <1>7, <1>9, <2>2 DEF CloseDone, Disconnected, PInv, ClosesTheActive
  <2>3. CASE active = r.gen
    BY <1>7, <1>9, <2>1, <2>3 DEF CloseDone, Disconnected
  <2> QED
    BY <2>1, <2>2, <2>3
<1> QED
  BY <1>1, <1>5, <1>6, <1>8, <1>9 DEF DeliverReply

-----------------------------------------------------------------------------
(* The invariant of a user who waits, and what it gives *)

LEMMA PInvInitially == ConnInit => PInv
<1> SUFFICES ASSUME ConnInit PROVE PInv
  OBVIOUS
<1>1. KInv
  BY KInvInitially
<1>2. Len(inbox) = 0 /\ Len(replies) = 0 /\ Range(inbox) = {} /\ Range(replies) = {}
  BY DEF ConnInit, Range
<1>3. StartIsLast /\ ClosesTheActive
  BY <1>2 DEF StartIsLast, ClosesTheActive, NothingAfterStart, HasStart
<1> QED
  BY <1>1, <1>2, <1>3 DEF PInv, ConnInit, Init, StartingIsOffline, NothingIsMissed,
     SessionIsKnown, OnlineIsAuthenticated

LEMMA PInvIsInductive ==
  ASSUME Impatient = FALSE
  PROVE  PInv /\ [ConnNext]_cvars => PInv'
<1> SUFFICES ASSUME PInv, [ConnNext]_cvars PROVE PInv'
  OBVIOUS
<1>1. CASE UNCHANGED cvars
  <2>1. UNCHANGED vars /\ UNCHANGED <<ui, clicks>> /\ UNCHANGED <<inbox, replies, session>>
    BY <1>1 DEF cvars, wire, vars
  <2>2. KInv' /\ Moves
    BY <1>1, <2>1, KInvIsInductive, NothingMoves DEF PInv
  <2>3. StartIsLast' /\ ClosesTheActive'
    BY <2>1 DEF PInv, StartIsLast, ClosesTheActive, NothingAfterStart, HasStart, ui
  <2> QED
    BY <2>1, <2>2, <2>3, NativeKeepsP
<1> QED
  BY <1>1, MainThreadKeepsP, ThreadKeepsP, ClickKeepsP, DeliverEventKeepsP, DeliverReplyKeepsP
     DEF ConnNext

LEMMA PInvHolds == ASSUME Impatient = FALSE PROVE ConnSpec => []PInv
<1>1. PInv /\ [ConnNext]_cvars => PInv'
  BY PInvIsInductive
<1> QED
  BY <1>1, PInvInitially, PTL DEF ConnSpec

LEMMA SettledHasNothingInFlight ==
  ASSUME Settled
  PROVE  /\ \A g \in Gen, k \in Lifecycle : ~Comes(g, k)
         /\ Range(replies) = {}
BY DEF Settled, Comes, Range

\* For a user who does not click while an attempt is under way, the interface
\* shows an open connection only while a generation is active that the native
\* side has announced as authenticated (main.ts 763-764, 826, 848).
THEOREM OnlineMeansAuthenticated ==
  ASSUME Impatient = FALSE
  PROVE  ConnSpec => []OnlineIsAuthenticated
<1>1. PInv => OnlineIsAuthenticated
  BY DEF PInv
<1> QED
  BY <1>1, PInvHolds, PTL

\* For such a user, an interface that shows an open connection once everything
\* in flight has arrived shows the installed session: no event of its end was
\* lost, dropped or overtaken by the receipt (main.ts 752-805).
THEOREM OnlineIsLiveOnceSettled ==
  ASSUME Impatient = FALSE
  PROVE  ConnSpec => []SettledOnlineIsLive
<1>1. ASSUME PInv, Settled, conn = "online" PROVE session = active
  <2>1. active \in Gen /\ Launched(active)
    BY <1>1 DEF PInv, OnlineIsAuthenticated, KInv, NamesAreLaunched, Launched
  <2>2. ~Ended(active)
    <3>1. \A k \in told[active] \cap Lifecycle : k = "authenticated"
      BY <1>1, <2>1, SettledHasNothingInFlight DEF PInv, NothingIsMissed
    <3> QED
      BY <3>1 DEF Ended, Lifecycle, Ending
  <2>3. reader[active] # "ending" /\ timer[active] # "killing"
    BY <1>1, <2>1 DEF Settled
  <2> QED
    BY <1>1, <2>1, <2>2, <2>3 DEF PInv, KInv, IInv, NoSilentEnd, Launched, Ended
<1>2. PInv => SettledOnlineIsLive
  BY <1>1 DEF SettledOnlineIsLive
<1> QED
  BY <1>2, PInvHolds, PTL

\* For such a user, an interface that shows no connection once everything in
\* flight has arrived has left no authenticated shell running behind it
\* (main.ts 847-853, 859-871).
THEOREM OfflineLeavesNoShell ==
  ASSUME Impatient = FALSE
  PROVE  ConnSpec => []SettledOfflineHasNoShell
<1>1. ASSUME PInv, Settled, ~hung, conn # "online", session # NoGen
      PROVE  "authenticated" \notin told[session]
  <2>1. active = session
    BY <1>1, SettledHasNothingInFlight DEF PInv, SessionIsKnown
  <2>2. session \in Gen /\ "authenticated" \in Lifecycle
    BY <1>1 DEF PInv, KInv, IInv, TypeOK, Lifecycle
  <2> QED
    BY <1>1, <2>1, <2>2, SettledHasNothingInFlight DEF PInv, NothingIsMissed
<1>2. PInv => SettledOfflineHasNoShell
  BY <1>1 DEF SettledOfflineHasNoShell
<1> QED
  BY <1>2, PInvHolds, PTL

\* For such a user, an authentication that arrives before the receipt of its
\* session is not lost: once everything in flight has arrived, the active
\* session the server has accepted is shown as open (main.ts 752-759, 848-849).
THEOREM AuthenticationIsShown ==
  ASSUME Impatient = FALSE
  PROVE  ConnSpec => []AuthenticationIsNotLost
<1>1. ASSUME PInv, Settled, active # NoGen, "authenticated" \in told[active]
      PROVE  conn = "online"
  <2>1. active \in Gen /\ "authenticated" \in Lifecycle
    BY <1>1 DEF PInv, KInv, ConnTypeOK, Lifecycle
  <2> QED
    BY <1>1, <2>1, SettledHasNothingInFlight DEF PInv, NothingIsMissed
<1>2. PInv => AuthenticationIsNotLost
  BY <1>1 DEF AuthenticationIsNotLost
<1> QED
  BY <1>2, PInvHolds, PTL

=============================================================================
