----------------------------- MODULE SshSession -----------------------------
(***************************************************************************)
(* The native SSH session manager (src-tauri/src/lib.rs, lines 22-296).    *)
(*                                                                         *)
(* One optional session lives behind a mutex.  Each start_ssh numbers its  *)
(* session with a fresh generation and spawns two threads for it: a reader *)
(* that scans the pseudo-terminal for the authentication sentinel, and a   *)
(* timer that gives up after 15 seconds unless it is cancelled.  Both may  *)
(* end the session, and so may the commands of the user interface; every   *)
(* one of them must hold the mutex and find its own generation installed.  *)
(*                                                                         *)
(* The commands are synchronous Tauri commands: they run one at a time on  *)
(* the main thread.  A command is one action here, because only its single *)
(* critical section on the session mutex can conflict with a thread: what  *)
(* it does before and after commutes with every step of the threads.       *)
(***************************************************************************)
EXTENDS Integers, Sequences

CONSTANTS
    MaxGen,      \* bound: sessions started during one run of the application
    MaxOutput,   \* bound: output chunks a reader forwards per generation
    MaxQueue     \* bound: events in flight when a command may still be issued

ASSUME BoundsAssumption ==
    /\ MaxGen \in Nat \ {0}
    /\ MaxOutput \in Nat
    /\ MaxQueue \in Nat \ {0}

Gen == 1..MaxGen
NoGen == 0                      \* Option::None

\* What a reader publishes, and what ends a generation.
Ending == {"failed", "closed"}
Lifecycle == Ending \cup {"authenticated"}
EventKind == Lifecycle \cup {"output"}
Event == [gen : Gen, kind : EventKind]

VARIABLES
    session,     \* SshManager.session: the installed generation, or NoGen
    next,        \* SshManager.next_generation
    child,       \* the ssh client process of each generation
    reader,      \* control state of each reader thread
    chunk,       \* what the chunk just parsed still has to publish
    outputs,     \* output chunks read so far (bounded by MaxOutput)
    authed,      \* the reader's local flag `authenticated`
    cancelled,   \* a message waits in the timer's cancel channel
    timer,       \* control state of each timer thread
    events,      \* emitted to the webview, not yet delivered, in order
    told         \* history: what has been emitted about each generation

threads == <<reader, chunk, outputs, authed, cancelled, timer>>
vars == <<session, next, child, threads, events, told>>

TypeOK ==
    /\ session \in Gen \cup {NoGen}
    /\ next \in 1..(MaxGen + 1)
    /\ child \in [Gen -> {"none", "running", "exited"}]
    /\ reader \in [Gen -> {"off", "reading", "checked", "ending", "done"}]
    /\ chunk \in [Gen -> SUBSET {"authenticated", "output"}]
    /\ outputs \in [Gen -> 0..MaxOutput]
    /\ authed \in [Gen -> BOOLEAN]
    /\ cancelled \in [Gen -> BOOLEAN]
    /\ timer \in [Gen -> {"off", "armed", "expired", "killing", "done"}]
    /\ events \in Seq(Event)
    /\ told \in [Gen -> SUBSET EventKind]

Init ==
    /\ session = NoGen
    /\ next = 1
    /\ child = [g \in Gen |-> "none"]
    /\ reader = [g \in Gen |-> "off"]
    /\ chunk = [g \in Gen |-> {}]
    /\ outputs = [g \in Gen |-> 0]
    /\ authed = [g \in Gen |-> FALSE]
    /\ cancelled = [g \in Gen |-> FALSE]
    /\ timer = [g \in Gen |-> "off"]
    /\ events = <<>>
    /\ told = [g \in Gen |-> {}]

-----------------------------------------------------------------------------
(* Shared steps *)

\* app.emit: the event joins the webview's queue.
Emit(g, k) ==
    /\ events' = Append(events, [gen |-> g, kind |-> k])
    /\ told' = [told EXCEPT ![g] = @ \cup {k}]

\* take_current_session: only the thread of the installed generation takes it.
TakeCurrent(g) ==
    IF session = g THEN session' = NoGen ELSE UNCHANGED session

\* The tail of close_ssh_internal: cancel the timer and kill the child of the
\* session that was taken out.  KilledChild is the process table afterwards.
\* Faulty variant: the session is dropped without killing its client.
KilledChildLeaks == child

KilledChild == [g \in Gen |-> IF g = session THEN "exited" ELSE child[g]]
CancelInstalled ==
    cancelled' = [g \in Gen |-> g = session \/ cancelled[g]]

-----------------------------------------------------------------------------
(* Commands, on the main thread *)

\* Faulty variant: a new session replaces the old one without reporting it.
CloseInstalledSilently == CancelInstalled /\ UNCHANGED <<events, told>>

\* The first half of start_ssh: whatever session is installed is closed and
\* reported before the new generation is numbered.
CloseInstalled ==
    /\ CancelInstalled
    /\ IF session = NoGen THEN UNCHANGED <<events, told>>
                          ELSE Emit(session, "closed")

\* start_ssh that launches its client: the session is installed, then the
\* reader and the timer of the new generation run.
StartSsh ==
    /\ next \in Gen
    /\ CloseInstalled
    /\ session' = next
    /\ next' = next + 1
    /\ child' = [KilledChild EXCEPT ![next] = "running"]
    /\ reader' = [reader EXCEPT ![next] = "reading"]
    /\ timer' = [timer EXCEPT ![next] = "armed"]
    /\ UNCHANGED <<chunk, outputs, authed>>

\* start_ssh that fails: the previous session is gone and a generation is used
\* up, but nothing is installed.  The client may have been launched before its
\* output could be taken over; it is dropped then, and nobody kills it.
StartSshFails ==
    /\ next \in Gen
    /\ CloseInstalled
    /\ session' = NoGen
    /\ next' = next + 1
    /\ \E launched \in {"none", "running"} :
         child' = [KilledChild EXCEPT ![next] = launched]
    /\ UNCHANGED <<reader, chunk, outputs, authed, timer>>

\* close_ssh refuses a generation other than the installed one; it changes
\* nothing then.
CloseIsStale(g) == session \notin {g, NoGen}

\* Faulty variant: report the session that was installed, not the one named.
CloseSshReportsInstalled(g) ==
    /\ ~CloseIsStale(g)
    /\ CancelInstalled
    /\ session' = NoGen
    /\ child' = KilledChild
    /\ Emit(session, "closed")
    /\ UNCHANGED <<next, reader, chunk, outputs, authed, timer>>

\* close_ssh that is not refused reports Closed even when the session had
\* already been taken by its reader or its timer.
CloseSsh(g) ==
    /\ ~CloseIsStale(g)
    /\ CancelInstalled
    /\ session' = NoGen
    /\ child' = KilledChild
    /\ Emit(g, "closed")
    /\ UNCHANGED <<next, reader, chunk, outputs, authed, timer>>

-----------------------------------------------------------------------------
(* The reader thread of generation g *)

\* A chunk arrives: SentinelParser.push finds the sentinel at most once and
\* passes the rest on.  Finding it cancels the timer.
ReadChunk(g) ==
    /\ reader[g] = "reading" /\ chunk[g] = {}
    /\ \E found \in SUBSET {"authenticated", "output"} :
         /\ found # {}
         /\ authed[g] => "authenticated" \notin found
         /\ "output" \in found => outputs[g] < MaxOutput
         /\ chunk' = [chunk EXCEPT ![g] = found]
         /\ authed' = [authed EXCEPT ![g] = @ \/ "authenticated" \in found]
         /\ cancelled' = [cancelled EXCEPT ![g] = @ \/ "authenticated" \in found]
         /\ outputs' = [outputs EXCEPT ![g] = IF "output" \in found THEN @ + 1 ELSE @]
    /\ UNCHANGED <<session, next, child, reader, timer, events, told>>

\* The sentinel is announced before the output of the same chunk.
Pending(g) == IF "authenticated" \in chunk[g] THEN "authenticated" ELSE "output"

\* emit_if_current, first half: compare generations under the lock.
CheckCurrent(g) ==
    /\ reader[g] = "reading" /\ chunk[g] # {}
    /\ IF session = g
         THEN /\ reader' = [reader EXCEPT ![g] = "checked"]
              /\ UNCHANGED chunk
         ELSE /\ chunk' = [chunk EXCEPT ![g] = @ \ {Pending(g)}]
              /\ UNCHANGED reader
    /\ UNCHANGED <<session, next, child, outputs, authed, cancelled, timer, events, told>>

\* emit_if_current, second half: emit after the lock is released.
Publish(g) ==
    /\ reader[g] = "checked"
    /\ Emit(g, Pending(g))
    /\ chunk' = [chunk EXCEPT ![g] = @ \ {Pending(g)}]
    /\ reader' = [reader EXCEPT ![g] = "reading"]
    /\ UNCHANGED <<session, next, child, outputs, authed, cancelled, timer>>

\* Faulty variant: the reader stops without taking its session.
ReaderEofKeepsSession(g) ==
    /\ reader[g] = "reading" /\ chunk[g] = {}
    /\ reader' = [reader EXCEPT ![g] = "done"]
    /\ UNCHANGED <<session, next, child, chunk, outputs, authed, cancelled, timer, events, told>>

\* End of file once the client has exited, or a read error at any time: the
\* reader leaves its loop and tries to take its session.
ReaderEof(g) ==
    /\ reader[g] = "reading" /\ chunk[g] = {}
    /\ TakeCurrent(g)
    /\ reader' = [reader EXCEPT ![g] = IF session = g THEN "ending" ELSE "done"]
    /\ UNCHANGED <<next, child, chunk, outputs, authed, cancelled, timer, events, told>>

\* The reader that took its session reports how it ended.
ReaderReport(g) ==
    /\ reader[g] = "ending"
    /\ Emit(g, IF authed[g] THEN "closed" ELSE "failed")
    /\ reader' = [reader EXCEPT ![g] = "done"]
    /\ UNCHANGED <<session, next, child, chunk, outputs, authed, cancelled, timer>>

-----------------------------------------------------------------------------
(* The timer thread of generation g *)

\* recv_timeout returns the cancel message.
TimerDisarm(g) ==
    /\ timer[g] = "armed" /\ cancelled[g]
    /\ timer' = [timer EXCEPT ![g] = "done"]
    /\ UNCHANGED <<session, next, child, reader, chunk, outputs, authed, cancelled, events, told>>

\* recv_timeout fails: 15 seconds are over, or every sender is gone.
TimerExpire(g) ==
    /\ timer[g] = "armed" /\ ~cancelled[g]
    /\ timer' = [timer EXCEPT ![g] = "expired"]
    /\ UNCHANGED <<session, next, child, reader, chunk, outputs, authed, cancelled, events, told>>

\* Faulty variant: the timer reports a failure whether or not it got the session.
TimerTakeAnyway(g) ==
    /\ timer[g] = "expired"
    /\ TakeCurrent(g)
    /\ timer' = [timer EXCEPT ![g] = "killing"]
    /\ UNCHANGED <<next, child, reader, chunk, outputs, authed, cancelled, events, told>>

TimerTake(g) ==
    /\ timer[g] = "expired"
    /\ TakeCurrent(g)
    /\ timer' = [timer EXCEPT ![g] = IF session = g THEN "killing" ELSE "done"]
    /\ UNCHANGED <<next, child, reader, chunk, outputs, authed, cancelled, events, told>>

\* Faulty variant: the timer kills the client and tells nobody.
TimerKillSilently(g) ==
    /\ timer[g] = "killing"
    /\ child' = [child EXCEPT ![g] = "exited"]
    /\ timer' = [timer EXCEPT ![g] = "done"]
    /\ UNCHANGED <<session, next, reader, chunk, outputs, authed, cancelled, events, told>>

TimerKill(g) ==
    /\ timer[g] = "killing"
    /\ child' = [child EXCEPT ![g] = "exited"]
    /\ Emit(g, "failed")
    /\ timer' = [timer EXCEPT ![g] = "done"]
    /\ UNCHANGED <<session, next, reader, chunk, outputs, authed, cancelled>>

-----------------------------------------------------------------------------
(* The environment: the ssh client, and the webview's event loop *)

\* The client exits by itself: refused, logged out, network gone, or because
\* its pseudo-terminal was closed when the session value was dropped.
ChildExit(g) ==
    /\ child[g] = "running"
    /\ child' = [child EXCEPT ![g] = "exited"]
    /\ UNCHANGED <<session, next, threads, events, told>>

\* The webview takes the next event off its queue.
Deliver ==
    /\ events # <<>>
    /\ events' = Tail(events)
    /\ UNCHANGED <<session, next, child, threads, told>>

Thread(g) ==
    \/ ReadChunk(g) \/ CheckCurrent(g) \/ Publish(g)
    \/ ReaderEof(g) \/ ReaderReport(g)
    \/ TimerDisarm(g) \/ TimerExpire(g) \/ TimerTake(g) \/ TimerKill(g)

\* Commands are issued while fewer than MaxQueue events are in flight; the
\* interface only names generations it was told about.
Command ==
    /\ Len(events) < MaxQueue
    /\ StartSsh \/ StartSshFails \/ \E g \in Gen : g < next /\ CloseSsh(g)

Next ==
    \/ Command
    \/ \E g \in Gen : Thread(g) \/ ChildExit(g)
    \/ Deliver

\* Threads keep running and the clock advances; nothing is assumed about the
\* remote host, so no fairness for ReadChunk, ChildExit or the commands.
ThreadFairness ==
    \A g \in Gen :
        /\ WF_vars(CheckCurrent(g)) /\ WF_vars(Publish(g)) /\ WF_vars(ReaderReport(g))
        /\ WF_vars(TimerDisarm(g)) /\ WF_vars(TimerExpire(g))
        /\ WF_vars(TimerTake(g)) /\ WF_vars(TimerKill(g))

Spec == Init /\ [][Next]_vars
FairSpec == Spec /\ ThreadFairness /\ WF_vars(Deliver)

-----------------------------------------------------------------------------
(* Properties *)

\* A session that is installed can still be ended by one of its own threads:
\* its reader is in its loop, and until the sentinel is found its timer has
\* not given up.  (A session both threads have abandoned would block the
\* terminal for ever: lib.rs 187, 202.)
SessionIsWatched ==
    \A g \in Gen : session = g =>
        /\ reader[g] \in {"reading", "checked"}
        /\ authed[g] \/ timer[g] \in {"armed", "expired"}

\* No session disappears silently: a generation that was launched and is no
\* longer installed has been reported as ended, or the one thread that took
\* it is about to report it (lib.rs 98, 187-196, 203-206, 267).
NoSilentEnd ==
    \A g \in Gen : reader[g] # "off" /\ session # g =>
        \/ told[g] \cap Ending # {}
        \/ reader[g] = "ending"
        \/ timer[g] = "killing"

\* No client is stranded: while its reader still scans its pseudo-terminal, a
\* running client is installed or about to be killed by the timer that took its
\* session (lib.rs 98, 204, 282).  It says nothing of a client that lost its
\* pseudo-terminal without being killed, because its reader left the loop (187)
\* or because start_ssh failed after launching it (128-136): whether that one
\* exits is its own business.
NoClientIsStranded ==
    \A g \in Gen : child[g] = "running" /\ reader[g] \in {"reading", "checked"} =>
        session = g \/ timer[g] = "killing"

\* Authenticated is emitted at most once per generation, and only after the
\* sentinel was found (contracts.md 39, lib.rs 172-176).
AuthenticatedOnce ==
    [][\A g \in Gen : events' = Append(events, [gen |-> g, kind |-> "authenticated"])
          => authed[g] /\ "authenticated" \notin told[g]]_vars

\* A generation is reported as failed at most once, although its reader and
\* its timer race to end it: only the thread that wins the session under the
\* mutex reports (lib.rs 187-207, 288-291).
FailedOnce ==
    [][\A g \in Gen : events' = Append(events, [gen |-> g, kind |-> "failed"])
          => "failed" \notin told[g]]_vars

\* Every installed session is eventually reported to the user interface as
\* authenticated, failed or closed: the deadline of 15 seconds guarantees it
\* even if the server stays silent (contracts.md 39, lib.rs 202).
EverySessionIsReported ==
    \A g \in Gen : (session = g) ~> (told[g] \cap Lifecycle # {})
-----------------------------------------------------------------------------
(* The abstract life of a session *)

\* What a reader that found its session installed is about to emit.
DueOf(g) == IF reader[g] = "checked" THEN {Pending(g)} ELSE {}

Life == INSTANCE SessionLifecycle WITH
    opened <- {g \in Gen : reader[g] # "off"},
    due <- [g \in Gen |-> DueOf(g)],
    leaving <- {g \in Gen : reader[g] = "ending" \/ timer[g] = "killing"}

\* Commands, readers, timers and clients together keep the promise about the
\* lives of sessions: one is open at most, each is let go once, by one thread or
\* command, and its end is reported by whoever let it go, as a failure at most
\* once and as closed only if it was asked for or its authentication was
\* announced (lib.rs 98, 187-207, 267-296).
ImplementsLifecycle == Life!LifeSpec
=============================================================================
