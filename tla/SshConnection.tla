--------------------------- MODULE SshConnection ----------------------------
(***************************************************************************)
(* The terminal connection of the user interface (src/main.ts, lines       *)
(* 653-667 and 752-871) running on top of the native session manager of    *)
(* module SshSession.                                                      *)
(*                                                                         *)
(* The webview and the native side exchange three streams: requests        *)
(* (invoke), their replies, and events (emit).  Requests are served one at *)
(* a time by the native main thread and answered in that order; events are *)
(* delivered in the order they were emitted.  Nothing orders a reply       *)
(* against an event.                                                       *)
(*                                                                         *)
(* JavaScript runs one task at a time, so a task is one action: a click, a *)
(* delivered event, or the continuation of an awaited invoke.              *)
(***************************************************************************)
EXTENDS SshSession

CONSTANTS
    MaxClicks,   \* bound: clicks on Connect and on the terminal's close button
    Impatient    \* does the user click while an attempt is under way?

ASSUME ConnectionAssumption ==
    /\ MaxClicks \in Nat
    /\ Impatient \in BOOLEAN

VARIABLES
    conn,        \* state.connection
    active,      \* activeSshGeneration, NoGen for null
    starting,    \* sshBaslating: a connectTerminal call awaits start_ssh
    heldEvents,  \* bufferedSshEvents: lifecycle phases kept per generation
    heldOutput,  \* bufferedSshOutput: whether output is kept for a generation
    hung,        \* the webview's thread loops for ever inside one task
    inbox,       \* requests not yet served by the native main thread
    replies,     \* replies not yet delivered
    clicks

ui == <<conn, active, starting, heldEvents, heldOutput, hung>>
wire == <<inbox, replies>>
cvars == <<vars, ui, wire, clicks>>

Request == [op : {"start_ssh", "close_ssh", "stop_log_stream"}, gen : Gen \cup {NoGen}]
Reply == [op : {"started", "not_started", "close_done", "logs_stopped"},
          gen : Gen \cup {NoGen}]

ConnTypeOK ==
    /\ TypeOK
    /\ conn \in {"offline", "connecting", "online", "error"}
    /\ active \in Gen \cup {NoGen}
    /\ starting \in BOOLEAN
    /\ heldEvents \in [Gen -> Seq(Lifecycle)]
    /\ heldOutput \in [Gen -> BOOLEAN]
    /\ hung \in BOOLEAN
    /\ inbox \in Seq(Request)
    /\ replies \in Seq(Reply)
    /\ clicks \in 0..MaxClicks

ConnInit ==
    /\ Init
    /\ conn = "offline" /\ active = NoGen /\ starting = FALSE
    /\ heldEvents = [g \in Gen |-> <<>>]
    /\ heldOutput = [g \in Gen |-> FALSE]
    /\ hung = FALSE
    /\ inbox = <<>> /\ replies = <<>>
    /\ clicks = 0

-----------------------------------------------------------------------------
(* The native main thread serves the oldest request *)

Answer(op, g) ==
    /\ inbox' = Tail(inbox)
    /\ replies' = Append(replies, [op |-> op, gen |-> g])

ServeStart ==
    /\ inbox # <<>> /\ Head(inbox).op = "start_ssh"
    /\ \/ StartSsh /\ Answer("started", next)
       \/ StartSshFails /\ Answer("not_started", NoGen)
       \* Refused settings: nothing is touched.
       \/ UNCHANGED vars /\ Answer("not_started", NoGen)

\* The caller treats a refused close like a performed one.
ServeClose ==
    /\ inbox # <<>> /\ Head(inbox).op = "close_ssh"
    /\ LET g == Head(inbox).gen IN
         /\ IF CloseIsStale(g) THEN UNCHANGED vars ELSE CloseSsh(g)
         /\ Answer("close_done", g)

\* The log stream itself is not part of this module.
ServeStopLogs ==
    /\ inbox # <<>> /\ Head(inbox).op = "stop_log_stream"
    /\ UNCHANGED vars
    /\ Answer("logs_stopped", NoGen)

MainThread == (ServeStart \/ ServeClose \/ ServeStopLogs) /\ UNCHANGED <<ui, clicks>>

-----------------------------------------------------------------------------
(* Tasks of the webview *)

Invoke(op, g) == inbox' = Append(inbox, [op |-> op, gen |-> g])

\* Faulty variant: the generation is forgotten but the status stays.
DisconnectedKeepsStatus == active' = NoGen /\ UNCHANGED conn

\* The end of disconnectTerminal (its finally block).
Disconnected == active' = NoGen /\ conn' = "offline"

\* Faulty variant: the session is forgotten without being closed.
CloseNothing == Disconnected /\ UNCHANGED inbox

\* disconnectTerminal after its log stream was stopped: close what is active
\* now, or finish at once.
CloseActive ==
    IF active # NoGen
      THEN Invoke("close_ssh", active) /\ UNCHANGED <<conn, active>>
      ELSE Disconnected /\ UNCHANGED inbox

\* disconnectTerminal up to its first real suspension: stop_log_stream is
\* only invoked while the interface shows an open connection.
DisconnectTerminal ==
    IF conn = "online"
      THEN Invoke("stop_log_stream", NoGen) /\ UNCHANGED <<conn, active>>
      ELSE CloseActive

AttemptUnderWay == starting \/ (active # NoGen /\ conn # "online")
Click ==
    /\ ~hung
    /\ Impatient \/ ~AttemptUnderWay
    /\ clicks < MaxClicks /\ clicks' = clicks + 1

\* connectTerminal, bound to the Connect button.
ClickConnect ==
    /\ Click
    /\ ~starting
    /\ IF conn = "online"
         THEN DisconnectTerminal /\ UNCHANGED starting
         ELSE /\ starting' = TRUE
              /\ conn' = "connecting"
              /\ Invoke("start_ssh", NoGen)
              /\ UNCHANGED active
    /\ UNCHANGED <<vars, heldEvents, heldOutput, hung, replies>>

\* The close button of the terminal page, usable in every state.
ClickClose ==
    /\ Click
    /\ DisconnectTerminal
    /\ UNCHANGED <<vars, starting, heldEvents, heldOutput, hung, replies>>

\* Faulty variants: the phase is taken for the status, or an end is ignored.
ApplyVerbatim(phase) == conn' = phase /\ active' = IF phase \in Ending THEN NoGen ELSE active
ApplyIgnoringEnd(phase) ==
    /\ conn' = IF phase = "authenticated" THEN "online" ELSE conn
    /\ UNCHANGED active

\* What a lifecycle phase of the active generation does to the interface.  (The
\* log and monitor streams that an end also stops are not part of this module.)
Apply(phase) ==
    /\ conn' = CASE phase = "authenticated" -> "online"
                 [] phase = "failed" -> "error"
                 [] phase = "closed" -> "offline"
    /\ active' = IF phase \in Ending THEN NoGen ELSE active

\* Faulty variant: the generation of a payload is not compared.
DeliverEventOfAny ==
    /\ ~hung /\ events # <<>>
    /\ IF active # NoGen /\ Head(events).kind # "output" THEN Apply(Head(events).kind)
                                                         ELSE UNCHANGED <<conn, active>>
    /\ events' = Tail(events)
    /\ UNCHANGED <<session, next, child, threads, told, starting, hung, wire, clicks,
                   heldEvents, heldOutput>>

\* handleSshLifecycle and handleSshOutput: with no active generation the
\* payload is kept, a payload of another generation is dropped.
DeliverEvent ==
    /\ ~hung /\ events # <<>>
    /\ LET e == Head(events) IN
         IF active = NoGen
           THEN /\ IF e.kind = "output"
                     THEN /\ heldOutput' = [heldOutput EXCEPT ![e.gen] = TRUE]
                          /\ UNCHANGED heldEvents
                     ELSE /\ heldEvents' = [heldEvents EXCEPT ![e.gen] = Append(@, e.kind)]
                          /\ UNCHANGED heldOutput
                /\ UNCHANGED <<conn, active>>
           ELSE /\ IF e.gen = active /\ e.kind # "output" THEN Apply(e.kind)
                                                         ELSE UNCHANGED <<conn, active>>
                /\ UNCHANGED <<heldEvents, heldOutput>>
    /\ events' = Tail(events)
    /\ UNCHANGED <<session, next, child, threads, told, starting, hung, wire, clicks>>

\* flushBufferedSshEvents iterates over the very arrays that the handlers
\* append to.  Once a buffered phase has cleared the active generation, every
\* further payload of the iteration is appended behind itself.
EndsAt(held) == {i \in DOMAIN held : held[i] \in Ending}
FlushLoops(held, output) ==
    \E i \in EndsAt(held) : i < Len(held) \/ output

\* Faulty variant: what was kept for the generation is dropped.
FlushWithoutReplay(g) ==
    /\ active' = g
    /\ heldEvents' = [heldEvents EXCEPT ![g] = <<>>]
    /\ heldOutput' = [heldOutput EXCEPT ![g] = FALSE]
    /\ UNCHANGED <<conn, hung>>

Flush(g) ==
    LET held == heldEvents[g]
        last == held[Len(held)]
    IN  IF FlushLoops(held, heldOutput[g])
          THEN hung' = TRUE /\ UNCHANGED <<conn, active, heldEvents, heldOutput>>
          ELSE /\ IF held = <<>>
                    THEN active' = g /\ UNCHANGED conn
                    ELSE /\ conn' = CASE last = "authenticated" -> "online"
                                      [] last = "failed" -> "error"
                                      [] last = "closed" -> "offline"
                         /\ active' = IF last \in Ending THEN NoGen ELSE g
               /\ heldEvents' = [heldEvents EXCEPT ![g] = <<>>]
               /\ heldOutput' = [heldOutput EXCEPT ![g] = FALSE]
               /\ UNCHANGED hung

\* The continuations of the awaited invokes.
Started(r) ==
    /\ r.op = "started"
    /\ Flush(r.gen)
    /\ starting' = (hung' /\ starting)
    /\ UNCHANGED inbox

\* Faulty variant: a start that failed leaves the status alone.
NotStartedSilently(r) ==
    /\ r.op = "not_started"
    /\ starting' = FALSE
    /\ UNCHANGED <<conn, active, heldEvents, heldOutput, hung, inbox>>

NotStarted(r) ==
    /\ r.op = "not_started"
    /\ conn' = "error" /\ starting' = FALSE
    /\ UNCHANGED <<active, heldEvents, heldOutput, hung, inbox>>

LogsStopped(r) ==
    /\ r.op = "logs_stopped"
    /\ CloseActive
    /\ UNCHANGED <<starting, heldEvents, heldOutput, hung>>

CloseDone(r) ==
    /\ r.op = "close_done"
    /\ Disconnected
    /\ UNCHANGED <<starting, heldEvents, heldOutput, hung, inbox>>

DeliverReply ==
    /\ ~hung /\ replies # <<>>
    /\ LET r == Head(replies) IN
         Started(r) \/ NotStarted(r) \/ LogsStopped(r) \/ CloseDone(r)
    /\ replies' = Tail(replies)
    /\ UNCHANGED <<vars, clicks>>

-----------------------------------------------------------------------------

Quiet == UNCHANGED <<ui, wire, clicks>>
NativeStep(g) ==
    /\ (Thread(g) \/ ChildExit(g)) /\ Quiet
    \* bound: one session forwards output
    /\ outputs' # outputs => \A h \in Gen \ {g} : outputs[h] = 0

ConnNext ==
    \/ ClickConnect \/ ClickClose
    \/ MainThread
    \/ \E g \in Gen : NativeStep(g)
    \/ DeliverEvent \/ DeliverReply

\* Threads and both event loops keep running; clicks and the remote host owe
\* nothing.
ReaderRuns(g) == (CheckCurrent(g) \/ Publish(g) \/ ReaderReport(g)) /\ Quiet
TimerRuns(g) == (TimerDisarm(g) \/ TimerExpire(g) \/ TimerTake(g) \/ TimerKill(g)) /\ Quiet

ConnFairness ==
    /\ \A g \in Gen : WF_cvars(ReaderRuns(g)) /\ WF_cvars(TimerRuns(g))
    /\ WF_cvars(MainThread) /\ WF_cvars(DeliverEvent) /\ WF_cvars(DeliverReply)

ConnSpec == ConnInit /\ [][ConnNext]_cvars
FairConnSpec == ConnSpec /\ ConnFairness

-----------------------------------------------------------------------------
(* Properties *)

\* The interface switches to an open connection only for the generation that
\* is then active, and only after the native side has announced that this very
\* generation is authenticated: stale, buffered and reordered events never do
\* it (main.ts 752-768, 800-802).
GoesOnlineAuthenticated ==
    [][conn # "online" /\ conn' = "online"
          => active' # NoGen /\ "authenticated" \in told[active']]_cvars

\* "BAGLI only after authenticated confirmation" (jarvis-1-2-2-app-first.md
\* 34), as a statement about every moment the interface shows an open
\* connection (main.ts 763-764, 826, 848).
OnlineIsAuthenticated ==
    conn = "online" => active # NoGen /\ "authenticated" \in told[active]

\* Nothing is in flight between the interface and the native side, and no
\* native thread is about to report anything.
Settled ==
    /\ events = <<>> /\ inbox = <<>> /\ replies = <<>>
    /\ \A g \in Gen :
        /\ reader[g] \in {"off", "reading", "done"} /\ chunk[g] = {}
        /\ timer[g] \in {"off", "armed", "done"}

\* Once everything in flight has arrived, an interface that shows an open
\* connection shows the session that is really installed: no lost or reordered
\* event leaves it online for a session that is gone (main.ts 752-805).
SettledOnlineIsLive ==
    Settled /\ ~hung /\ conn = "online" => session = active

\* A connection attempt does not show "connecting" for ever (main.ts 825-856,
\* lib.rs 200-209).
ConnectingSettles == conn = "connecting" ~> conn # "connecting" \/ hung

\* Once everything in flight has arrived, an interface that shows no
\* connection has left no authenticated shell running behind it (contracts.md
\* 35: close_ssh "terminates the owned child"; main.ts 859-871, 847-853).
SettledOfflineHasNoShell ==
    Settled /\ ~hung /\ conn \in {"offline", "error"} /\ session # NoGen
        => "authenticated" \notin told[session]

\* Events that arrive before the receipt of their session are kept and
\* replayed, which never blocks the interface (contracts.md 13; main.ts
\* 800-805).
FlushTerminates == ~hung

\* An authentication that arrives before the receipt is not lost (contracts.md
\* 13): once everything in flight has arrived, the active session the server
\* has accepted is shown as open (main.ts 752-759, 848-849).
AuthenticationIsNotLost ==
    Settled /\ ~hung /\ ~starting /\ active # NoGen /\ session = active
        /\ "authenticated" \in told[active] => conn = "online"
=============================================================================
