----------------------------- MODULE LiveStreams -----------------------------
(***************************************************************************)
(* The live log and monitor streams: the native slots (lib.rs 41-49,       *)
(* 841-948 and 1037-1123) and the panels that drive them (main.ts          *)
(* 1011-1018, 1666-1732 and 1949-2022).                                    *)
(*                                                                         *)
(* Each kind of stream has one slot of its own, filled by an ssh client    *)
(* with a thread that reads its output.  The two slots are built alike and *)
(* never touch each other, so a behaviour is about one of them: kind says  *)
(* which, and the panels differ accordingly.                               *)
(*                                                                         *)
(* Commands run one at a time on the native main thread.  A panel function *)
(* suspends at every await, and several calls of it may be under way.  The *)
(* events of the reading thread do not say which stream they come from.    *)
(***************************************************************************)
EXTENDS Integers, Sequences

CONSTANTS
    MaxStream,   \* bound: streams started
    MaxSteps     \* bound: what the user and the connection do

ASSUME StreamsAssumption ==
    /\ MaxStream \in Nat \ {0}
    /\ MaxSteps \in Nat

Stream == 1..MaxStream
NoStream == 0
Call == 1..2                    \* bound: panel calls that await something
NoCall == 0                     \* an invoke that nobody awaits

VARIABLES
    kind,        \* "logs" or "monitor"
    slot,        \* the manager's child: the installed stream, or NoStream
    next,        \* number of the next stream
    client,      \* the ssh client of each stream
    stdout,      \* the thread that reads its output
    news,        \* closed events on their way to the webview
    conn,        \* state.connection is "online"
    live,        \* logsLive or monitorStreamRunning
    marked,      \* the live button's dataset.live
    busy,        \* logsBusy
    call,        \* where each panel call is suspended
    inbox,       \* requests not yet served by the main thread
    replies,     \* replies not yet delivered
    steps,
    overlapped   \* history: a panel call has met another step of the user or
                 \* of the connection

native == <<slot, next, client, stdout>>
panel == <<conn, live, marked, busy, call>>
outside == <<steps, overlapped>>
svars == <<kind, native, news, panel, inbox, replies, outside>>

Suspended == {"stopping", "loading", "starting", "reloading", "parting", "closing"}
Request == [op : {"stop", "start", "other"}, call : Call \cup {NoCall}]
Reply == [op : {"stop", "start", "other"}, call : Call \cup {NoCall}, ok : BOOLEAN]

StreamsTypeOK ==
    /\ kind \in {"logs", "monitor"}
    /\ slot \in Stream \cup {NoStream} /\ next \in 1..(MaxStream + 1)
    /\ client \in [Stream -> {"none", "running", "exited"}]
    /\ stdout \in [Stream -> {"off", "reading", "done"}]
    /\ news \in Seq(Stream)
    /\ conn \in BOOLEAN /\ live \in BOOLEAN /\ marked \in BOOLEAN /\ busy \in BOOLEAN
    /\ call \in [Call -> {"idle"} \cup Suspended]
    /\ inbox \in Seq(Request) /\ replies \in Seq(Reply)
    /\ steps \in 0..MaxSteps /\ overlapped \in BOOLEAN

StreamsInit ==
    /\ kind \in {"logs", "monitor"}
    /\ slot = NoStream /\ next = 1
    /\ client = [s \in Stream |-> "none"]
    /\ stdout = [s \in Stream |-> "off"]
    /\ news = <<>>
    /\ conn = FALSE /\ live = FALSE /\ marked = FALSE /\ busy = FALSE
    /\ call = [c \in Call |-> "idle"]
    /\ inbox = <<>> /\ replies = <<>>
    /\ steps = 0 /\ overlapped = FALSE

-----------------------------------------------------------------------------
(* The native side *)

\* The client of the installed stream is killed and waited for.
KilledClient == [s \in Stream |-> IF s = slot THEN "exited" ELSE client[s]]

\* stop_log_stream, stop_monitor_stream
StopStream == slot' = NoStream /\ client' = KilledClient /\ UNCHANGED <<next, stdout>>

\* Faulty variant: the previous client is left running.
StartStreamBeside ==
    /\ next \in Stream
    /\ slot' = next /\ next' = next + 1
    /\ client' = [client EXCEPT ![next] = "running"]
    /\ stdout' = [stdout EXCEPT ![next] = "reading"]

\* start_log_stream, start_monitor_stream: the previous stream is stopped,
\* then the new client is installed and a thread reads its output.
StartStream ==
    /\ next \in Stream
    /\ slot' = next /\ next' = next + 1
    /\ client' = [KilledClient EXCEPT ![next] = "running"]
    /\ stdout' = [stdout EXCEPT ![next] = "reading"]

\* A user name that is refused leaves everything alone; a client that cannot
\* be started leaves the slot empty.
StartStreamFails == UNCHANGED native \/ StopStream

ServeRequest ==
    /\ inbox # <<>>
    /\ LET r == Head(inbox)
           Answer(ok) == replies' = Append(replies, [op |-> r.op, call |-> r.call, ok |-> ok])
       IN \/ r.op = "stop" /\ StopStream /\ Answer(TRUE)
          \/ r.op = "start" /\ StartStream /\ Answer(TRUE)
          \/ r.op = "start" /\ StartStreamFails /\ Answer(FALSE)
          \/ r.op = "other" /\ UNCHANGED native /\ Answer(TRUE)
    /\ inbox' = Tail(inbox)
    /\ UNCHANGED <<kind, news, panel, outside>>

\* The reading thread meets the end of the output, once the client is gone,
\* or text it cannot decode, at any time.
EndOfOutput(s) ==
    /\ stdout[s] = "reading"
    /\ stdout' = [stdout EXCEPT ![s] = "done"]
    /\ news' = Append(news, s)
    /\ UNCHANGED <<kind, slot, next, client, panel, inbox, replies, outside>>

\* The client ends by itself: the server is gone or refuses it.
ClientExit(s) ==
    /\ client[s] = "running"
    /\ client' = [client EXCEPT ![s] = "exited"]
    /\ UNCHANGED <<kind, slot, next, stdout, news, panel, inbox, replies, outside>>

-----------------------------------------------------------------------------
(* The panel: what a function does up to its next await *)

Invoke(ops, c) == inbox' = inbox \o [i \in DOMAIN ops |-> [op |-> ops[i], call |-> c]]
Suspend(c, where) == call' = [call EXCEPT ![c] = where]

\* Faulty variant: the command is invoked by a name the native side lacks.
StopByAnotherName ==
    /\ live' = FALSE
    /\ IF conn
         THEN Invoke(<<"stop_stream">>, NoCall) /\ UNCHANGED marked
         ELSE marked' = FALSE /\ UNCHANGED inbox
    /\ UNCHANGED <<busy, call>>

\* stopGunluklerLive or stopMonitoring that nobody awaits.  It only reaches
\* the native side while the interface is online.
Stop ==
    /\ live' = FALSE
    /\ IF conn
         THEN Invoke(<<"stop">>, NoCall) /\ UNCHANGED marked
         ELSE marked' = FALSE /\ UNCHANGED inbox
    /\ UNCHANGED <<busy, call>>

\* startGunluklerLive or startMonitoring, up to the stop it awaits.
StartOnline ==
    /\ \E c \in Call :
         /\ call[c] = "idle"
         /\ Invoke(<<"stop">>, c) /\ Suspend(c, "stopping")
    /\ live' = FALSE
    /\ UNCHANGED <<marked, busy>>

Start == IF conn THEN StartOnline ELSE UNCHANGED <<live, marked, busy, call, inbox>>

\* loadGunlukler for its own sake.
Load ==
    IF conn /\ ~busy
      THEN \E c \in Call :
             /\ call[c] = "idle"
             /\ busy' = TRUE
             /\ Invoke(<<"other">>, c) /\ Suspend(c, "reloading")
             /\ UNCHANGED <<live, marked>>
      ELSE UNCHANGED <<live, marked, busy, call, inbox>>

-----------------------------------------------------------------------------
(* What the user and the connection do *)

Quiescent == \A c \in Call : call[c] = "idle"
Step ==
    /\ overlapped' = (overlapped \/ ~Quiescent \/ inbox # <<>> \/ replies # <<>>)
    /\ steps < MaxSteps /\ steps' = steps + 1
    /\ UNCHANGED <<kind, native, news, replies>>

\* The live button, and entering the monitoring page or choosing an interval.
ToggleLive ==
    /\ Step
    /\ IF marked THEN Stop ELSE Start
    /\ UNCHANGED conn

\* Another service, number of lines or period, or a refresh of the log panel:
\* a live panel starts over, except for another period.
ChooseLogs ==
    /\ Step /\ kind = "logs"
    /\ (live /\ Start) \/ Load
    /\ UNCHANGED conn

\* Showing another page.
LeavePage == Step /\ Stop /\ UNCHANGED conn

\* The session is authenticated; the monitoring page, if it is shown, starts
\* its stream.
GoOnline ==
    /\ Step /\ ~conn /\ conn' = TRUE
    /\ \/ kind = "monitor" /\ StartOnline
       \/ UNCHANGED <<live, marked, busy, call, inbox>>

\* Faulty variant: a connection that is lost takes no stream with it.
LoseConnectionOnly ==
    /\ Step /\ conn /\ conn' = FALSE
    /\ UNCHANGED <<live, marked, busy, call, inbox>>

\* The failed or closed event of the active session.
LoseConnection == Step /\ conn /\ Stop /\ conn' = FALSE

\* disconnectTerminal, up to the log stream's stop, which it awaits.
Disconnect ==
    /\ Step /\ conn
    /\ \E c \in Call :
         /\ call[c] = "idle"
         /\ live' = (kind = "monitor" /\ live)
         /\ Invoke(<<IF kind = "logs" THEN "stop" ELSE "other">>, c)
         /\ Suspend(c, "parting")
    /\ UNCHANGED <<conn, marked, busy>>

-----------------------------------------------------------------------------
(* Continuations: a reply or an event is delivered to the webview *)

\* startGunluklerLive loads the current window before it starts its stream,
\* unless it is offline or loading already; startMonitoring starts at once.
AfterStop(c) ==
    IF kind = "logs" /\ conn /\ ~busy
      THEN /\ marked' = FALSE /\ busy' = TRUE
           /\ Invoke(<<"other">>, c) /\ Suspend(c, "loading")
           /\ UNCHANGED <<conn, live>>
      ELSE /\ marked' = FALSE /\ live' = (kind = "logs" /\ live)
           /\ Invoke(<<"start">>, c) /\ Suspend(c, "starting")
           /\ UNCHANGED <<conn, busy>>

AfterLoad(c) ==
    /\ busy' = FALSE
    /\ IF call[c] = "loading"
         THEN Invoke(<<"start">>, c) /\ Suspend(c, "starting")
         ELSE Suspend(c, "idle") /\ UNCHANGED inbox
    /\ UNCHANGED <<conn, live, marked>>

\* Faulty variant: the panel turns live although nothing was started.
AfterStartAnyway(c, ok) ==
    /\ live' = TRUE /\ marked' = (kind = "logs")
    /\ Suspend(c, "idle")
    /\ UNCHANGED <<conn, busy, inbox>>

AfterStart(c, ok) ==
    /\ live' = (ok \/ (kind = "logs" /\ live))
    /\ marked' = ((kind = "logs" /\ ok) \/ marked)
    /\ Suspend(c, "idle")
    /\ UNCHANGED <<conn, busy, inbox>>

\* disconnectTerminal goes on: it stops the monitor and closes the session ...
AfterParting(c) ==
    /\ live' = (kind = "logs" /\ live)
    /\ marked' = FALSE
    /\ IF kind = "monitor" /\ conn
         THEN inbox' = inbox \o <<[op |-> "stop", call |-> NoCall], [op |-> "other", call |-> c]>>
         ELSE Invoke(<<"other">>, c)
    /\ Suspend(c, "closing")
    /\ UNCHANGED <<conn, busy>>

\* ... and is offline in the end, with the monitor's display reset.
AfterClosing(c) ==
    /\ conn' = FALSE /\ live' = (kind = "logs" /\ live)
    /\ Suspend(c, "idle")
    /\ UNCHANGED <<marked, busy, inbox>>

DeliverReply ==
    /\ replies # <<>>
    /\ replies' = Tail(replies)
    /\ LET r == Head(replies) IN
         IF r.call = NoCall
           THEN marked' = FALSE /\ UNCHANGED <<conn, live, busy, call, inbox>>
           ELSE CASE call[r.call] = "stopping" -> AfterStop(r.call)
                  [] call[r.call] \in {"loading", "reloading"} -> AfterLoad(r.call)
                  [] call[r.call] = "starting" -> AfterStart(r.call, r.ok)
                  [] call[r.call] = "parting" -> AfterParting(r.call)
                  [] call[r.call] = "closing" -> AfterClosing(r.call)
    /\ UNCHANGED <<kind, native, news, outside>>

\* Faulty variant: the flag is cleared, the button is not.
DeliverNewsToFlag ==
    /\ news # <<>>
    /\ news' = Tail(news)
    /\ live' = (kind # "logs" /\ live)
    /\ UNCHANGED <<kind, native, conn, marked, busy, call, inbox, replies, outside>>

\* logs-stream-closed; nobody listens for monitor-stream-closed.
DeliverNews ==
    /\ news # <<>>
    /\ news' = Tail(news)
    /\ IF kind = "logs" /\ live
         THEN live' = FALSE /\ marked' = FALSE
         ELSE UNCHANGED <<live, marked>>
    /\ UNCHANGED <<kind, native, conn, busy, call, inbox, replies, outside>>

StreamsNext ==
    \/ ServeRequest
    \/ \E s \in Stream : EndOfOutput(s) \/ ClientExit(s)
    \/ ToggleLive \/ ChooseLogs \/ LeavePage
    \/ GoOnline \/ LoseConnection \/ Disconnect
    \/ DeliverReply \/ DeliverNews

StreamsSpec == StreamsInit /\ [][StreamsNext]_svars

-----------------------------------------------------------------------------
(* Properties *)

\* "Reconnect must not duplicate" the streams (jarvis-1-2-2-app-first.md 34):
\* whatever the panel calls do to each other, at most one client of a kind
\* runs, and it is the one that the next stop will kill (lib.rs 841-848,
\* 864-870, 905-908).
OneClient == \A s \in Stream : client[s] = "running" => slot = s

\* Everything that was asked for, answered or reported has arrived.
StreamsSettled ==
    /\ inbox = <<>> /\ replies = <<>> /\ news = <<>>
    /\ Quiescent
    /\ \A s \in Stream : stdout[s] = "reading" => client[s] = "running"

\* On disconnect "terminate owned stream processes" (jarvis-1-2-2-app-first.md
\* 34): once everything has arrived, no stream outlives the connection
\* (main.ts 769-786, 859-861, 1695-1732, 1978-2013).
StreamsEndWithConnection ==
    StreamsSettled /\ ~conn => \A s \in Stream : client[s] # "running"

\* The same, as long as no panel call was overtaken by another step.
UndisturbedStreamsEnd == overlapped \/ StreamsEndWithConnection

\* A panel that shows a live stream has one installed: no stop, failure or end
\* of an earlier stream leaves it live with nothing to read, as long as no call
\* was overtaken (main.ts 1695-1732, 1978-2013).
LiveHasStream == StreamsSettled /\ live /\ ~overlapped => slot # NoStream

\* The log panel's button and its flag agree, so that the button stops what is
\* live and starts what is not, as long as no call was overtaken (main.ts
\* 1011-1018, 1695-1732, 2570).
ButtonAgrees == StreamsSettled /\ kind = "logs" /\ ~overlapped => live = marked
=============================================================================
