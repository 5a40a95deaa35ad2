---------------------------- MODULE ServerPages -----------------------------
(***************************************************************************)
(* The pages that show the server, and its power button (main.ts 643-750,  *)
(* 1021-1268, 1483-1619, 2436-2535 and their handlers).                    *)
(*                                                                         *)
(* What a page shows is abstracted to the terminal session it was asked    *)
(* for in: the numbers of a page are those of whatever server answered.    *)
(* Native commands are synchronous and answered in the order they were     *)
(* invoked; commands of the shell plugin, probes and dialogs end in any    *)
(* order.  A function goes on with the connection as it is THEN; module    *)
(* SshConnection has the connection itself, of which only what the pages   *)
(* see is kept here.                                                       *)
(***************************************************************************)
EXTENDS Integers, Sequences

CONSTANTS
    MaxSession,  \* bound: terminal sessions
    MaxSteps,    \* bound: what the user and the connection do
    Place,       \* what a call of module FileManager is about
    NoPlace

ASSUME PagesAssumption ==
    /\ MaxSession \in Nat /\ MaxSteps \in Nat
    /\ NoPlace \notin Place

Call == 1..2                    \* bound: calls that await something
Panel == {"dashboard", "updates", "remote", "services"}
Live == {"dashboard", "updates", "remote"}   \* the panels that are cleared
Nothing == 0                    \* a panel that shows nothing
Session == 1..MaxSession

VARIABLES
    tour,        \* bound: a behaviour keeps to the panels, the power button or
                 \* the files; the connection changes in all of them
    conn,        \* state.connection
    ssh,         \* the session of activeSshGeneration
    session,     \* number of the last session
    starting,    \* sshBaslating
    shown,       \* the session the data of each panel was asked for in
    enabled,     \* which buttons are: the update buttons, the refresh button of
                 \* the remote access page, and restart
    power,       \* the power button's dataset.state
    call,        \* where each call is suspended
    wire,        \* the calls that await a native command, in its order
    steps,
    overtaken,   \* history: the connection changed while a panel was loading
    crossed,     \* history: the user acted while the server or the connection was
                 \* being switched
    refused      \* history: a connection that the power button began failed

link == <<conn, ssh, session, starting>>
look == <<shown, enabled, power>>
past == <<overtaken, crossed, refused>>
gvars == <<tour, link, look, call, wire, steps, past>>

Loading == {"dashboard", "inspect", "history", "remote", "services", "act"}
Switching == {"shut", "shutPart", "waitOff", "wake", "waitOn", "wakeDial", "wakePart"}
Filing == {"list", "read", "write", "change", "choose", "download"}
Outside == {"dashboard", "shut", "waitOff", "waitOn", "choose"}  \* not on the wire
Idle == [step |-> "idle", from |-> 0, place |-> NoPlace]

PagesTypeOK ==
    /\ tour \in {"panels", "power", "files"}
    /\ conn \in {"offline", "connecting", "online", "error"}
    /\ ssh \in {"none", "starting", "authenticated"}
    /\ session \in 0..MaxSession /\ starting \in BOOLEAN
    /\ shown \in [Panel -> 0..MaxSession]
    /\ enabled \in [{"updates", "remote", "restart"} -> BOOLEAN]
    /\ power \in {"offline", "starting", "online", "stopping"}
    /\ call \in [Call -> [step : {"idle", "dial", "part"} \cup Loading \cup Switching
                                     \cup Filing,
                          from : 0..MaxSession, place : Place \cup {NoPlace}]]
    /\ wire \in Seq(Call)
    /\ steps \in 0..MaxSteps
    /\ overtaken \in BOOLEAN /\ crossed \in BOOLEAN /\ refused \in BOOLEAN

PagesInit ==
    /\ tour \in {"panels", "power", "files"}
    /\ conn = "offline" /\ ssh = "none" /\ session = 0 /\ starting = FALSE
    /\ shown = [p \in Panel |-> Nothing]
    /\ enabled = [b \in {"updates", "remote", "restart"} |-> FALSE]
    /\ power = "offline"
    /\ call = [c \in Call |-> Idle] /\ wire = <<>>
    /\ steps = 0
    /\ overtaken = FALSE /\ crossed = FALSE /\ refused = FALSE

-----------------------------------------------------------------------------
(* What every function of the page is made of *)

\* From now on c belongs to the session that is the last by then.
Suspend(c, step, place) ==
    call' = [call EXCEPT ![c] = [step |-> step, from |-> session', place |-> place]]

\* What c waited for is over: an answer it gets is the first on the wire, and
\* nothing else of it is there.
Rest(c) == IF wire # <<>> /\ c = Head(wire) THEN Tail(wire) ELSE wire

\* A native command; its answer comes after those asked for before.
Await(c, step, place) == Suspend(c, step, place) /\ wire' = Append(Rest(c), c)

\* Anything else that is awaited.
AwaitOutside(c, step, place) == Suspend(c, step, place) /\ wire' = Rest(c)

Finished(c) == call' = [call EXCEPT ![c] = Idle] /\ wire' = Rest(c)

\* setPowerButton
SetPowerButton(mode) ==
    power' = mode /\ enabled' = [enabled EXCEPT !["restart"] = mode = "online"]

\* Faulty variants: the update buttons are only ever enabled, and the power
\* button is only set when the connection opens.
ShowStatusOnce(connection) ==
    /\ power' = IF connection = "online" THEN "online" ELSE "offline"
    /\ enabled' = [b \in DOMAIN enabled |-> connection = "online" \/ (b # "restart" /\ enabled[b])]

ShowStatusOfOpening(connection) ==
    /\ power' = IF connection = "online" THEN "online" ELSE power
    /\ enabled' = [b \in DOMAIN enabled |-> connection = "online"]

\* setConnectionStatus, with setPowerButton and updateActionAvailability
ShowStatus(connection) ==
    /\ power' = IF connection = "online" THEN "online" ELSE "offline"
    /\ enabled' = [b \in DOMAIN enabled |-> connection = "online"]

\* The same, followed by setPowerButton("online").
ShowStatusAndPower(connection) ==
    /\ power' = "online"
    /\ enabled' = [b \in DOMAIN enabled |-> b = "restart" \/ connection = "online"]

\* refreshDashboard: the shell plugin runs the probe.
RefreshDashboard(c) == AwaitOutside(c, "dashboard", NoPlace)

\* Faulty variant: the remote access page keeps what it shows.
ClearMostConnectionData ==
    shown' = [p \in Panel |-> IF p \in Live \ {"remote"} THEN Nothing ELSE shown[p]]

\* clearLiveConnectionData; the list of services stays.
ClearLiveConnectionData == shown' = [p \in Panel |-> IF p \in Live THEN Nothing ELSE shown[p]]

Show(p, c) == shown' = [shown EXCEPT ![p] = call[c].from]

Pending(kinds) == \E c \in Call : call[c].step \in kinds

-----------------------------------------------------------------------------
(* The connection *)

\* The end of disconnectTerminal, whatever session is the active one by now.
Disconnected ==
    /\ conn' = "offline" /\ ssh' = "none"
    /\ ClearLiveConnectionData
    /\ UNCHANGED <<session, starting>>

AfterPart(c) == Disconnected /\ ShowStatus("offline") /\ Finished(c)

\* connectTerminal up to start_ssh
BeginConnecting(c, step) ==
    /\ starting' = TRUE /\ conn' = "connecting"
    /\ ClearLiveConnectionData /\ ShowStatus("connecting")
    /\ UNCHANGED <<ssh, session>>
    /\ Await(c, step, NoPlace)

\* The click on the connect button.
ConnectClick(c) ==
    /\ ~starting /\ session < MaxSession
    /\ IF conn = "online"
         THEN UNCHANGED <<link, look>> /\ Await(c, "part", NoPlace)
         ELSE BeginConnecting(c, "dial")

\* The end of connectTerminal, when start_ssh fails ...
DialFails ==
    /\ starting' = FALSE /\ conn' = "error"
    /\ ClearLiveConnectionData
    /\ UNCHANGED <<ssh, session>>

\* ... and when it starts a session, whose held events are replayed at once:
\* none, authenticated, or the last one, failed or closed.
Dialed ==
    /\ starting' = FALSE /\ session' = session + 1
    /\ \/ ssh' = "starting" /\ UNCHANGED <<conn, shown>>
       \/ ssh' = "authenticated" /\ conn' = "online" /\ UNCHANGED shown
       \/ ssh' = "none" /\ conn' \in {"error", "offline"} /\ ClearLiveConnectionData

AfterDial(c) ==
    \/ DialFails /\ ShowStatus("error") /\ Finished(c)
    \/ /\ Dialed
       /\ IF ssh' = "starting" THEN UNCHANGED <<power, enabled>> ELSE ShowStatus(conn')
       /\ IF ssh' = "authenticated" THEN RefreshDashboard(c) ELSE Finished(c)

\* The authenticated event; a dashboard refresh follows.
Authenticated ==
    /\ ssh = "starting" /\ ~starting
    /\ ssh' = "authenticated" /\ conn' = "online"
    /\ ShowStatus("online")
    /\ UNCHANGED <<session, starting, shown>>
    /\ \/ \E c \in Call : call[c] = Idle /\ RefreshDashboard(c)
       \/ /\ \A c \in Call : call[c] # Idle     \* bound: no call left for it
          /\ UNCHANGED <<call, wire>>

\* The failed or closed event of the active session.
Lost ==
    /\ ssh # "none" /\ ~starting
    /\ ssh' = "none"
    /\ ClearLiveConnectionData
    /\ conn' \in {"error", "offline"} /\ ShowStatus(conn')
    /\ UNCHANGED <<session, starting, call, wire>>

-----------------------------------------------------------------------------
(* The panels *)

\* setUpdateBusy, by inspectUpdates; performUpdate does nothing else.
InspectUpdates(c) ==
    /\ enabled' = [enabled EXCEPT !["updates"] = FALSE]
    /\ Await(c, "inspect", NoPlace)
    /\ UNCHANGED <<shown, power>>

LoadUpdateHistory(c) == Await(c, "history", NoPlace) /\ UNCHANGED look

\* loadRemoteAccess
LoadRemoteAccess(c) ==
    /\ enabled' = [enabled EXCEPT !["remote"] = FALSE]
    /\ Await(c, "remote", NoPlace)
    /\ UNCHANGED <<shown, power>>

LoadServices(c) == Await(c, "services", NoPlace) /\ UNCHANGED look

\* runServisAction does not look at the connection.
RunServiceAction(c) ==
    /\ shown["services"] # Nothing
    /\ Await(c, "act", NoPlace) /\ UNCHANGED look

\* showPage and the buttons of the pages
UsePanels(c) ==
    /\ tour = "panels" /\ UNCHANGED link
    /\ \/ /\ conn = "online"
          /\ \/ RefreshDashboard(c) /\ UNCHANGED look
             \/ InspectUpdates(c)
             \/ enabled["updates"] /\ LoadUpdateHistory(c)
             \/ LoadRemoteAccess(c)
             \/ LoadServices(c)
       \/ RunServiceAction(c)

\* refreshDashboard looks at the connection again ...
AfterDashboard(c, ok) ==
    /\ Finished(c)
    /\ IF ok /\ conn = "online" THEN Show("dashboard", c) ELSE UNCHANGED shown
    /\ UNCHANGED <<enabled, power>>

\* ... inspectUpdates does not, nor does its end.
AfterInspect(c, ok) ==
    /\ Finished(c)
    /\ IF ok THEN Show("updates", c) ELSE UNCHANGED shown
    /\ enabled' = [enabled EXCEPT !["updates"] = TRUE]
    /\ UNCHANGED power

\* loadUpdateHistory makes a record of its own where there is none.
AfterHistory(c, ok) ==
    /\ Finished(c)
    /\ IF ok /\ shown["updates"] = Nothing THEN Show("updates", c) ELSE UNCHANGED shown
    /\ UNCHANGED <<enabled, power>>

AfterRemoteAccess(c, ok) ==
    /\ Finished(c)
    /\ IF ok THEN Show("remote", c) ELSE UNCHANGED shown
    /\ enabled' = [enabled EXCEPT !["remote"] = conn = "online"]
    /\ UNCHANGED power

AfterServices(c, ok) ==
    /\ Finished(c)
    /\ IF ok THEN Show("services", c) ELSE UNCHANGED shown
    /\ UNCHANGED <<enabled, power>>

\* The list is loaded again, if the interface is still online.
AfterServiceAction(c, ok) ==
    /\ IF ok /\ conn = "online" THEN Await(c, "services", NoPlace) ELSE Finished(c)
    /\ UNCHANGED look

-----------------------------------------------------------------------------
(* The power button *)

\* toggleServerPower, for a user who confirms, up to its first await.
ToggleServerPower(c) ==
    /\ tour = "power"
    /\ power \notin {"starting", "stopping"} /\ conn # "connecting"
    /\ UNCHANGED <<link, shown>>
    /\ IF conn = "online"
         THEN SetPowerButton("stopping") /\ AwaitOutside(c, "shut", NoPlace)
         ELSE SetPowerButton("starting") /\ Await(c, "wake", NoPlace)

\* disconnectTerminal, which awaits nothing when there is nothing to stop or to
\* close.
Depart(c) ==
    IF ssh = "none" /\ conn # "online"
      THEN Disconnected /\ ShowStatus("offline") /\ AwaitOutside(c, "waitOff", NoPlace)
      ELSE UNCHANGED <<link, look>> /\ Await(c, "shutPart", NoPlace)

\* Faulty variant: an error leaves the button as it is.
AfterShutSilently(c, ok) ==
    IF ok THEN Depart(c) ELSE UNCHANGED <<link, look>> /\ Finished(c)

\* remotePower has ended.
AfterShut(c, ok) ==
    IF ok
      THEN Depart(c)
      ELSE SetPowerButton("online") /\ UNCHANGED <<link, shown>> /\ Finished(c)

AfterShutPart(c) ==
    Disconnected /\ ShowStatus("offline") /\ AwaitOutside(c, "waitOff", NoPlace)

\* waitForServerDurum(false) has ended, one way or the other.
AfterWaitOff(c) ==
    /\ conn' = "offline" /\ ShowStatus("offline")
    /\ Finished(c)
    /\ UNCHANGED <<ssh, session, starting, shown>>

AfterWake(c, ok) ==
    /\ UNCHANGED link
    /\ IF ok
         THEN AwaitOutside(c, "waitOn", NoPlace) /\ UNCHANGED look
         ELSE SetPowerButton("offline") /\ Finished(c) /\ UNCHANGED shown

\* waitForServerDurum(true) has ended; connectTerminal comes next, which closes
\* an open connection and leaves one that is being opened alone.
AfterWaitOn(c, up) ==
    \/ ~up /\ SetPowerButton("offline") /\ Finished(c) /\ UNCHANGED <<link, shown>>
    \/ up /\ starting /\ SetPowerButton("online") /\ Finished(c) /\ UNCHANGED <<link, shown>>
    \/ /\ up /\ ~starting /\ conn = "online"
       /\ UNCHANGED <<link, look>> /\ Await(c, "wakePart", NoPlace)
    \/ /\ up /\ ~starting /\ conn # "online" /\ session < MaxSession
       /\ BeginConnecting(c, "wakeDial")

\* connectTerminal has ended; it never throws, and does not say how it ended.
AfterWakeDial(c) ==
    \/ DialFails /\ ShowStatusAndPower("error") /\ Finished(c)
    \/ /\ Dialed
       /\ IF ssh' = "starting" THEN SetPowerButton("online") ELSE ShowStatusAndPower(conn')
       /\ IF ssh' = "authenticated" THEN RefreshDashboard(c) ELSE Finished(c)

AfterWakePart(c) == Disconnected /\ ShowStatusAndPower("offline") /\ Finished(c)

-----------------------------------------------------------------------------
(* The calls go on, and the user and the connection act *)

\* The answer to a native command.
Resume(c, ok) ==
    LET step == call[c].step IN
      \/ step = "dial" /\ AfterDial(c)
      \/ step = "part" /\ AfterPart(c)
      \/ step = "shutPart" /\ AfterShutPart(c)
      \/ step = "wakeDial" /\ AfterWakeDial(c)
      \/ step = "wakePart" /\ AfterWakePart(c)
      \/ step = "wake" /\ AfterWake(c, ok)
      \/ /\ UNCHANGED link
         /\ \/ step = "inspect" /\ AfterInspect(c, ok)
            \/ step = "history" /\ AfterHistory(c, ok)
            \/ step = "remote" /\ AfterRemoteAccess(c, ok)
            \/ step = "services" /\ AfterServices(c, ok)
            \/ step = "act" /\ AfterServiceAction(c, ok)

\* The end of what is awaited elsewhere.
ResumeOutside(c, ok) ==
    LET step == call[c].step IN
      \/ step = "dashboard" /\ UNCHANGED link /\ AfterDashboard(c, ok)
      \/ step = "shut" /\ AfterShut(c, ok)
      \/ step = "waitOff" /\ AfterWaitOff(c)
      \/ step = "waitOn" /\ AfterWaitOn(c, ok)

\* History: the command that switches the server, or the connection that the
\* power button began, has failed.
Refusal == \E c \in Call : \/ call[c].step = "shut" /\ call'[c] = Idle
                           \/ call[c].step = "wakeDial" /\ conn' \in {"error", "offline"}

Remember ==
    /\ overtaken' = (overtaken \/ (Pending(Loading) /\ <<conn, ssh>>' # <<conn, ssh>>))
    /\ refused' = (refused \/ Refusal)
    /\ UNCHANGED tour

Deliver ==
    /\ \E c \in Call, ok \in BOOLEAN : wire # <<>> /\ c = Head(wire) /\ Resume(c, ok)
    /\ Remember /\ UNCHANGED <<steps, crossed>>

Elsewhere ==
    /\ \E c \in Call, ok \in BOOLEAN : ResumeOutside(c, ok)
    /\ Remember /\ UNCHANGED <<steps, crossed>>

Authentication == Authenticated /\ Remember /\ UNCHANGED <<steps, crossed>>

Step == steps < MaxSteps /\ steps' = steps + 1 /\ Remember

Loss == Lost /\ Step /\ UNCHANGED crossed

Click ==
    /\ \E c \in Call : /\ call[c] = Idle
                       /\ ConnectClick(c) \/ UsePanels(c) \/ ToggleServerPower(c)
    /\ crossed' = (crossed \/ conn = "connecting" \/ Pending(Switching \cup {"part"}))
    /\ Step

PagesNext == Deliver \/ Elsewhere \/ Authentication \/ Loss \/ Click

PagesSpec == PagesInit /\ [][PagesNext]_gvars

-----------------------------------------------------------------------------
(* Properties *)

Quiet == \A c \in Call : call[c] = Idle

\* A panel that is cleared with the connection (clearLiveConnectionData, 674)
\* shows what was asked for in the session that is open, unless the connection
\* changed under a load in progress: inspectUpdates (1160), loadUpdateHistory
\* (1179) and loadRemoteAccess (2442) render whatever arrives, refreshDashboard
\* (1041) compares the connection's state and not its session; and unless the
\* user acted while the server was being switched (1225).
UndisturbedPanelsAreCurrent ==
    ~overtaken /\ ~crossed =>
        \A p \in Live : shown[p] # Nothing => conn = "online" /\ shown[p] = session

\* Once no call is pending the update buttons and the refresh button of the
\* remote access page are enabled exactly while the interface is online, though
\* three functions set them (705, 1073, 2464); unless the connection changed
\* under a load: the finally of inspectUpdates enables its buttons offline too.
ButtonsFollowConnection ==
    Quiet /\ ~overtaken => \A b \in {"updates", "remote"} : enabled[b] = (conn = "online")

\* The power button offers to shut down a server exactly while the interface is
\* online, and so does the restart button (setPowerButton, 1194), once no
\* switching is under way; unless the user acted in between, or the command or
\* the connection that the power button began failed: the button then says
\* online whatever the connection is (1229, 1251).
PowerButtonIsRight ==
    ~Pending(Switching) /\ ~crossed /\ ~refused /\ conn # "connecting" =>
        /\ (power = "online") = (conn = "online")
        /\ enabled["restart"] = (conn = "online")

\* The power button, disabled while it says that the server is being switched,
\* becomes usable again, whatever fails (toggleServerPower, 1216).
SwitchingEnds == power \in {"starting", "stopping"} ~> power \in {"online", "offline"}

=============================================================================
