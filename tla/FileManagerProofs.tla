------------------------- MODULE FileManagerProofs --------------------------
(***************************************************************************)
(* Proofs about the pages, for every set of places and any number of       *)
(* sessions and steps: the panels, the power button and the buttons of the *)
(* updates and remote access pages follow the connection; the file the     *)
(* files page acts on is the one in view, the list is of the directory it  *)
(* acts in, and a save is reported for its file.                           *)
(*                                                                         *)
(* A call that loads the updates or the remote access page keeps its       *)
(* buttons disabled; FInv says that it only does so online, unless the     *)
(* connection was changed under it.  All other calls leave these loads     *)
(* alone (Goes).  FilesInv adds module ServerPagesProofs' GInv, and the    *)
(* order of the answers: the last listing asked for is of the current path *)
(* (ListOK), and saves come before the file asked for after them           *)
(* (EditorOK).                                                             *)
(***************************************************************************)
EXTENDS FileManager, ServerPagesProofs

Page == {"updates", "remote"}
LoadOf(b) == IF b = "updates" THEN "inspect" ELSE "remote"

CallsOK ==
    /\ DOMAIN call = Call
    /\ \A c \in Call : call[c].step = "read" => call[c].place \in File

ButtonsOK ==
    /\ enabled \in [{"updates", "remote", "restart"} -> BOOLEAN]
    /\ ~overtaken => \A b \in Page :
         IF Pending({LoadOf(b)}) THEN conn = "online" ELSE enabled[b] = (conn = "online")

FInv == CallsOK /\ ButtonsOK /\ SelectedIsInView

-----------------------------------------------------------------------------
(* What a step does to the calls and to the buttons *)

Other == ({"dial", "part"} \cup Loading \cup Switching \cup Filing)
             \ {"inspect", "remote", "read"}

\* A call ends, or goes on with something else than a load or an open.
Goes(c) == Finished(c) \/ \E step \in Other : \E place : Suspend(c, step, place)

\* The loads of the two pages go on as they were.
SameLoads ==
    \A c \in Call : call[c].step \in {"inspect", "remote"} \/ call'[c].step \in {"inspect", "remote"}
                       => call'[c] = call[c]

\* The buttons of the two pages are set after the connection, or neither changes.
Follows ==
    /\ enabled' \in [{"updates", "remote", "restart"} -> BOOLEAN]
    /\ \/ \A b \in Page : enabled'[b] = (conn' = "online")
       \/ conn' = conn /\ \A b \in Page : enabled'[b] = enabled[b]

LEMMA SuspendIs ==
  ASSUME DOMAIN call = Call, NEW c \in Call, NEW step, NEW place, Suspend(c, step, place)
  PROVE  /\ DOMAIN call' = Call
         /\ call'[c].step = step /\ call'[c].place = place
         /\ \A d \in Call \ {c} : call'[d] = call[d]
BY DEF Suspend

LEMMA FinishedIs ==
  ASSUME DOMAIN call = Call, NEW c \in Call, Finished(c)
  PROVE  /\ DOMAIN call' = Call
         /\ call'[c].step = "idle"
         /\ \A d \in Call \ {c} : call'[d] = call[d]
BY DEF Finished, Idle

\* A call that is not a load goes on.
LEMMA GoesKeepsLoads ==
  ASSUME CallsOK, NEW c \in Call, call[c].step \notin {"inspect", "remote"}, Goes(c)
  PROVE  CallsOK' /\ SameLoads
<1>1. CASE Finished(c)
  BY <1>1, FinishedIs DEF CallsOK, SameLoads, File
<1>2. ASSUME NEW step \in Other, NEW place, Suspend(c, step, place)
      PROVE  CallsOK' /\ SameLoads
  <2>1. step \notin {"inspect", "remote", "read"}
    BY DEF Other
  <2> QED
    BY <1>2, <2>1, SuspendIs DEF CallsOK, SameLoads, File
<1> QED
  BY <1>1, <1>2 DEF Goes

\* While the loads go on and the buttons follow the connection, they are right.
LEMMA FollowingIsRight ==
  ASSUME ButtonsOK, SameLoads, Follows, Remember
  PROVE  ButtonsOK'
<1> SUFFICES ASSUME ~overtaken', NEW b \in Page
             PROVE  IF Pending({LoadOf(b)})' THEN conn' = "online"
                      ELSE enabled'[b] = (conn' = "online")
  BY DEF ButtonsOK, Follows
<1>1. Pending({LoadOf(b)})' = Pending({LoadOf(b)})
  BY DEF SameLoads, Pending, LoadOf
<1>2. ~overtaken /\ (Pending(Loading) => conn' = conn)
  BY DEF Remember
<1>3. Pending({LoadOf(b)}) => Pending(Loading)
  BY DEF Pending, LoadOf, Loading
<1>4. IF Pending({LoadOf(b)}) THEN conn = "online" ELSE enabled[b] = (conn = "online")
  BY <1>2 DEF ButtonsOK
<1>5. CASE Pending({LoadOf(b)})
  BY <1>1, <1>2, <1>3, <1>4, <1>5
<1>6. CASE ~Pending({LoadOf(b)})
  BY <1>1, <1>4, <1>6 DEF Follows
<1> QED
  BY <1>5, <1>6

-----------------------------------------------------------------------------
(* The connection and the power button *)

LEMMA StatusFollows ==
  ASSUME ButtonsOK, NEW status, conn' = status,
         ShowStatus(status) \/ ShowStatusAndPower(status)
  PROVE  Follows
<1> DEFINE on == status = "online"
<1>1. DOMAIN enabled = {"updates", "remote", "restart"} /\ on \in BOOLEAN
  BY DEF ButtonsOK
<1>2. CASE enabled' = [b \in DOMAIN enabled |-> on]
  BY <1>1, <1>2 DEF Follows, Page
<1>3. CASE enabled' = [b \in DOMAIN enabled |-> b = "restart" \/ on]
  BY <1>1, <1>3 DEF Follows, Page
<1> QED
  BY <1>2, <1>3 DEF ShowStatus, ShowStatusAndPower

LEMMA PowerFollows ==
  ASSUME ButtonsOK, NEW mode, SetPowerButton(mode), UNCHANGED conn
  PROVE  Follows
<1> DEFINE on == mode = "online"
<1>1. enabled' = [enabled EXCEPT !["restart"] = on] /\ on \in BOOLEAN
  BY DEF SetPowerButton
<1> HIDE DEF on
<1> QED
  BY <1>1 DEF ButtonsOK, Follows, Page

LEMMA StillFollows ==
  ASSUME ButtonsOK, UNCHANGED <<conn, enabled>>
  PROVE  Follows
BY DEF ButtonsOK, Follows, Page

LEMMA DialFollows ==
  ASSUME ButtonsOK, CallsOK, NEW c \in Call, call[c].step \notin {"inspect", "remote"},
         AfterDial(c) \/ AfterWakeDial(c)
  PROVE  Follows /\ Goes(c)
<1>1. CASE AfterDial(c)
  <2>1. Goes(c)
    BY <1>1 DEF AfterDial, RefreshDashboard, AwaitOutside, Goes, Other, Loading
  <2>2. CASE DialFails /\ ShowStatus("error")
    BY <2>1, <2>2, StatusFollows DEF DialFails
  <2>3. CASE Dialed /\ IF ssh' = "starting" THEN UNCHANGED <<power, enabled>> ELSE ShowStatus(conn')
    BY <2>1, <2>3, StatusFollows, StillFollows DEF Dialed
  <2> QED
    BY <1>1, <2>1, <2>2, <2>3 DEF AfterDial
<1>2. CASE AfterWakeDial(c)
  <2>1. Goes(c)
    BY <1>2 DEF AfterWakeDial, RefreshDashboard, AwaitOutside, Goes, Other, Loading
  <2>2. CASE DialFails /\ ShowStatusAndPower("error")
    BY <2>1, <2>2, StatusFollows DEF DialFails
  <2>3. CASE Dialed /\ IF ssh' = "starting" THEN SetPowerButton("online") ELSE ShowStatusAndPower(conn')
    BY <2>1, <2>3, StatusFollows, PowerFollows DEF Dialed
  <2> QED
    BY <1>2, <2>1, <2>2, <2>3 DEF AfterWakeDial
<1> QED
  BY <1>1, <1>2

LEMMA PartFollows ==
  ASSUME ButtonsOK, CallsOK, NEW c \in Call,
         AfterPart(c) \/ AfterShutPart(c) \/ AfterWakePart(c)
  PROVE  Follows /\ Goes(c)
<1>1. Follows
  BY StatusFollows DEF AfterPart, AfterShutPart, AfterWakePart, Disconnected
<1>2. Goes(c)
  BY DEF AfterPart, AfterShutPart, AfterWakePart, AwaitOutside, Goes, Other, Switching
<1> QED
  BY <1>1, <1>2

LEMMA PowerCallFollows ==
  ASSUME ButtonsOK, CallsOK, NEW c \in Call, NEW ok \in BOOLEAN,
         AfterShut(c, ok) \/ AfterWaitOff(c) \/ AfterWake(c, ok) \/ AfterWaitOn(c, ok)
  PROVE  Follows /\ Goes(c)
<1>1. CASE AfterShut(c, ok)
  <2>1. Goes(c)
    BY <1>1 DEF AfterShut, Depart, AwaitOutside, Await, Goes, Other, Switching
  <2>2. CASE Depart(c)
    BY <2>1, <2>2, StatusFollows, StillFollows DEF Depart, Disconnected, link, look
  <2>3. CASE SetPowerButton("online") /\ UNCHANGED link
    BY <2>1, <2>3, PowerFollows DEF link
  <2> QED
    BY <1>1, <2>1, <2>2, <2>3 DEF AfterShut
<1>2. CASE AfterWaitOff(c)
  BY <1>2, StatusFollows DEF AfterWaitOff, Goes
<1>3. CASE AfterWake(c, ok)
  <2>1. Goes(c)
    BY <1>3 DEF AfterWake, AwaitOutside, Goes, Other, Switching
  <2> QED
    BY <1>3, <2>1, PowerFollows, StillFollows DEF AfterWake, link, look
<1>4. CASE AfterWaitOn(c, ok)
  <2>1. Goes(c)
    BY <1>4 DEF AfterWaitOn, BeginConnecting, Await, Goes, Other, Switching
  <2>2. CASE UNCHANGED link /\ (SetPowerButton("offline") \/ SetPowerButton("online") \/ UNCHANGED look)
    BY <2>1, <2>2, PowerFollows, StillFollows DEF link, look
  <2>3. CASE BeginConnecting(c, "wakeDial")
    BY <2>1, <2>3, StatusFollows DEF BeginConnecting
  <2> QED
    BY <1>4, <2>1, <2>2, <2>3 DEF AfterWaitOn
<1> QED
  BY <1>1, <1>2, <1>3, <1>4

-----------------------------------------------------------------------------
(* The panels *)

\* A load of one of the two pages begins: its buttons are disabled, online.
LEMMA LoadBegins ==
  ASSUME ButtonsOK, CallsOK, NEW b \in Page, NEW c \in Call, call[c] = Idle,
         conn = "online", enabled' = [enabled EXCEPT ![b] = FALSE],
         Suspend(c, LoadOf(b), NoPlace), UNCHANGED conn, Remember
  PROVE  CallsOK' /\ ButtonsOK'
<1>1. /\ DOMAIN call' = Call /\ call'[c].step = LoadOf(b)
      /\ \A d \in Call \ {c} : call'[d] = call[d]
  BY SuspendIs DEF CallsOK
<1>2. CallsOK'
  BY <1>1 DEF CallsOK, LoadOf, File
<1>3. enabled' \in [{"updates", "remote", "restart"} -> BOOLEAN]
  BY DEF ButtonsOK
<1>4. ASSUME ~overtaken', NEW e \in Page
      PROVE  IF Pending({LoadOf(e)})' THEN conn' = "online"
               ELSE enabled'[e] = (conn' = "online")
  <2>1. CASE e = b
    <3>1. Pending({LoadOf(b)})'
      BY <1>1 DEF Pending
    <3> QED
      BY <2>1, <3>1
  <2>2. CASE e # b
    <3>1. enabled'[e] = enabled[e] /\ LoadOf(e) # LoadOf(b) /\ LoadOf(e) # "idle"
      BY <2>2 DEF ButtonsOK, Page, LoadOf
    <3>2. Pending({LoadOf(e)})' = Pending({LoadOf(e)})
      BY <1>1, <3>1 DEF Pending, Idle
    <3> QED
      BY <1>4, <3>1, <3>2 DEF ButtonsOK, Remember
  <2> QED
    BY <2>1, <2>2
<1> QED
  BY <1>2, <1>3, <1>4 DEF ButtonsOK

\* A load of one of the two pages ends: its buttons follow the connection, and
\* are left enabled where it is online.
LEMMA LoadEnds ==
  ASSUME ButtonsOK, CallsOK, NEW b \in Page, NEW c \in Call, call[c].step = LoadOf(b),
         NEW on \in BOOLEAN, enabled' = [enabled EXCEPT ![b] = on],
         conn = "online" => on,
         Finished(c), UNCHANGED conn, Remember
  PROVE  CallsOK' /\ ButtonsOK'
<1>1. /\ DOMAIN call' = Call /\ call'[c].step = "idle"
      /\ \A d \in Call \ {c} : call'[d] = call[d]
  BY FinishedIs DEF CallsOK
<1>2. CallsOK'
  BY <1>1 DEF CallsOK, File
<1>3. enabled' \in [{"updates", "remote", "restart"} -> BOOLEAN]
  BY DEF ButtonsOK
<1>4. ASSUME ~overtaken', NEW e \in Page
      PROVE  IF Pending({LoadOf(e)})' THEN conn' = "online"
               ELSE enabled'[e] = (conn' = "online")
  <2>0. ~overtaken
    BY <1>4 DEF Remember
  <2>1. CASE e = b
    <3>1. Pending({LoadOf(b)})
      BY DEF Pending
    <3>2. conn = "online"
      BY <2>0, <3>1 DEF ButtonsOK
    <3>3. enabled'[b] = TRUE /\ (conn' = "online") = TRUE
      BY <3>2 DEF ButtonsOK, Page
    <3> QED
      BY <2>1, <3>2, <3>3
  <2>2. CASE e # b
    <3>1. enabled'[e] = enabled[e] /\ LoadOf(e) # LoadOf(b) /\ LoadOf(e) # "idle"
      BY <2>2 DEF ButtonsOK, Page, LoadOf
    <3>2. Pending({LoadOf(e)})' = Pending({LoadOf(e)})
      BY <1>1, <3>1 DEF Pending
    <3> QED
      BY <2>0, <3>1, <3>2 DEF ButtonsOK
  <2> QED
    BY <2>1, <2>2
<1> QED
  BY <1>2, <1>3, <1>4 DEF ButtonsOK

-----------------------------------------------------------------------------
(* Every step of the pages *)

PagesInv == CallsOK /\ ButtonsOK

LEMMA LinkCallPreserves ==
  ASSUME PagesInv, NEW c \in Call, call[c].step \notin {"inspect", "remote"},
         Goes(c), Follows, Remember
  PROVE  PagesInv'
BY GoesKeepsLoads, FollowingIsRight DEF PagesInv

LEMMA DeliverPreserves == PagesInv /\ Deliver => PagesInv'
<1> SUFFICES ASSUME PagesInv, Remember, NEW c \in Call, NEW ok \in BOOLEAN, Resume(c, ok)
             PROVE  PagesInv'
  BY DEF Deliver
<1> USE DEF PagesInv
<1>1. CASE call[c].step \in {"dial", "wakeDial"} /\ (AfterDial(c) \/ AfterWakeDial(c))
  BY <1>1, DialFollows, LinkCallPreserves
<1>2. CASE /\ call[c].step \in {"part", "shutPart", "wakePart"}
           /\ AfterPart(c) \/ AfterShutPart(c) \/ AfterWakePart(c)
  BY <1>2, PartFollows, LinkCallPreserves
<1>3. CASE call[c].step = "wake" /\ AfterWake(c, ok)
  BY <1>3, PowerCallFollows, LinkCallPreserves
<1>4. CASE call[c].step = "inspect" /\ AfterInspect(c, ok) /\ UNCHANGED link
  <2>1. Finished(c) /\ enabled' = [enabled EXCEPT !["updates"] = TRUE] /\ UNCHANGED conn
    BY <1>4 DEF AfterInspect, link
  <2>2. "updates" \in Page /\ call[c].step = LoadOf("updates")
    BY <1>4 DEF Page, LoadOf
  <2> QED
    BY <2>1, <2>2, LoadEnds
<1>5. CASE call[c].step = "remote" /\ AfterRemoteAccess(c, ok) /\ UNCHANGED link
  <2> DEFINE on == conn = "online"
  <2>1. /\ Finished(c) /\ enabled' = [enabled EXCEPT !["remote"] = on] /\ UNCHANGED conn
        /\ on \in BOOLEAN /\ (conn = "online" => on)
    BY <1>5 DEF AfterRemoteAccess, link
  <2>2. "remote" \in Page /\ call[c].step = LoadOf("remote")
    BY <1>5 DEF Page, LoadOf
  <2> HIDE DEF on
  <2> QED
    BY <2>1, <2>2, LoadEnds
<1>6. CASE /\ call[c].step \in {"history", "services", "act"} /\ UNCHANGED link
           /\ AfterHistory(c, ok) \/ AfterServices(c, ok) \/ AfterServiceAction(c, ok)
  <2>1. UNCHANGED <<conn, enabled>>
    BY <1>6 DEF AfterHistory, AfterServices, AfterServiceAction, link, look
  <2>2. Goes(c)
    BY <1>6 DEF AfterHistory, AfterServices, AfterServiceAction, Await, Goes, Other, Loading
  <2> QED
    BY <1>6, <2>1, <2>2, StillFollows, LinkCallPreserves
<1> QED
  BY <1>1, <1>2, <1>3, <1>4, <1>5, <1>6 DEF Resume

LEMMA ElsewherePreserves == PagesInv /\ Elsewhere => PagesInv'
<1> SUFFICES ASSUME PagesInv, Remember,
                    NEW c \in Call, NEW ok \in BOOLEAN, ResumeOutside(c, ok)
             PROVE  PagesInv'
  BY DEF Elsewhere
<1> USE DEF PagesInv
<1>1. CASE call[c].step = "dashboard" /\ UNCHANGED link /\ AfterDashboard(c, ok)
  <2>1. UNCHANGED <<conn, enabled>> /\ Goes(c)
    BY <1>1 DEF AfterDashboard, link, Goes
  <2> QED
    BY <1>1, <2>1, StillFollows, LinkCallPreserves
<1>2. CASE /\ call[c].step \in {"shut", "waitOff", "waitOn"}
           /\ AfterShut(c, ok) \/ AfterWaitOff(c) \/ AfterWaitOn(c, ok)
  BY <1>2, PowerCallFollows, LinkCallPreserves
<1> QED
  BY <1>1, <1>2 DEF ResumeOutside

LEMMA ConnectionPreserves == PagesInv /\ (Authentication \/ Loss) => PagesInv'
<1> SUFFICES ASSUME PagesInv, Remember, Authenticated \/ Lost PROVE PagesInv'
  BY DEF Authentication, Loss, Step
<1> USE DEF PagesInv
<1>1. CASE Authenticated
  <2>1. Follows
    BY <1>1, StatusFollows DEF Authenticated
  <2>2. CASE UNCHANGED call
    BY <2>1, <2>2, FollowingIsRight DEF CallsOK, SameLoads, File
  <2>3. ASSUME NEW c \in Call, call[c] = Idle, RefreshDashboard(c)
        PROVE  PagesInv'
    <3>1. Goes(c)
      BY <2>3 DEF RefreshDashboard, AwaitOutside, Goes, Other, Loading
    <3>2. call[c].step \notin {"inspect", "remote"}
      BY <2>3 DEF Idle
    <3> QED
      BY <2>1, <3>1, <3>2, LinkCallPreserves
  <2> QED
    BY <1>1, <2>2, <2>3 DEF Authenticated
<1>2. CASE Lost
  <2>1. Follows /\ UNCHANGED call
    BY <1>2, StatusFollows DEF Lost
  <2> QED
    BY <2>1, FollowingIsRight DEF CallsOK, SameLoads, File
<1> QED
  BY <1>1, <1>2

LEMMA ClickPreserves == PagesInv /\ Click => PagesInv'
<1> SUFFICES ASSUME PagesInv, Remember, NEW c \in Call, call[c] = Idle,
                    ConnectClick(c) \/ UsePanels(c) \/ ToggleServerPower(c)
             PROVE  PagesInv'
  BY DEF Click, Step
<1> USE DEF PagesInv
<1>0. call[c].step \notin {"inspect", "remote"}
  BY DEF Idle
<1>1. CASE ConnectClick(c)
  <2>1. Goes(c)
    BY <1>1 DEF ConnectClick, BeginConnecting, Await, Goes, Other
  <2>2. CASE UNCHANGED <<link, look>>
    BY <1>0, <2>1, <2>2, StillFollows, LinkCallPreserves DEF link, look
  <2>3. CASE BeginConnecting(c, "dial")
    <3>1. Follows
      BY <2>3, StatusFollows DEF BeginConnecting
    <3> QED
      BY <1>0, <2>1, <3>1, LinkCallPreserves
  <2> QED
    BY <1>1, <2>2, <2>3 DEF ConnectClick
<1>2. CASE ToggleServerPower(c)
  <2>1. Goes(c)
    BY <1>2 DEF ToggleServerPower, AwaitOutside, Await, Goes, Other, Switching
  <2>2. Follows
    BY <1>2, PowerFollows DEF ToggleServerPower, link
  <2> QED
    BY <1>0, <2>1, <2>2, LinkCallPreserves
<1>3. CASE UsePanels(c)
  <2>1. UNCHANGED conn
    BY <1>3 DEF UsePanels, link
  <2>2. CASE conn = "online" /\ InspectUpdates(c)
    <3>1. "updates" \in Page /\ Suspend(c, LoadOf("updates"), NoPlace)
      BY <2>2 DEF InspectUpdates, Await, Page, LoadOf
    <3> QED
      BY <2>1, <2>2, <3>1, LoadBegins DEF InspectUpdates
  <2>3. CASE conn = "online" /\ LoadRemoteAccess(c)
    <3>1. "remote" \in Page /\ Suspend(c, LoadOf("remote"), NoPlace)
      BY <2>3 DEF LoadRemoteAccess, Await, Page, LoadOf
    <3> QED
      BY <2>1, <2>3, <3>1, LoadBegins DEF LoadRemoteAccess
  <2>4. CASE /\ UNCHANGED look
             /\ \/ RefreshDashboard(c) \/ LoadUpdateHistory(c)
                \/ LoadServices(c) \/ RunServiceAction(c)
    <3>1. Goes(c)
      BY <2>4 DEF RefreshDashboard, LoadUpdateHistory, LoadServices, RunServiceAction,
         Await, AwaitOutside, Goes, Other, Loading
    <3> QED
      BY <1>0, <2>1, <2>4, <3>1, StillFollows, LinkCallPreserves DEF look
  <2> QED
    BY <1>3, <2>2, <2>3, <2>4
       DEF UsePanels, LoadUpdateHistory, LoadServices, RunServiceAction
<1> QED
  BY <1>1, <1>2, <1>3

-----------------------------------------------------------------------------
(* The files page *)

\* A call of the files page goes on with anything but an open of a place that is
\* not a file.
Files(c) ==
    \/ Goes(c)
    \/ \E e \in File : Suspend(c, "read", e)

LEMMA FilesCallPreserves ==
  ASSUME PagesInv, NEW c \in Call, call[c].step \notin {"inspect", "remote"},
         Files(c), UNCHANGED <<conn, enabled>>, Remember
  PROVE  PagesInv'
<1>1. CASE Goes(c)
  BY <1>1, StillFollows, LinkCallPreserves DEF PagesInv
<1>2. ASSUME NEW e \in File, Suspend(c, "read", e)
      PROVE  PagesInv'
  <2>1. CallsOK' /\ SameLoads
    BY <1>2, SuspendIs DEF PagesInv, CallsOK, SameLoads, File
  <2> QED
    BY <2>1, StillFollows, FollowingIsRight DEF PagesInv
<1> QED
  BY <1>1, <1>2 DEF Files

LEMMA UseFilesPreserves == FInv /\ UseFiles => FInv'
<1> SUFFICES ASSUME FInv, UseFiles PROVE FInv'
  OBVIOUS
<1>1. UNCHANGED <<conn, enabled>> /\ Remember /\ PagesInv /\ ClickFiles
  BY DEF UseFiles, link, look, Step, FInv, PagesInv
<1>2. SelectedIsInView'
  <2>1. CASE menu' = NoPlace /\ UNCHANGED <<selected, editor>>
    BY <2>1 DEF FInv, SelectedIsInView
  <2>2. CASE editor = NoPlace /\ ShowFileContextMenu
    BY <2>2 DEF ShowFileContextMenu, SelectedIsInView
  <2>3. CASE CloseEditor
    BY <2>3 DEF CloseEditor, SelectedIsInView
  <2> QED
    BY <1>1, <2>1, <2>2, <2>3 DEF ClickFiles, UsePage, UseRow, UseMenu, SaveRemoteFile
<1>3. PagesInv'
  <2>1. CASE UNCHANGED call
    BY <1>1, <2>1, StillFollows, FollowingIsRight DEF PagesInv, CallsOK, SameLoads, File
  <2>2. ASSUME NEW c \in Call, call[c] = Idle,
               UsePage(c) \/ UseRow(c) \/ UseMenu(c) \/ SaveRemoteFile(c)
        PROVE  PagesInv'
    <3>1. call[c].step \notin {"inspect", "remote"}
      BY <2>2 DEF Idle
    <3>2. Files(c)
      <4>1. \A d : LoadFiles(c, d) => Goes(c)
        BY DEF LoadFiles, Await, Goes, Other, Filing
      <4>2. \A e : OpenRemoteFile(c, e) => Files(c)
        BY DEF OpenRemoteFile, Await, Files
      <4>3. Create(c) \/ ChangeEntry(c) \/ UploadFile(c) \/ DownloadFile(c) \/ SaveRemoteFile(c)
              => Goes(c)
        BY DEF Create, ChangeEntry, UploadFile, DownloadFile, SaveRemoteFile,
               Await, AwaitOutside, Goes, Other, Filing
      <4> QED
        BY <2>2, <4>1, <4>2, <4>3 DEF UsePage, UseRow, UseMenu, Files
    <3> QED
      BY <1>1, <3>1, <3>2, FilesCallPreserves
  <2> QED
    BY <1>1, <2>1, <2>2 DEF ClickFiles, ShowFileContextMenu, CloseEditor
<1> QED
  BY <1>2, <1>3 DEF FInv, PagesInv

\* A file that arrives is shown and selected at once; nothing else that arrives
\* touches either.
LEMMA DeliverFilesPreserves == FInv /\ DeliverFiles => FInv'
<1> SUFFICES ASSUME FInv, DeliverFiles PROVE FInv'
  OBVIOUS
<1>1. UNCHANGED <<conn, enabled, menu>> /\ Remember /\ PagesInv
  BY DEF DeliverFiles, link, look, FInv, PagesInv
<1>2. ASSUME NEW c \in Call, NEW ok \in BOOLEAN, call[c].step \notin {"inspect", "remote"},
             UNCHANGED <<selected, editor>>,
             \/ AfterList(c, ok) \/ AfterWrite(c, ok) \/ AfterChange(c, ok)
             \/ AfterDownload(c) \/ AfterChoose(c, ok)
      PROVE  FInv'
  <2>1. Goes(c)
    BY <1>2 DEF AfterList, AfterWrite, AfterChange, Reload, AfterDownload, AfterChoose,
       LoadFiles, Await, Goes, Other, Filing
  <2>2. SelectedIsInView'
    BY <1>1, <1>2 DEF FInv, SelectedIsInView
  <2> QED
    BY <1>1, <1>2, <2>1, <2>2, FilesCallPreserves DEF Files, FInv, PagesInv
<1>3. ASSUME NEW c \in Call, NEW ok \in BOOLEAN, call[c].step = "read", AfterRead(c, ok)
      PROVE  FInv'
  <2>1. Goes(c)
    BY <1>3 DEF AfterRead, Goes
  <2>2. call[c].place # NoPlace
    BY <1>3, PagesAssumption DEF FInv, CallsOK, File
  <2>3. SelectedIsInView'
    BY <1>1, <1>3, <2>2 DEF AfterRead, FInv, SelectedIsInView
  <2> QED
    BY <1>1, <1>3, <2>1, <2>3, FilesCallPreserves DEF Files, FInv, PagesInv
<1>4. ASSUME NEW c \in Call, NEW ok \in BOOLEAN, ResumeFiles(c, ok)
      PROVE  FInv'
  BY <1>2, <1>3, <1>4 DEF ResumeFiles, AfterList, AfterWrite, AfterChange, Reload, AfterDownload
<1>5. ASSUME NEW c \in Call, NEW ok \in BOOLEAN, call[c].step = "choose", AfterChoose(c, ok)
      PROVE  FInv'
  BY <1>2, <1>5 DEF AfterChoose
<1> QED
  BY <1>4, <1>5 DEF DeliverFiles

-----------------------------------------------------------------------------
(* The theorems *)

LEMMA FilesInitEstablishes == FilesInit => FInv
<1> SUFFICES ASSUME FilesInit PROVE FInv
  OBVIOUS
<1>1. CallsOK
  BY DEF FilesInit, PagesInit, CallsOK, Idle
<1>2. ButtonsOK
  <2>1. \A b \in Page : ~Pending({LoadOf(b)})
    BY DEF FilesInit, PagesInit, Pending, LoadOf, Idle
  <2>2. /\ enabled = [b \in {"updates", "remote", "restart"} |-> FALSE]
        /\ conn = "offline"
    BY DEF FilesInit, PagesInit
  <2> QED
    BY <2>1, <2>2 DEF ButtonsOK, Page
<1>3. SelectedIsInView
  BY DEF FilesInit, SelectedIsInView
<1> QED
  BY <1>1, <1>2, <1>3 DEF FInv

LEMMA FInvIsInductive == FInv /\ [FilesNext]_fvars => FInv'
<1> SUFFICES ASSUME FInv, [FilesNext]_fvars PROVE FInv'
  OBVIOUS
<1>1. CASE UNCHANGED fvars
  BY <1>1 DEF fvars, gvars, files, link, look, past, FInv, CallsOK, ButtonsOK, Pending,
     SelectedIsInView
<1>2. CASE /\ UNCHANGED files
           /\ Deliver \/ Elsewhere \/ Authentication \/ Loss
  <2>1. PagesInv'
    BY <1>2, DeliverPreserves, ElsewherePreserves, ConnectionPreserves DEF FInv, PagesInv
  <2> QED
    BY <1>2, <2>1 DEF files, FInv, PagesInv, SelectedIsInView
<1>3. CASE ClickElsewhere
  <2>1. PagesInv'
    BY <1>3, ClickPreserves DEF ClickElsewhere, FInv, PagesInv
  <2> QED
    BY <1>3, <2>1 DEF ClickElsewhere, FInv, PagesInv, SelectedIsInView
<1> QED
  BY <1>1, <1>2, <1>3, UseFilesPreserves, DeliverFilesPreserves DEF FilesNext, Untouched

LEMMA FInvHolds == FilesSpec => []FInv
BY FilesInitEstablishes, FInvIsInductive, PTL DEF FilesSpec

\* What is saved, renamed or deleted is the file in view, though a file that was
\* asked for arrives at any time (main.ts 1374, 1382, 1460).
THEOREM SelectedFileIsInView == FilesSpec => []SelectedIsInView
<1>1. FInv => SelectedIsInView
  BY DEF FInv
<1> QED
  BY <1>1, FInvHolds, PTL

\* The buttons of the updates and the remote access pages are enabled exactly
\* while the interface is online, unless the connection changed under a load
\* (main.ts 705, 1073, 2464).
THEOREM PageButtonsFollowConnection == FilesSpec => []ButtonsFollowConnection
<1>1. FInv => ButtonsFollowConnection
  <2> SUFFICES ASSUME FInv, Quiet, ~overtaken, NEW b \in Page
               PROVE  enabled[b] = (conn = "online")
    BY DEF ButtonsFollowConnection, Page
  <2>1. ~Pending({LoadOf(b)})
    BY DEF Quiet, Idle, Pending, LoadOf
  <2> QED
    BY <2>1 DEF FInv, ButtonsOK
<1> QED
  BY <1>1, FInvHolds, PTL

-----------------------------------------------------------------------------
(* The order of the listings, the opens and the saves *)

\* The listing that is answered last.
LastList(c) ==
    /\ call[c].step = "list"
    /\ \A d \in Call : call[d].step = "list" => ~Before(c, d)

\* The last listing asked for is of the current path.
ListOK ==
    ~faltered =>
        /\ \A c \in Call : LastList(c) => call[c].place = path
        /\ Pending({"list"}) \/ rows = NoPlace \/ (rows = path /\ label = path)

\* Saves are answered before the file that was asked for after them, and are of the
\* file the editor shows.
EditorOK ==
    ~hurried =>
        /\ \A c, d \in Call : call[c].step = "read" /\ call[d].step = "read" => c = d
        /\ \A c, d \in Call : call[c].step = "read" /\ call[d].step = "write" => Before(d, c)
        /\ editor # NoPlace =>
             /\ ~Pending({"read"})
             /\ \A c \in Call : call[c].step = "write" => call[c].place = editor
             /\ mark \in {NoPlace, editor}

PlacesOK ==
    \A c \in Call :
        /\ call[c].step = "list" => call[c].place \in Directory
        /\ call[c].step \in {"read", "write"} => call[c].place \in File

FilesTyped ==
    /\ path \in Directory /\ label \in Directory
    /\ rows \in Directory \cup {NoPlace}
    /\ selected \in Place \cup {NoPlace} /\ menu \in Place \cup {NoPlace}
    /\ editor \in File \cup {NoPlace} /\ mark \in File \cup {NoPlace}
    /\ faltered \in BOOLEAN /\ hurried \in BOOLEAN

Order == ListOK /\ EditorOK /\ PlacesOK /\ FilesTyped

FilesInv == FInv /\ GInv /\ PastTyped /\ Order

USE DEF Places

\* A call that is no listing moves.
LEMMA ListIsKept ==
  ASSUME ListOK, NEW c \in Call, Shift(c), call[c].step # "list", call'[c].step # "list",
         UNCHANGED <<path, label, rows>>, faltered => faltered'
  PROVE  ListOK'
<1> SUFFICES ASSUME ~faltered' PROVE ListOK'
  BY DEF ListOK
<1>1. ASSUME NEW d \in Call, LastList(d)' PROVE call'[d].place = path'
  <2>1. LastList(d)
    BY <1>1 DEF LastList, Shift
  <2> QED
    BY <1>1, <2>1 DEF ListOK, LastList, Shift
<1>2. Pending({"list"}) => Pending({"list"})'
  BY DEF Pending, Shift
<1> QED
  BY <1>1, <1>2 DEF ListOK

\* A directory is asked for: its listing is the last.
LEMMA ListIsAsked ==
  ASSUME NEW c \in Call, Shift(c), call'[c].step = "list", call'[c].place = path'
  PROVE  ListOK'
<1>1. "list" \in Native
  BY DEF Native, Steps, Filing, Outside
<1>2. ASSUME NEW d \in Call, LastList(d)' PROVE call'[d].place = path'
  BY <1>1, <1>2 DEF LastList, Shift
<1>3. Pending({"list"})'
  BY DEF Pending
<1> QED
  BY <1>2, <1>3 DEF ListOK

\* A listing arrives.
LEMMA ListArrives ==
  ASSUME ListOK, WireOK, wire # <<>>, NEW c \in Call, c = Head(wire), Shift(c),
         call[c].step = "list", call'[c].step = "idle",
         rows' = call[c].place, label' = path, UNCHANGED path, faltered => faltered'
  PROVE  ListOK'
<1> SUFFICES ASSUME ~faltered' PROVE ListOK'
  BY DEF ListOK
<1>1. "list" \in Native
  BY DEF Native, Steps, Filing, Outside
<1>2. \A d \in Call \ {c} : call[d].step = "list" => Before(c, d) /\ ~Before(d, c)
  BY <1>1, HeadIsFirst, OneOrder
<1>3. ~Before(c, c)
  BY OneOrder
<1>4. ASSUME NEW d \in Call, LastList(d)' PROVE call'[d].place = path'
  <2>1. LastList(d)
    BY <1>2, <1>4 DEF LastList, Shift
  <2> QED
    BY <1>4, <2>1 DEF ListOK, LastList, Shift
<1>5. Pending({"list"})' \/ (rows' = path' /\ label' = path')
  <2>1. CASE \E d \in Call \ {c} : call[d].step = "list"
    BY <2>1 DEF Pending, Shift
  <2>2. CASE \A d \in Call \ {c} : call[d].step # "list"
    BY <1>3, <2>2 DEF ListOK, LastList
  <2> QED
    BY <2>1, <2>2
<1> QED
  BY <1>4, <1>5 DEF ListOK

\* A call that neither opens nor saves moves.
LEMMA EditorIsKept ==
  ASSUME EditorOK, NEW c \in Call, Shift(c), hurried => hurried',
         call[c].step \notin {"read", "write"}, call'[c].step \notin {"read", "write"},
         editor' \in {NoPlace, editor}, UNCHANGED mark
  PROVE  EditorOK'
BY DEF EditorOK, Shift, Pending

\* A file is asked for, while the editor is closed.
LEMMA ReadIsAsked ==
  ASSUME EditorOK, NEW c \in Call, Shift(c), call[c].step = "idle", call'[c].step = "read",
         hurried' = (hurried \/ Pending({"read"})), editor' = NoPlace
  PROVE  EditorOK'
<1>1. {"read", "write"} \subseteq Native
  BY DEF Native, Steps, Filing, Outside
<1> QED
  BY <1>1 DEF EditorOK, Shift, Pending

\* What the editor shows is saved.
LEMMA WriteIsAsked ==
  ASSUME EditorOK, NEW c \in Call, Shift(c), call[c].step = "idle", call'[c].step = "write",
         call'[c].place = editor, editor # NoPlace, mark' = NoPlace, UNCHANGED <<editor, hurried>>
  PROVE  EditorOK'
BY DEF EditorOK, Shift, Pending

\* A file arrives, or cannot be read.
LEMMA ReadArrives ==
  ASSUME EditorOK, WireOK, wire # <<>>, NEW c \in Call, c = Head(wire), Shift(c),
         call[c].step = "read", call'[c].step = "idle", UNCHANGED hurried,
         UNCHANGED <<editor, mark>> \/ (editor' = call[c].place /\ mark' = NoPlace)
  PROVE  EditorOK'
<1> SUFFICES ASSUME ~hurried' PROVE EditorOK'
  BY DEF EditorOK
<1>1. {"read", "write"} \subseteq Native
  BY DEF Native, Steps, Filing, Outside
<1>2. \A d \in Call : call[d].step # "write"
  BY <1>1, HeadIsFirst, OneOrder DEF EditorOK
<1>3. \A d \in Call : call'[d].step \notin {"read", "write"}
  BY <1>2 DEF EditorOK, Shift
<1> QED
  BY <1>3 DEF EditorOK, Pending

\* A save has ended.
LEMMA WriteEnds ==
  ASSUME EditorOK, NEW c \in Call, Shift(c), call[c].step = "write",
         call'[c].step \notin {"read", "write"}, mark' = call[c].place,
         UNCHANGED <<editor, hurried>>
  PROVE  EditorOK'
BY DEF EditorOK, Shift, Pending

\* What is about the files page, and not about the panels or the connection.
view == <<path, label, rows, selected, editor, mark, faltered, hurried>>

\* No other call touches the listings, the opens and the saves.
LEMMA PagesKeepOrder ==
  ASSUME FilesInv, GInv', PagesNext, UNCHANGED view, menu' \in {menu, NoPlace}
  PROVE  Order'
<1>0. UNCHANGED <<path, label, rows, selected, editor, mark, faltered, hurried>>
  BY DEF view
<1>1. FilesTyped'
  BY <1>0 DEF FilesInv, Order, FilesTyped, Directory, File
<1>2. CASE UNCHANGED <<call, wire>>
  <2>1. \A d, e : Before(d, e)' <=> Before(d, e)
    BY <1>2 DEF Before, Precedes
  <2>2. ListOK'
    BY <1>0, <1>2, <2>1 DEF FilesInv, Order, ListOK, LastList, Pending
  <2>3. EditorOK'
    BY <1>0, <1>2, <2>1 DEF FilesInv, Order, EditorOK, Pending
  <2>4. PlacesOK'
    BY <1>2 DEF FilesInv, Order, PlacesOK, Directory, File
  <2> QED
    BY <1>1, <2>2, <2>3, <2>4 DEF Order
<1>3. ASSUME NEW c \in Call, Ready(c), call[c].step \notin Filing, Moves(c, PageSteps)
      PROVE  Order'
  <2>1. session' \in 0..MaxSession /\ PageSteps \in SUBSET Steps
    BY DEF GInv, LinkInv, LinkTyped, PageSteps
  <2>2. Shift(c) /\ call'[c].step \in PageSteps \cup {"idle"}
    BY <1>3, <2>1, MovesShift DEF FilesInv
  <2>3. /\ call[c].step \notin {"list", "read", "write"}
        /\ call'[c].step \notin {"list", "read", "write"}
    BY <1>3, <2>2 DEF Filing, PageSteps
  <2>4. ListOK'
    BY <1>0, <2>2, <2>3, ListIsKept DEF FilesInv, Order
  <2>5. EditorOK'
    BY <1>0, <2>2, <2>3, EditorIsKept DEF FilesInv, Order
  <2>6. PlacesOK'
    BY <2>2, <2>3 DEF FilesInv, Order, PlacesOK, Shift, Directory, File
  <2> QED
    BY <1>1, <2>4, <2>5, <2>6 DEF Order
<1> QED
  BY <1>2, <1>3, PagesMove

LEMMA NamesArePlaces ==
  /\ Directory \subseteq Place /\ File \subseteq Place
  /\ Folder \subseteq Directory /\ Home \in Directory /\ Home \notin Folder
  /\ NoPlace \notin Directory /\ NoPlace \notin File
  /\ \A d : Entries(d) \subseteq Place
  /\ \A d, e : e \in Entries(d) /\ e \notin Folder => e \in File
BY PagesAssumption, FilesAssumption DEF Directory, File, Entries

\* What a call that begins or ends in the files page waits for next.
LEMMA FilingMoves ==
  ASSUME FilesInv, UNCHANGED link, NEW c \in Call, Ready(c),
         NEW step \in Filing, NEW place \in Places,
         \/ Finished(c)
         \/ step \in Native /\ Await(c, step, place)
         \/ step \in Outside /\ AwaitOutside(c, step, place)
  PROVE  /\ Moves(c, Filing) /\ Shift(c)
         /\ \/ Finished(c) /\ call'[c].step = "idle"
            \/ call'[c].step = step /\ call'[c].place = place
<1>1. Moves(c, Filing)
  BY DEF Moves
<1>2. session' \in 0..MaxSession /\ Filing \in SUBSET Steps
  BY SessionStays DEF FilesInv, Steps
<1>3. Shift(c)
  BY <1>1, <1>2, MovesShift DEF FilesInv
<1>4. DOMAIN call = Call
  BY DEF FilesInv, GInv, CallsTyped
<1>5. \/ Finished(c) /\ call'[c].step = "idle"
      \/ call'[c].step = step /\ call'[c].place = place
  BY <1>4, SuspendIs, FinishedIs DEF Await, AwaitOutside
<1> QED
  BY <1>1, <1>3, <1>5

\* A directory is asked for, by a call that neither lists, opens nor saves ...
LEMMA LoadFilesIs ==
  ASSUME FilesInv, UNCHANGED link, NEW c \in Call, Ready(c), NEW d \in Directory,
         LoadFiles(c, d)
  PROVE  /\ Moves(c, Filing) /\ Shift(c) /\ call'[c].step \in {"idle", "list"}
         /\ path' = d /\ (faltered => faltered') /\ faltered' \in BOOLEAN
         /\ call'[c].step = "list" => call'[c].place = d
         /\ ListOK'
<1>1. "list" \in Filing \cap Native /\ d \in Places
  BY NamesArePlaces DEF Filing, Native, Steps, Outside
<1>2. /\ path' = d /\ (faltered => faltered') /\ faltered' \in BOOLEAN
      /\ \/ Await(c, "list", d)
         \/ Finished(c) /\ faltered'
  BY DEF LoadFiles, FilesInv, Order, FilesTyped
<1>3. /\ Moves(c, Filing) /\ Shift(c)
      /\ \/ Finished(c) /\ call'[c].step = "idle"
         \/ call'[c].step = "list" /\ call'[c].place = d
  BY <1>1, <1>2, FilingMoves
<1>4. CASE call'[c].step = "list" /\ call'[c].place = d
  BY <1>2, <1>3, <1>4, ListIsAsked
<1>5. CASE faltered'
  BY <1>2, <1>3, <1>5 DEF ListOK
<1>6. CASE Await(c, "list", d)
  <2>1. call'[c].step = "list"
    BY <1>6, AwaitIs DEF FilesInv, GInv
  <2> QED
    BY <1>3, <1>4, <2>1
<1> QED
  BY <1>2, <1>3, <1>5, <1>6

\* The user acts in the files page ...
LEMMA UseFilesKeepsOrder ==
  ASSUME FilesInv, FInv', UseFiles
  PROVE  GInv' /\ Order'
<1>0. UNCHANGED <<link, look, crossed>> /\ Remember /\ ClickFiles
  BY DEF UseFiles, Step
<1>1. CASE \/ editor = NoPlace /\ ShowFileContextMenu
           \/ CloseEditor
  <2>0. UNCHANGED <<call, wire, path, label, rows, mark, faltered, hurried>>
        /\ editor' \in {NoPlace, editor}
    BY <1>1 DEF ShowFileContextMenu, CloseEditor
  <2>1. \A d, e : Before(d, e)' <=> Before(d, e)
    BY <2>0 DEF Before, Precedes
  <2>2. ListOK'
    BY <2>0, <2>1 DEF FilesInv, Order, ListOK, LastList, Pending
  <2>3. EditorOK'
    BY <2>0, <2>1 DEF FilesInv, Order, EditorOK, Pending
  <2>4. PlacesOK'
    BY <2>0 DEF FilesInv, Order, PlacesOK, Directory, File
  <2>5. selected' \in Place \cup {NoPlace} /\ menu' \in Place \cup {NoPlace}
    BY <1>1, NamesArePlaces DEF FilesInv, Order, FilesTyped, ShowFileContextMenu, CloseEditor
  <2>6. FilesTyped'
    BY <2>0, <2>5 DEF FilesInv, Order, FilesTyped, Directory, File
  <2>7. GInv'
    BY <1>0, <2>0, FilingStep DEF FilesInv
  <2> QED
    BY <2>2, <2>3, <2>4, <2>6, <2>7 DEF Order
<1>2. ASSUME NEW c \in Call, call[c] = Idle, SaveRemoteFile(c), menu' = NoPlace
      PROVE  GInv' /\ Order'
  <2>0. /\ Ready(c) /\ call[c].step = "idle"
        /\ UNCHANGED <<path, label, rows, selected, editor, faltered, hurried>>
        /\ editor # NoPlace /\ mark' = NoPlace /\ Await(c, "write", selected)
        /\ selected = editor /\ editor \in File
    BY <1>2 DEF Idle, Ready, SaveRemoteFile, FilesInv, FInv, SelectedIsInView, Order, FilesTyped
  <2>1. "write" \in Filing \cap Native /\ selected \in Places
    BY <2>0, NamesArePlaces DEF Filing, Native, Steps, Outside
  <2>2. Moves(c, Filing) /\ Shift(c)
    BY <1>0, <2>0, <2>1, FilingMoves
  <2>3. call'[c].step = "write" /\ call'[c].place = editor
    <3>1. DOMAIN call = Call
      BY DEF FilesInv, GInv, CallsTyped
    <3> QED
      BY <2>0, <3>1, SuspendIs DEF Await
  <2>4. ListOK'
    BY <2>0, <2>2, <2>3, ListIsKept DEF FilesInv, Order
  <2>5. EditorOK'
    BY <2>0, <2>2, <2>3, WriteIsAsked DEF FilesInv, Order
  <2>6. PlacesOK'
    BY <2>0, <2>2, <2>3 DEF FilesInv, Order, PlacesOK, Shift, Directory, File
  <2>7. FilesTyped'
    BY <1>2, <2>0 DEF FilesInv, Order, FilesTyped, Directory, File
  <2>8. GInv'
    BY <1>0, <2>0, <2>2, FilingStep DEF FilesInv
  <2> QED
    BY <2>4, <2>5, <2>6, <2>7, <2>8 DEF Order
<1>3. ASSUME NEW c \in Call, call[c] = Idle, editor = NoPlace,
             menu' = NoPlace, UNCHANGED <<label, rows, editor, mark>>,
             UsePage(c) \/ UseRow(c) \/ UseMenu(c)
      PROVE  GInv' /\ Order'
  <2>0. Ready(c) /\ call[c].step = "idle" /\ UNCHANGED selected
    BY <1>3 DEF Idle, Ready, UsePage, UseRow, UseMenu
  <2>1. CASE (\E d \in Directory : LoadFiles(c, d)) /\ UNCHANGED hurried
    <3>1. PICK d \in Directory : LoadFiles(c, d)
      BY <2>1
    <3>2. /\ Moves(c, Filing) /\ Shift(c) /\ call'[c].step \in {"idle", "list"}
          /\ path' = d /\ faltered' \in BOOLEAN
          /\ call'[c].step = "list" => call'[c].place = d
          /\ ListOK'
      BY <1>0, <2>0, <3>1, LoadFilesIs
    <3>3. EditorOK'
      BY <1>3, <2>0, <2>1, <3>2, EditorIsKept DEF FilesInv, Order
    <3>4. PlacesOK'
      BY <3>2 DEF FilesInv, Order, PlacesOK, Shift, Directory, File
    <3>5. FilesTyped'
      BY <1>3, <2>0, <2>1, <3>2 DEF FilesInv, Order, FilesTyped, Directory, File
    <3>6. GInv'
      BY <1>0, <2>0, <3>2, FilingStep DEF FilesInv
    <3> QED
      BY <3>2, <3>3, <3>4, <3>5, <3>6 DEF Order
  <2>2. CASE (\E e : OpenRemoteFile(c, e)) /\ UNCHANGED <<path, faltered>>
    <3>1. PICK e \in File : /\ Await(c, "read", e)
                            /\ hurried' = (hurried \/ Pending({"read"}))
      BY <2>2 DEF OpenRemoteFile
    <3>2. "read" \in Filing \cap Native /\ e \in Places
      BY NamesArePlaces DEF Filing, Native, Steps, Outside
    <3>3. Moves(c, Filing) /\ Shift(c)
      BY <1>0, <2>0, <3>1, <3>2, FilingMoves
    <3>4. call'[c].step = "read" /\ call'[c].place = e
      <4>1. DOMAIN call = Call
        BY DEF FilesInv, GInv, CallsTyped
      <4> QED
        BY <3>1, <4>1, SuspendIs DEF Await
    <3>5. ListOK'
      BY <1>3, <2>0, <2>2, <3>3, <3>4, ListIsKept DEF FilesInv, Order
    <3>6. EditorOK'
      BY <1>3, <2>0, <3>1, <3>3, <3>4, ReadIsAsked DEF FilesInv, Order
    <3>7. PlacesOK'
      BY <3>3, <3>4 DEF FilesInv, Order, PlacesOK, Shift, Directory, File
    <3>8. hurried' \in BOOLEAN
      BY <3>1 DEF FilesInv, Order, FilesTyped
    <3>9. FilesTyped'
      BY <1>3, <2>0, <2>2, <3>8 DEF FilesInv, Order, FilesTyped, Directory, File
    <3>10. GInv'
      BY <1>0, <2>0, <3>3, FilingStep DEF FilesInv
    <3> QED
      BY <3>5, <3>6, <3>7, <3>9, <3>10 DEF Order
  <2>3. CASE /\ Create(c) \/ UploadFile(c) \/ ChangeEntry(c) \/ DownloadFile(c)
             /\ UNCHANGED <<path, faltered, hurried>>
    <3>1. /\ "change" \in Filing \cap Native /\ "choose" \in Filing \cap Outside
          /\ path \in Places /\ selected \in Places /\ NoPlace \in Places
      BY NamesArePlaces DEF Filing, Native, Steps, Outside, FilesInv, Order, FilesTyped
    <3>2. \E place \in Places : Await(c, "change", place) \/ AwaitOutside(c, "choose", place)
      BY <2>3, <3>1 DEF Create, UploadFile, ChangeEntry, DownloadFile
    <3>3. Moves(c, Filing) /\ Shift(c) /\ call'[c].step \in {"idle", "change", "choose"}
      BY <1>0, <2>0, <3>1, <3>2, FilingMoves
    <3>4. ListOK'
      BY <1>3, <2>0, <2>3, <3>3, ListIsKept DEF FilesInv, Order
    <3>5. EditorOK'
      BY <1>3, <2>0, <2>3, <3>3, EditorIsKept DEF FilesInv, Order
    <3>6. PlacesOK'
      BY <3>3 DEF FilesInv, Order, PlacesOK, Shift, Directory, File
    <3>7. FilesTyped'
      BY <1>3, <2>0, <2>3 DEF FilesInv, Order, FilesTyped, Directory, File
    <3>8. GInv'
      BY <1>0, <2>0, <3>3, FilingStep DEF FilesInv
    <3> QED
      BY <3>4, <3>5, <3>6, <3>7, <3>8 DEF Order
  <2>4. path \in Directory /\ Home \in Directory /\ Folder \subseteq Directory
    BY NamesArePlaces DEF FilesInv, Order, FilesTyped
  <2>5. CASE UsePage(c)
    BY <2>1, <2>3, <2>4, <2>5 DEF UsePage
  <2>6. CASE UseRow(c)
    BY <2>1, <2>2, <2>4, <2>6 DEF UseRow
  <2>7. CASE UseMenu(c)
    BY <2>1, <2>2, <2>3, <2>4, <2>7 DEF UseMenu
  <2> QED
    BY <1>3, <2>5, <2>6, <2>7
<1> QED
  BY <1>0, <1>1, <1>2, <1>3 DEF ClickFiles

\* ... and its calls go on: the list, the editor and the marks change.
LEMMA DeliverFilesKeepsOrder ==
  ASSUME FilesInv, DeliverFiles
  PROVE  GInv' /\ Order'
<1>0. UNCHANGED <<link, look, menu, hurried, crossed>> /\ Remember
  BY DEF DeliverFiles
<1>1. ASSUME NEW c \in Call, wire # <<>>, c = Head(wire), NEW ok \in BOOLEAN,
             call[c].step = "list", AfterList(c, ok)
      PROVE  GInv' /\ Order'
  <2>0. /\ Ready(c) /\ Finished(c) /\ UNCHANGED <<path, selected, editor, mark>>
        /\ faltered' = (faltered \/ ~ok)
        /\ IF ok THEN rows' = call[c].place /\ label' = path ELSE UNCHANGED <<rows, label>>
    BY <1>1 DEF Ready, AfterList
  <2>1. Moves(c, Filing) /\ Shift(c) /\ call'[c].step = "idle"
    <3>1. "list" \in Filing /\ NoPlace \in Places
      BY DEF Filing
    <3>2. DOMAIN call = Call
      BY DEF FilesInv, GInv, CallsTyped
    <3> QED
      BY <1>0, <2>0, <3>1, <3>2, FilingMoves, FinishedIs
  <2>2. ListOK'
    <3>1. CASE ok
      BY <1>1, <2>0, <2>1, <3>1, ListArrives DEF FilesInv, GInv, Order
    <3>2. CASE ~ok
      BY <2>0, <3>2 DEF ListOK
    <3> QED
      BY <3>1, <3>2
  <2>3. EditorOK'
    BY <1>0, <1>1, <2>0, <2>1, EditorIsKept DEF FilesInv, Order
  <2>4. PlacesOK'
    BY <2>1 DEF FilesInv, Order, PlacesOK, Shift, Directory, File
  <2>5. call[c].place \in Directory
    BY <1>1 DEF FilesInv, Order, PlacesOK
  <2>6. rows' \in Directory \cup {NoPlace} /\ label' \in Directory /\ faltered' \in BOOLEAN
    BY <2>0, <2>5 DEF FilesInv, Order, FilesTyped
  <2>7. FilesTyped'
    BY <1>0, <2>0, <2>6 DEF FilesInv, Order, FilesTyped, Directory, File
  <2>8. GInv'
    BY <1>0, <1>1, <2>0, <2>1, FilingStep DEF FilesInv, Filing
  <2> QED
    BY <2>2, <2>3, <2>4, <2>7, <2>8 DEF Order
<1>2. ASSUME NEW c \in Call, wire # <<>>, c = Head(wire), NEW ok \in BOOLEAN,
             call[c].step = "read", AfterRead(c, ok)
      PROVE  GInv' /\ Order'
  <2>0. /\ Ready(c) /\ Finished(c) /\ UNCHANGED <<path, label, rows, faltered>>
        /\ \/ UNCHANGED <<editor, selected, mark>>
           \/ editor' = call[c].place /\ selected' = call[c].place /\ mark' = NoPlace
    BY <1>2 DEF Ready, AfterRead
  <2>1. Moves(c, Filing) /\ Shift(c) /\ call'[c].step = "idle"
    <3>1. "list" \in Filing /\ NoPlace \in Places
      BY DEF Filing
    <3>2. DOMAIN call = Call
      BY DEF FilesInv, GInv, CallsTyped
    <3> QED
      BY <1>0, <2>0, <3>1, <3>2, FilingMoves, FinishedIs
  <2>2. ListOK'
    BY <1>2, <2>0, <2>1, ListIsKept DEF FilesInv, Order
  <2>3. EditorOK'
    BY <1>0, <1>2, <2>0, <2>1, ReadArrives DEF FilesInv, GInv, Order
  <2>4. PlacesOK'
    BY <2>1 DEF FilesInv, Order, PlacesOK, Shift, Directory, File
  <2>5. call[c].place \in File
    BY <1>2 DEF FilesInv, Order, PlacesOK
  <2>6. FilesTyped'
    BY <1>0, <2>0, <2>5, NamesArePlaces DEF FilesInv, Order, FilesTyped, Directory, File
  <2>7. GInv'
    BY <1>0, <1>2, <2>0, <2>1, FilingStep DEF FilesInv, Filing
  <2> QED
    BY <2>2, <2>3, <2>4, <2>6, <2>7 DEF Order
\* A change or a save has ended: the directory is loaded again, if it went well.
<1>3. ASSUME NEW c \in Call, wire # <<>>, c = Head(wire), NEW ok \in BOOLEAN,
             call[c].step \in {"write", "change"}, Reload(c, ok),
             mark' = IF call[c].step = "write" THEN call[c].place ELSE mark
      PROVE  GInv' /\ Order'
  <2>0. Ready(c) /\ UNCHANGED <<label, rows, selected, editor>>
    BY <1>3 DEF Ready, Reload
  <2>1. /\ Moves(c, Filing) /\ Shift(c) /\ call'[c].step \in {"idle", "list"}
        /\ call'[c].step = "list" => call'[c].place \in Directory
        /\ path' \in Directory /\ faltered' \in BOOLEAN
        /\ ListOK'
    <3>1. CASE ok
      <4>1. LoadFiles(c, path) /\ path \in Directory
        BY <1>3, <3>1 DEF Reload, FilesInv, Order, FilesTyped
      <4> QED
        BY <1>0, <2>0, <4>1, LoadFilesIs
    <3>2. CASE ~ok
      <4>1. Finished(c) /\ UNCHANGED <<path, faltered>>
        BY <1>3, <3>2 DEF Reload
      <4>2. "list" \in Filing /\ NoPlace \in Places /\ DOMAIN call = Call
        BY DEF Filing, FilesInv, GInv, CallsTyped
      <4>3. Moves(c, Filing) /\ Shift(c) /\ call'[c].step = "idle"
        BY <1>0, <2>0, <4>1, <4>2, FilingMoves, FinishedIs
      <4>4. ListOK'
        BY <1>3, <2>0, <4>1, <4>3, ListIsKept DEF FilesInv, Order
      <4> QED
        BY <4>1, <4>3, <4>4 DEF FilesInv, Order, FilesTyped
    <3> QED
      BY <3>1, <3>2
  <2>2. EditorOK'
    <3>1. CASE call[c].step = "write"
      BY <1>0, <1>3, <2>0, <2>1, <3>1, WriteEnds DEF FilesInv, Order
    <3>2. CASE call[c].step = "change"
      BY <1>0, <1>3, <2>0, <2>1, <3>2, EditorIsKept DEF FilesInv, Order
    <3> QED
      BY <1>3, <3>1, <3>2
  <2>3. PlacesOK'
    BY <2>1 DEF FilesInv, Order, PlacesOK, Shift, Directory, File
  <2>4. mark' \in File \cup {NoPlace}
    BY <1>3 DEF FilesInv, Order, PlacesOK, FilesTyped
  <2>5. FilesTyped'
    BY <1>0, <2>0, <2>1, <2>4 DEF FilesInv, Order, FilesTyped, Directory, File
  <2>6. GInv'
    BY <1>0, <1>3, <2>0, <2>1, FilingStep DEF FilesInv, Filing
  <2> QED
    BY <2>1, <2>2, <2>3, <2>5, <2>6 DEF Order
\* A transfer goes on, or ends.
<1>4. ASSUME NEW c \in Call, Ready(c), call[c].step \in {"choose", "download"},
             NEW chosen \in BOOLEAN, AfterChoose(c, chosen) \/ AfterDownload(c)
      PROVE  GInv' /\ Order'
  <2>0. UNCHANGED <<path, label, rows, selected, editor, mark, faltered>>
    BY <1>4 DEF AfterChoose, AfterDownload
  <2>1. /\ "change" \in Filing \cap Native /\ "download" \in Filing \cap Native
        /\ path \in Places /\ call[c].place \in Places
    BY NamesArePlaces DEF Filing, Native, Steps, Outside, FilesInv, Order, FilesTyped, GInv, CallsTyped
  <2>2. \/ Finished(c) \/ Await(c, "change", path) \/ Await(c, "download", call[c].place)
    BY <1>4 DEF AfterChoose, AfterDownload
  <2>3. Moves(c, Filing) /\ Shift(c) /\ call'[c].step \in {"idle", "change", "download"}
    BY <1>0, <1>4, <2>1, <2>2, FilingMoves
  <2>4. ListOK'
    BY <1>4, <2>0, <2>3, ListIsKept DEF FilesInv, Order
  <2>5. EditorOK'
    BY <1>0, <1>4, <2>0, <2>3, EditorIsKept DEF FilesInv, Order
  <2>6. PlacesOK'
    BY <2>3 DEF FilesInv, Order, PlacesOK, Shift, Directory, File
  <2>7. FilesTyped'
    BY <1>0, <2>0 DEF FilesInv, Order, FilesTyped, Directory, File
  <2>8. GInv'
    BY <1>0, <1>4, <2>3, FilingStep DEF FilesInv, Filing
  <2> QED
    BY <2>4, <2>5, <2>6, <2>7, <2>8 DEF Order
<1>5. ASSUME NEW c \in Call, wire # <<>>, c = Head(wire), NEW ok \in BOOLEAN, ResumeFiles(c, ok)
      PROVE  GInv' /\ Order'
  <2>1. Ready(c)
    BY <1>5 DEF Ready
  <2>2. AfterWrite(c, ok) /\ call[c].step = "write" => GInv' /\ Order'
    BY <1>3, <1>5 DEF AfterWrite
  <2>3. AfterChange(c, ok) /\ call[c].step = "change" => GInv' /\ Order'
    BY <1>3, <1>5 DEF AfterChange
  <2> QED
    BY <1>1, <1>2, <1>4, <1>5, <2>1, <2>2, <2>3 DEF ResumeFiles
<1>6. ASSUME NEW c \in Call, NEW chosen \in BOOLEAN,
             call[c].step = "choose", AfterChoose(c, chosen)
      PROVE  GInv' /\ Order'
  BY <1>4, <1>6 DEF Ready, Outside
<1> QED
  BY <1>5, <1>6 DEF DeliverFiles

LEMMA FilesInvInitially == FilesInit => FilesInv
<1> SUFFICES ASSUME FilesInit PROVE FilesInv
  OBVIOUS
<1>1. FInv /\ GInv
  BY FilesInitEstablishes, GInvInitially DEF FilesInit
<1>2. PastTyped
  <2>1. steps \in 0..MaxSteps
    BY PagesAssumption DEF FilesInit, PagesInit
  <2>2. /\ tour \in {"panels", "power", "files"}
        /\ overtaken = FALSE /\ crossed = FALSE /\ refused = FALSE
    BY DEF FilesInit, PagesInit
  <2>3. overtaken \in BOOLEAN /\ crossed \in BOOLEAN /\ refused \in BOOLEAN
    BY <2>2
  <2> QED
    BY <2>1, <2>2, <2>3 DEF PastTyped
<1>3. \A c \in Call : call[c].step = "idle"
  BY DEF FilesInit, PagesInit, Idle
<1>4. /\ path = Home /\ label = Home /\ rows = NoPlace /\ selected = NoPlace
      /\ menu = NoPlace /\ editor = NoPlace /\ mark = NoPlace
      /\ faltered \in BOOLEAN /\ hurried \in BOOLEAN
  BY DEF FilesInit
<1>5. ListOK /\ EditorOK /\ PlacesOK
  BY <1>3, <1>4 DEF ListOK, LastList, EditorOK, PlacesOK, Pending
<1>6. FilesTyped
  BY <1>4, NamesArePlaces DEF FilesTyped
<1> QED
  BY <1>1, <1>2, <1>5, <1>6 DEF FilesInv, Order

LEMMA FilesInvIsInductive == FilesInv /\ [FilesNext]_fvars => FilesInv'
<1> SUFFICES ASSUME FilesInv, [FilesNext]_fvars PROVE FilesInv'
  OBVIOUS
<1>1. FInv'
  BY FInvIsInductive DEF FilesInv
<1>2. CASE PagesNext /\ UNCHANGED view /\ menu' \in {menu, NoPlace}
  <2>1. GInv' /\ PastTyped'
    BY <1>2, GInvIsInductive, PastIsTyped DEF FilesInv
  <2> QED
    BY <1>1, <1>2, <2>1, PagesKeepOrder DEF FilesInv
<1>3. CASE UNCHANGED fvars
  <2>1. UNCHANGED <<gvars, view, menu>>
    BY <1>3 DEF fvars, files, view
  <2>2. GInv' /\ PastTyped'
    BY <2>1, GInvIsInductive, PastIsTyped DEF FilesInv
  <2>3. UNCHANGED <<call, wire>>
    BY <2>1 DEF gvars
  <2>4. \A d, e : Before(d, e)' <=> Before(d, e)
    BY <2>3 DEF Before, Precedes
  <2>5. UNCHANGED <<path, label, rows, selected, editor, mark, faltered, hurried, menu>>
    BY <2>1 DEF view
  <2>6. ListOK' /\ EditorOK'
    BY <2>3, <2>4, <2>5 DEF FilesInv, Order, ListOK, LastList, EditorOK, Pending
  <2>7. PlacesOK' /\ FilesTyped'
    BY <2>3, <2>5 DEF FilesInv, Order, PlacesOK, FilesTyped, Directory, File
  <2> QED
    BY <1>1, <2>2, <2>6, <2>7 DEF FilesInv, Order
<1>4. CASE UseFiles
  <2>1. PastTyped'
    <3>1. crossed' \in BOOLEAN
      BY <1>4 DEF UseFiles, FilesInv, PastTyped
    <3> QED
      BY <1>4, <3>1, RememberTypes DEF UseFiles, Step, FilesInv
  <2> QED
    BY <1>1, <1>4, <2>1, UseFilesKeepsOrder DEF FilesInv
<1>5. CASE DeliverFiles
  <2>1. PastTyped'
    <3>1. crossed' \in BOOLEAN
      BY <1>5 DEF DeliverFiles, FilesInv, PastTyped
    <3> QED
      BY <1>5, <3>1, RememberTypes DEF DeliverFiles, FilesInv
  <2> QED
    BY <1>1, <1>5, <2>1, DeliverFilesKeepsOrder DEF FilesInv
<1>6. CASE Untouched(Deliver) \/ Untouched(Elsewhere) \/ Untouched(Authentication) \/ Untouched(Loss)
  BY <1>2, <1>6 DEF Untouched, files, view, PagesNext
<1>7. CASE ClickElsewhere
  BY <1>2, <1>7 DEF ClickElsewhere, view, PagesNext
<1> QED
  BY <1>3, <1>4, <1>5, <1>6, <1>7 DEF FilesNext

LEMMA FilesInvHolds == FilesSpec => []FilesInv
BY FilesInvInitially, FilesInvIsInductive, PTL DEF FilesSpec

-----------------------------------------------------------------------------
(* The theorems about the panels, the power button and the files *)

\* The variables keep their types: the sessions stay within their number, and
\* the list and the editor show directories and files of the server.
THEOREM FilesTypeCorrect == FilesSpec => []FilesTypeOK
<1>1. FilesInv => FilesTypeOK
  BY TypesAreOK DEF FilesInv, Order, FilesTyped, FilesTypeOK
<1> QED
  BY <1>1, FilesInvHolds, PTL

\* A panel that is cleared with the connection shows the session that is open,
\* unless the connection changed under a load or the user acted while the server
\* was being switched (main.ts 674, 1041, 1160, 1225, 2442).
THEOREM PanelsAreOfTheOpenSession == FilesSpec => []UndisturbedPanelsAreCurrent
<1>1. FilesInv => UndisturbedPanelsAreCurrent
  BY DEF FilesInv, GInv, LinkInv, PanelsOK, UndisturbedPanelsAreCurrent
<1> QED
  BY <1>1, FilesInvHolds, PTL

\* The power and restart buttons offer to shut down a server exactly while the
\* interface is online, once no switching is under way, unless the user acted in
\* between or the power button's own command or connection failed (main.ts 1194,
\* 1216-1268).
THEOREM PowerButtonFollowsConnection == FilesSpec => []PowerButtonIsRight
<1>1. FilesInv => PowerButtonIsRight
  BY DEF FilesInv, GInv, LinkInv
<1> QED
  BY <1>1, FilesInvHolds, PTL

\* Once no listing is pending, the list is of the directory that the buttons act
\* in and under its name, unless a listing failed or was refused (main.ts 1321,
\* 1355, 2624, 2639).
THEOREM ListedDirectoryIsCurrent == FilesSpec => []ListingIsOfItsPath
<1>1. FilesInv => ListingIsOfItsPath
  BY DEF FilesInv, Order, ListOK, ListingIsOfItsPath
<1> QED
  BY <1>1, FilesInvHolds, PTL

\* The editor never reports the save of another file as its own, unless a file
\* was opened while another was being opened (main.ts 1463, 1466).
THEOREM SaveIsReportedForItsFile == FilesSpec => []MarkIsOfTheFileShown
<1>1. FilesInv => MarkIsOfTheFileShown
  BY DEF FilesInv, Order, EditorOK, MarkIsOfTheFileShown
<1> QED
  BY <1>1, FilesInvHolds, PTL

=============================================================================
