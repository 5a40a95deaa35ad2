--------------------------- MODULE SecurityPanel ----------------------------
(***************************************************************************)
(* The security page's audit and its dialog for one fix (main.ts           *)
(* 2124-2434 and 2560-2563), over the native commands security_audit,      *)
(* security_apply_fix and security_rollback (lib.rs 1656-1717).            *)
(*                                                                         *)
(* The three commands are synchronous: they are served one at a time, in   *)
(* the order they were invoked, and answered in that order.  A function of *)
(* the page suspends at every invoke, and what it touches when it goes on  *)
(* is the dialog that is open THEN: activeSecurityFix is one variable for  *)
(* all of them.                                                            *)
(*                                                                         *)
(* The server is abstracted to the fixes its managed file holds (module    *)
(* Remediation has the helper's own steps) and to the fixes another        *)
(* configuration file overrides.  Every fix is needed to begin with: one   *)
(* that is not is never listed.                                            *)
(*                                                                         *)
(* A command whose time is over kills its ssh client and answers a failure *)
(* (lib.rs 451-461), but its helper goes on at the server: it is then a    *)
(* late helper, whose steps come between whatever is served afterwards.    *)
(***************************************************************************)
EXTENDS Integers, Sequences

CONSTANTS
    Fix,         \* ids of the previews in mode FIX
    Review,      \* ids of the previews in mode REVIEW
    NoFix,       \* activeSecurityFix is null
    MaxSteps     \* bound: what the user and the connection do

ASSUME PanelAssumption ==
    /\ NoFix \notin Fix \cup Review /\ Fix \cap Review = {}
    /\ MaxSteps \in Nat

Call == 1..2                    \* bound: calls of the page that await something
NoBackup == 0                   \* the empty backupPath

\* Bound: one late helper is at work at a time.  A fix still has to read the
\* managed file and add its directive, a rollback only to write.
Helper == [next : {"read", "write"}, fix : SUBSET Fix, content : SUBSET Fix]
NoHelper == [next |-> "nothing", fix |-> {}, content |-> {}]

VARIABLES
    managed,     \* the fixes the managed file holds
    overridden,  \* the fixes that have no effect there
    backups,     \* the backups taken: by which fix, and the managed file before it
    late,        \* the helper of a command that was given up, or NoHelper
    online,      \* state.connection is "online"
    listed,      \* the findings on the page that have a preview in mode FIX
    active,      \* activeSecurityFix; the dialog is open while it is not null
    claim,       \* what the dialog's risk label says
    result,      \* what its result line says
    apply,       \* its apply button
    rollback,    \* its rollback button
    call,        \* where each call of the page is suspended
    inbox,       \* requests not yet served
    replies,     \* replies not yet delivered
    steps,
    abandoned,   \* history: a dialog was closed while a call of it was under way
    unconfirmed, \* history: a failure is shown though the helper works or has worked
    belated,     \* history: a late helper changed the managed file
    overlapped,  \* history: an apply was asked for while another call was under way
    unread       \* history: an audit could not read a setting

server == <<managed, overridden, backups, late>>
dialog == <<active, claim, result, apply, rollback>>
wire == <<inbox, replies>>
history == <<abandoned, unconfirmed, belated, overlapped, unread>>
pvars == <<server, online, listed, dialog, call, wire, steps, history>>

Button == [shown : BOOLEAN, enabled : BOOLEAN]
Backup == NoBackup..MaxSteps
Idle == [step |-> "idle", backup |-> NoBackup]
Closed == [fix |-> NoFix, backup |-> NoBackup, applied |-> FALSE]
Request == [op : {"apply", "rollback", "audit"}, fix : Fix \cup {NoFix},
            backup : Backup, call : Call]
Reply == [ok : BOOLEAN, backup : Backup, required : SUBSET Fix, call : Call]

PanelTypeOK ==
    /\ managed \in SUBSET Fix /\ overridden \in SUBSET Fix
    /\ backups \in Seq([fix : Fix, before : SUBSET Fix]) /\ Len(backups) <= MaxSteps
    /\ late \in Helper \cup {NoHelper}
    /\ online \in BOOLEAN /\ listed \in SUBSET Fix
    /\ active \in [fix : Fix \cup Review \cup {NoFix}, backup : Backup, applied : BOOLEAN]
    /\ claim \in {"none", "ready", "applied"}
    /\ result \in {"none", "busy", "ok", "error"}
    /\ apply \in Button /\ rollback \in Button
    /\ call \in [Call -> [step : {"idle", "applying", "verifying", "undoing",
                                  "rereading", "auditing"}, backup : Backup]]
    /\ inbox \in Seq(Request) /\ replies \in Seq(Reply)
    /\ steps \in 0..MaxSteps
    /\ abandoned \in BOOLEAN /\ unconfirmed \in BOOLEAN /\ overlapped \in BOOLEAN
    /\ unread \in BOOLEAN /\ belated \in BOOLEAN

PanelInit ==
    /\ managed = {} /\ overridden \in SUBSET Fix /\ backups = <<>> /\ late = NoHelper
    /\ online = FALSE /\ listed = {}
    /\ active = Closed /\ claim = "none" /\ result = "none"
    /\ apply = [shown |-> TRUE, enabled |-> TRUE]
    /\ rollback = [shown |-> FALSE, enabled |-> TRUE]
    /\ call = [c \in Call |-> Idle]
    /\ inbox = <<>> /\ replies = <<>> /\ steps = 0
    /\ abandoned = FALSE /\ unconfirmed = FALSE /\ overlapped = FALSE /\ unread = FALSE
    /\ belated = FALSE

Open == active.fix # NoFix
Previews == listed \cup Review  \* getSecurityFixPreview of the page's findings
Working(c) == call[c].step \in {"applying", "verifying", "undoing", "rereading"}
Settled == inbox = <<>> /\ replies = <<>>

-----------------------------------------------------------------------------
(* The native commands *)

\* What the server really needs.
Insecure == (Fix \ managed) \cup overridden

Answer(ok, backup, required) ==
    /\ inbox' = Tail(inbox)
    /\ replies' = Append(replies, [ok |-> ok, backup |-> backup, required |-> required,
                                   call |-> Head(inbox).call])

\* A setting the audit could not read is not required (securityFixIsRequired).
ServeAudit ==
    /\ UNCHANGED <<server, unconfirmed>>
    /\ \/ \E required \in SUBSET Insecure :
            /\ Answer(TRUE, NoBackup, required)
            /\ unread' = (unread \/ required # Insecure)
       \/ Answer(FALSE, NoBackup, {}) /\ UNCHANGED unread

\* The command answers a failure at once; its helper is not stopped.
GiveUp(helper) ==
    /\ late = NoHelper
    /\ late' = helper /\ unconfirmed' = TRUE
    /\ Answer(FALSE, NoBackup, {})

\* Faulty variant: the backup is taken after the change.
ServeApplyBacksUpLate(fix) ==
    \/ /\ managed' = managed \cup {fix}
       /\ backups' = Append(backups, [fix |-> fix, before |-> managed \cup {fix}])
       /\ \E ok \in BOOLEAN :
            /\ Answer(ok, IF ok THEN Len(backups') ELSE NoBackup, {})
            /\ unconfirmed' = (unconfirmed \/ ~ok)
       /\ UNCHANGED late
    \/ UNCHANGED <<managed, backups, late, unconfirmed>> /\ Answer(FALSE, NoBackup, {})
    \/ /\ GiveUp([next |-> "read", fix |-> {fix}, content |-> {}])
       /\ UNCHANGED <<managed, backups>>

\* The helper backs the managed file up and adds the directive; its report may
\* be refused or lost.  Or nothing is done, or the command gives its helper up.
\* A helper that is not late works undisturbed here: how several of them
\* interleave is the business of module Remediation.
ServeApply(fix) ==
    \/ /\ managed' = managed \cup {fix}
       /\ backups' = Append(backups, [fix |-> fix, before |-> managed])
       /\ \E ok \in BOOLEAN :
            /\ Answer(ok, IF ok THEN Len(backups') ELSE NoBackup, {})
            /\ unconfirmed' = (unconfirmed \/ ~ok)
       /\ UNCHANGED late
    \/ UNCHANGED <<managed, backups, late, unconfirmed>> /\ Answer(FALSE, NoBackup, {})
    \/ /\ GiveUp([next |-> "read", fix |-> {fix}, content |-> {}])
       /\ UNCHANGED <<managed, backups>>

\* Faulty variant: the oldest backup is restored.
ServeRollbackToOldest(backup) ==
    /\ UNCHANGED backups
    /\ \/ /\ managed' = backups[1].before
          /\ \E ok \in BOOLEAN :
               Answer(ok, NoBackup, {}) /\ unconfirmed' = (unconfirmed \/ ~ok)
          /\ UNCHANGED late
       \/ UNCHANGED <<managed, late, unconfirmed>> /\ Answer(FALSE, NoBackup, {})
       \/ /\ GiveUp([next |-> "write", fix |-> {}, content |-> backups[backup].before])
          /\ UNCHANGED managed

\* The managed file becomes the backup named.
ServeRollback(backup) ==
    /\ UNCHANGED backups
    /\ \/ /\ managed' = backups[backup].before
          /\ \E ok \in BOOLEAN :
               Answer(ok, NoBackup, {}) /\ unconfirmed' = (unconfirmed \/ ~ok)
          /\ UNCHANGED late
       \/ UNCHANGED <<managed, late, unconfirmed>> /\ Answer(FALSE, NoBackup, {})
       \/ /\ GiveUp([next |-> "write", fix |-> {}, content |-> backups[backup].before])
          /\ UNCHANGED managed

Serve ==
    /\ inbox # <<>>
    /\ LET r == Head(inbox) IN
         \/ r.op = "audit" /\ ServeAudit
         \/ r.op = "apply" /\ ServeApply(r.fix) /\ UNCHANGED unread
         \/ r.op = "rollback" /\ ServeRollback(r.backup) /\ UNCHANGED unread
    /\ UNCHANGED <<overridden, online, listed, dialog, call, steps, abandoned, belated,
                   overlapped>>

\* The late helper reads the managed file, writes it, or ends before that.  Its
\* backup is told to nobody, and its signals are left to module Remediation.
Late ==
    /\ late # NoHelper
    /\ \/ /\ late.next = "read"
          /\ late' = [next |-> "write", fix |-> {}, content |-> managed \cup late.fix]
          /\ UNCHANGED managed
       \/ late.next = "write" /\ managed' = late.content /\ late' = NoHelper
       \/ UNCHANGED managed /\ late' = NoHelper
    /\ belated' = (belated \/ managed' # managed)
    /\ UNCHANGED <<overridden, backups, online, listed, dialog, call, wire, steps,
                   abandoned, unconfirmed, overlapped, unread>>

-----------------------------------------------------------------------------
(* What the user and the connection do *)

RenderSecurityAudit(required) == listed' = required
ClearSecurityAuditDisplay == listed' = {}

\* Faulty variant: the command is invoked by a name the native side lacks.
InvokeByAnotherName(op, fix, backup, c) ==
    inbox' = Append(inbox, [op |-> "security", fix |-> fix, backup |-> backup, call |-> c])

Invoke(op, fix, backup, c) ==
    inbox' = Append(inbox, [op |-> op, fix |-> fix, backup |-> backup, call |-> c])
Suspend(c, step, backup) == call' = [call EXCEPT ![c] = [step |-> step, backup |-> backup]]

\* Faulty variant: the last backup taken is offered.
PrepareOffersLast(id) ==
    /\ ~Open
    /\ active' = [fix |-> id, backup |-> Len(backups), applied |-> FALSE]
    /\ claim' = "ready" /\ result' = "none"
    /\ apply' = [shown |-> id \in Fix, enabled |-> TRUE]
    /\ rollback' = [rollback EXCEPT !.shown = backups # <<>>]
    /\ UNCHANGED <<online, listed, call, inbox, abandoned, overlapped>>

\* prepareSecurityFix, on a finding of the page that has a preview.
Prepare(id) ==
    /\ ~Open
    /\ active' = [fix |-> id, backup |-> NoBackup, applied |-> FALSE]
    /\ claim' = "ready" /\ result' = "none"
    /\ apply' = [shown |-> id \in Fix, enabled |-> TRUE]
    /\ rollback' = [rollback EXCEPT !.shown = FALSE]
    /\ UNCHANGED <<online, listed, call, inbox, abandoned, overlapped>>

\* closeSecurityFixPreview
Close ==
    /\ Open
    /\ active' = Closed
    /\ abandoned' = (abandoned \/ \E c \in Call : Working(c))
    /\ UNCHANGED <<online, listed, claim, result, apply, rollback, call, inbox, overlapped>>

\* applySecurityFix up to its first await, for a user who confirms.
ApplySecurityFix(c) ==
    /\ active.fix \in Fix /\ online /\ apply.shown /\ apply.enabled
    /\ apply' = [apply EXCEPT !.enabled = FALSE]
    /\ rollback' = [rollback EXCEPT !.shown = FALSE]
    /\ result' = "busy"
    /\ Invoke("apply", active.fix, NoBackup, c) /\ Suspend(c, "applying", NoBackup)
    /\ overlapped' = (overlapped \/ \E d \in Call : Working(d))
    /\ UNCHANGED <<online, listed, active, claim, abandoned>>

\* rollbackSecurityFix up to its first await, for a user who confirms.
RollbackSecurityFix(c) ==
    /\ active.backup # NoBackup /\ online /\ rollback.shown /\ rollback.enabled
    /\ rollback' = [rollback EXCEPT !.enabled = FALSE]
    /\ result' = "busy"
    /\ Invoke("rollback", NoFix, active.backup, c) /\ Suspend(c, "undoing", NoBackup)
    /\ UNCHANGED <<online, listed, active, claim, apply, abandoned, overlapped>>

\* loadSecurityAudit up to its await: the page is opened or refreshed.
LoadSecurityAudit(c) ==
    /\ online /\ ~Open
    /\ Invoke("audit", NoFix, NoBackup, c) /\ Suspend(c, "auditing", NoBackup)
    /\ UNCHANGED <<online, listed, dialog, abandoned, overlapped>>

\* The connection comes and goes whatever is open; its end clears the page
\* (clearSecurityAuditDisplay), not the dialog.
ConnectionChanges ==
    /\ online' = ~online
    /\ IF online THEN ClearSecurityAuditDisplay ELSE UNCHANGED listed
    /\ UNCHANGED <<dialog, call, inbox, abandoned, overlapped>>

Step ==
    /\ steps < MaxSteps /\ steps' = steps + 1
    /\ \/ \E id \in Previews : Prepare(id)
       \/ Close
       \/ ConnectionChanges
       \/ \E c \in Call :
            /\ call[c] = Idle
            /\ ApplySecurityFix(c) \/ RollbackSecurityFix(c) \/ LoadSecurityAudit(c)
    /\ UNCHANGED <<server, replies, unconfirmed, belated, unread>>

-----------------------------------------------------------------------------
(* The calls go on *)

Finished(c) == call' = [call EXCEPT ![c] = Idle] /\ UNCHANGED inbox
Unapplied == active' = [active EXCEPT !.applied = FALSE]

\* Faulty variant: without the finally block.
ApplyFailsForGood(c) ==
    /\ result' = "error"
    /\ Finished(c)
    /\ UNCHANGED <<listed, claim, apply, rollback>>

\* The catch and finally blocks of applySecurityFix.
ApplyFails(c) ==
    /\ result' = "error"
    /\ apply' = [apply EXCEPT !.enabled = TRUE]
    /\ Finished(c)
    /\ UNCHANGED <<listed, claim, rollback>>

\* The catch and finally blocks of rollbackSecurityFix.
RollbackFails(c) ==
    /\ result' = "error"
    /\ rollback' = [rollback EXCEPT !.enabled = TRUE]
    /\ Finished(c)
    /\ UNCHANGED <<listed, active, claim, apply>>

\* A result without its parts raises.  loadSecurityEffectiveDurum asks for no
\* audit while offline.
AfterApply(c, r) ==
    LET complete == r.ok /\ r.backup # NoBackup IN
      \/ complete /\ online
         /\ Invoke("audit", NoFix, NoBackup, c) /\ Suspend(c, "verifying", r.backup)
         /\ UNCHANGED <<listed, dialog>>
      \/ complete /\ ~online /\ Unapplied /\ ApplyFails(c)
      \/ ~complete /\ UNCHANGED active /\ ApplyFails(c)

\* Faulty variant: what was applied is not looked at again.
AfterVerifyTrusting(c, r) ==
    IF ~r.ok \/ ~Open
      THEN Unapplied /\ ApplyFails(c)
      ELSE /\ active' = [active EXCEPT !.backup = call[c].backup, !.applied = TRUE]
           /\ claim' = "applied" /\ result' = "ok"
           /\ rollback' = [rollback EXCEPT !.shown = TRUE]
           /\ apply' = [shown |-> FALSE, enabled |-> TRUE]
           /\ RenderSecurityAudit(r.required)
           /\ Finished(c)

\* The effective configuration decides; a dialog closed meanwhile raises.
AfterVerify(c, r) ==
    IF ~r.ok \/ ~Open \/ active.fix \in r.required
      THEN Unapplied /\ ApplyFails(c)
      ELSE /\ active' = [active EXCEPT !.backup = call[c].backup, !.applied = TRUE]
           /\ claim' = "applied" /\ result' = "ok"
           /\ rollback' = [rollback EXCEPT !.shown = TRUE]
           /\ apply' = [shown |-> FALSE, enabled |-> TRUE]
           /\ RenderSecurityAudit(r.required)
           /\ Finished(c)

AfterRollback(c, r) ==
    IF r.ok /\ online
      THEN /\ Invoke("audit", NoFix, NoBackup, c) /\ Suspend(c, "rereading", NoBackup)
           /\ UNCHANGED <<listed, dialog>>
      ELSE RollbackFails(c)

\* Faulty variant: what was rolled back is not looked at again.
AfterRereadTrusting(c, r) ==
    IF ~r.ok
      THEN RollbackFails(c)
      ELSE /\ Unapplied
           /\ result' = "ok" /\ RenderSecurityAudit(r.required)
           /\ rollback' = [shown |-> FALSE, enabled |-> TRUE]
           /\ Finished(c)
           /\ UNCHANGED <<claim, apply>>

\* The label is not written again.
AfterReread(c, r) ==
    IF ~r.ok \/ active.fix \notin r.required
      THEN RollbackFails(c)
      ELSE /\ Unapplied
           /\ result' = "ok" /\ RenderSecurityAudit(r.required)
           /\ rollback' = [shown |-> FALSE, enabled |-> TRUE]
           /\ Finished(c)
           /\ UNCHANGED <<claim, apply>>

\* Faulty variant: the rollback button is shown whatever there is to restore.
SyncShowsRollback(required) ==
    IF active.fix \in required
      THEN /\ Unapplied /\ claim' = "ready"
           /\ apply' = [shown |-> TRUE, enabled |-> TRUE]
           /\ rollback' = [rollback EXCEPT !.shown = FALSE]
      ELSE /\ active' = [active EXCEPT !.applied = TRUE] /\ claim' = "applied"
           /\ apply' = [shown |-> FALSE, enabled |-> FALSE]
           /\ rollback' = [rollback EXCEPT !.shown = TRUE]

\* syncActiveSecurityFix, for a dialog in mode FIX.
SyncActiveSecurityFix(required) ==
    IF active.fix \in required
      THEN /\ Unapplied /\ claim' = "ready"
           /\ apply' = [shown |-> TRUE, enabled |-> TRUE]
           /\ rollback' = [rollback EXCEPT !.shown = FALSE]
      ELSE /\ active' = [active EXCEPT !.applied = TRUE] /\ claim' = "applied"
           /\ apply' = [shown |-> FALSE, enabled |-> FALSE]
           /\ rollback' = [rollback EXCEPT !.shown = active.backup # NoBackup]

\* loadSecurityAudit after its await
AfterAudit(c, r) ==
    /\ Finished(c)
    /\ RenderSecurityAudit(r.required)
    /\ IF r.ok /\ active.fix \in Fix /\ ~active.applied
         THEN SyncActiveSecurityFix(r.required) /\ UNCHANGED result
         ELSE UNCHANGED dialog

\* History: the helper has done its work, and a failure is shown.
Doubtful(c, r) ==
    /\ Working(c) /\ call'[c] = Idle /\ result' = "error"
    /\ r.ok \/ call[c].step \in {"verifying", "rereading"}

Deliver ==
    /\ replies # <<>> /\ replies' = Tail(replies)
    /\ LET r == Head(replies)
           c == r.call
       IN /\ \/ call[c].step = "applying" /\ AfterApply(c, r)
             \/ call[c].step = "verifying" /\ AfterVerify(c, r)
             \/ call[c].step = "undoing" /\ AfterRollback(c, r)
             \/ call[c].step = "rereading" /\ AfterReread(c, r)
             \/ call[c].step = "auditing" /\ AfterAudit(c, r)
           /\ unconfirmed' = (unconfirmed \/ Doubtful(c, r))
    /\ UNCHANGED <<server, online, steps, abandoned, belated, overlapped, unread>>

PanelNext == Serve \/ Late \/ Step \/ Deliver

PanelSpec == PanelInit /\ [][PanelNext]_pvars

\* Every native command ends (its client is killed after its time), and the
\* webview's event loop delivers what it has; a late helper may stop anywhere.
FairPanelSpec == PanelSpec /\ WF_pvars(Serve) /\ WF_pvars(Deliver)

-----------------------------------------------------------------------------
(* Properties *)

\* A rollback is only offered when there is something to restore, whatever
\* call writes the dialog and whatever was opened meanwhile
\* (rollbackButton.hidden against activeSecurityFix.backupPath).
OfferedRollbackHasBackup == Open /\ rollback.shown => active.backup # NoBackup

\* The backup offered was taken by the fix the dialog shows, unless a dialog
\* was closed while it was being applied: the call then writes its backup into
\* the dialog opened next.
OfferedBackupIsOfFix ==
    Open /\ rollback.shown /\ ~abandoned => backups[active.backup].fix = active.fix

\* Restoring the backup offered takes the fix back: it was taken before the
\* fix was in the file.  A second apply of the same fix breaks it, and that
\* takes a failure shown for a success, an unread setting, or an audit that
\* enabled the button during an apply.
OfferedBackupUndoesFix ==
    Open /\ rollback.shown /\ ~unconfirmed /\ ~overlapped /\ ~unread =>
        active.fix \notin backups[active.backup].before

\* What a dialog shows whose fix was rolled back: no button, and the label as
\* it was, since nothing writes it (main.ts 2337-2341 against 2299).
ShowsRollback ==
    ~active.applied /\ ~apply.shown /\ ~rollback.shown /\ result = "ok"

\* When nothing is under way, a dialog whose label says the fix is applied is
\* right about the server's effective settings, unless it shows a rollback:
\* the label is then the one of before.  It says nothing once a failure was
\* shown for what the helper did or may still do, or an audit missed a setting.
ClaimIsTrue ==
    Settled /\ Open /\ claim = "applied" /\ ~ShowsRollback /\ ~unconfirmed /\ ~unread =>
        active.fix \notin Insecure

\* When nothing is under way, a dialog whose result says that its fix was taken
\* back is right: a backup that already held the fix, or a second fix of the
\* same setting elsewhere, is found out by the audit that follows.  Only a late
\* helper can prove it wrong.
RollbackReportIsTrue ==
    Settled /\ Open /\ result = "ok" /\ ~active.applied /\ ~belated =>
        active.fix \in Insecure

\* A rollback takes back one fix and never another one with it, although it
\* restores the whole managed file.  A dialog closed during its apply leaves
\* its backup to the next dialog, and a late helper may write between a backup
\* and its restoration: either can make one rollback take two fixes.
RollbackUndoesOneFix ==
    [][~abandoned /\ ~belated' => \A f, g \in managed \ managed' : f = g]_pvars

\* A button disabled by a call is enabled or hidden again: no error path
\* leaves the dialog unusable (the finally blocks).
ButtonsComeBack ==
    /\ (Open /\ apply.shown /\ ~apply.enabled) ~> (~Open \/ ~apply.shown \/ apply.enabled)
    /\ (Open /\ rollback.shown /\ ~rollback.enabled)
           ~> (~Open \/ ~rollback.shown \/ rollback.enabled)

=============================================================================
