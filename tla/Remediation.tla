----------------------------- MODULE Remediation -----------------------------
(***************************************************************************)
(* The security fixes: helper.sh on the managed server (run_remediation,   *)
(* backup_managed, restore_backup, write_directive and the rollback        *)
(* command), and the way the application runs a fix and reads its outcome  *)
(* (security_apply_fix in src-tauri/src/lib.rs, applySecurityFix in        *)
(* src/main.ts).                                                           *)
(*                                                                         *)
(* The helper takes no lock, and the application gives up on a fix after   *)
(* 60 seconds while the helper keeps running: several helpers may work on  *)
(* the one managed file.  Every external command of the script is a step,  *)
(* and a step may fail.  The script runs under set -e, except inside       *)
(* backup=$(backup_managed), where bash does not inherit it.               *)
(***************************************************************************)
EXTENDS Naturals, FiniteSets

CONSTANTS
    Directive,   \* what a fix can switch off: passwords, root login, X11
    Run          \* bound: helper processes started, fixes and rollbacks

ASSUME RunsAreFinite == IsFiniteSet(Run)

\* The managed file: whether it exists, and the directives it sets to "no".
Content == {c \in [present : BOOLEAN, off : SUBSET Directive] : c.present \/ c.off = {}}
Absent == [present |-> FALSE, off |-> {}]

\* Faulty variant: a line is added, but a missing file is not created.
WithDirectiveOnly(content, D) == [content EXCEPT !.off = @ \cup D]

\* write_directive: replace or add one line, creating the file if needed.
WithDirective(content, D) == [present |-> TRUE, off |-> content.off \cup D]

\* The lines of a successful fix, and the ones security_apply_fix insists on.
PrintedFields == {"action", "backup", "service", "config"}
RequiredFields == {"id", "action", "backup"}

VARIABLES
    managed,     \* /etc/ssh/sshd_config.d/99-jarvis-security.conf
    running,     \* the directives the running sshd has loaded from it
    pc,          \* what each helper process does next
    fix,         \* the directive of a fix, as a set of at most one
    target,      \* the run whose backup a rollback restores
    temp,        \* the new content write_directive has prepared
    mode,        \* what the backup directory of a run holds
    copy,        \* the content of managed.conf in that directory
    receipt,     \* the run has printed its result
    panel,       \* what the application shows about a run it started
    original,    \* history: the managed file before the first run
    disturbed    \* history: a signal or another helper came in between

server == <<managed, running>>
backups == <<mode, copy>>
history == <<original, disturbed>>
vars == <<server, pc, fix, target, temp, backups, receipt, panel, history>>

Trapped == {"read", "install", "test", "reload", "check"}
Untrapped == {"backup", "print", "restore", "retest", "rereload"}
Ended == {"done", "failed"}
Live(r) == pc[r] \in Trapped \cup Untrapped

RemediationTypeOK ==
    /\ managed \in Content
    /\ running \in SUBSET Directive
    /\ pc \in [Run -> {"idle"} \cup Trapped \cup Untrapped \cup Ended]
    /\ fix \in [Run -> SUBSET Directive]
    /\ target \in [Run -> Run]
    /\ temp \in [Run -> Content]
    /\ mode \in [Run -> {"none", "existing", "absent", "lost"}]
    /\ copy \in [Run -> Content]
    /\ receipt \in [Run -> BOOLEAN]
    /\ panel \in [Run -> {"none", "waiting", "failed", "applied"}]
    /\ original \in Content
    /\ disturbed \in [Run -> BOOLEAN]

RemediationInit ==
    /\ managed \in Content
    /\ original = managed
    /\ running = managed.off
    /\ pc = [r \in Run |-> "idle"]
    /\ fix = [r \in Run |-> {}]
    /\ target = [r \in Run |-> r]
    /\ temp = [r \in Run |-> Absent]
    /\ mode = [r \in Run |-> "none"]
    /\ copy = [r \in Run |-> Absent]
    /\ receipt = [r \in Run |-> FALSE]
    /\ panel = [r \in Run |-> "none"]
    /\ disturbed = [r \in Run |-> FALSE]

Goto(r, label) == pc' = [pc EXCEPT ![r] = label]

\* An external command of the script succeeds, or set -e ends the run.  The
\* EXIT trap of run_remediation is of no use then: bash has already unwound
\* the function, restore_needed is unbound, and nothing is restored.
SucceedsOrFails(r, label) == Goto(r, label) \/ Goto(r, "failed")

-----------------------------------------------------------------------------
(* The application *)

\* The helpers that run at the same time disturb one another.
Disturb(r) ==
    disturbed' = [q \in Run |-> IF q = r THEN \E o \in Run : Live(o)
                                         ELSE disturbed[q] \/ Live(q)]

\* applySecurityFix starts a fix; the command blocks the native main thread,
\* so there is one at a time.  validate_common has passed.
StartFix(r, d) ==
    /\ pc[r] = "idle"
    /\ \A q \in Run : panel[q] # "waiting"
    /\ Goto(r, "backup")
    /\ fix' = [fix EXCEPT ![r] = {d}]
    /\ panel' = [panel EXCEPT ![r] = "waiting"]
    /\ Disturb(r)
    /\ UNCHANGED <<server, target, temp, backups, receipt, original>>

\* security_apply_fix looks for three lines in the output of the helper.
Answer(r) ==
    /\ panel[r] = "waiting" /\ pc[r] \in Ended
    /\ panel' = [panel EXCEPT ![r] =
                   IF receipt[r] /\ RequiredFields \subseteq PrintedFields
                     THEN "applied" ELSE "failed"]
    /\ UNCHANGED <<server, pc, fix, target, temp, backups, receipt, history>>

\* run_ssh_exec kills its ssh client after 60 seconds; the helper goes on.
GiveUp(r) ==
    /\ panel[r] = "waiting" /\ Live(r)
    /\ panel' = [panel EXCEPT ![r] = "failed"]
    /\ UNCHANGED <<server, pc, fix, target, temp, backups, receipt, history>>

-----------------------------------------------------------------------------
(* run_remediation *)

\* Faulty variant: the backup is taken of the new content.
BackupOfNew(r) ==
    /\ pc[r] = "backup"
    /\ mode' = [mode EXCEPT ![r] = "existing"]
    /\ copy' = [copy EXCEPT ![r] = WithDirective(managed, fix[r])]
    /\ Goto(r, "read")
    /\ UNCHANGED <<server, fix, target, temp, receipt, panel, history>>

\* backup_managed records whether the file exists and copies it.  A command of
\* it that fails (mktemp, cp, a write to the directory) goes unnoticed, since
\* errexit is off inside the command substitution, and leaves a useless backup.
Backup(r) ==
    /\ pc[r] = "backup"
    /\ \/ mode' = [mode EXCEPT ![r] = IF managed.present THEN "existing" ELSE "absent"]
          /\ copy' = [copy EXCEPT ![r] = managed]
       \/ mode' = [mode EXCEPT ![r] = "lost"] /\ UNCHANGED copy
    /\ Goto(r, "read")
    /\ UNCHANGED <<server, fix, target, temp, receipt, panel, history>>

\* write_directive reads the managed file into a temporary file ...
ReadManaged(r) ==
    /\ pc[r] = "read"
    /\ \/ Goto(r, "install") /\ temp' = [temp EXCEPT ![r] = WithDirective(managed, fix[r])]
       \/ Goto(r, "failed") /\ UNCHANGED temp
    /\ UNCHANGED <<server, fix, target, backups, receipt, panel, history>>

\* ... and installs that in its place.  The temporary file is not used again.
InstallTemp(r) ==
    /\ pc[r] = "install"
    /\ \/ Goto(r, "test") /\ managed' = temp[r]
       \/ Goto(r, "failed") /\ UNCHANGED managed
    /\ temp' = [temp EXCEPT ![r] = Absent]
    /\ UNCHANGED <<running, fix, target, backups, receipt, panel, history>>

\* sshd -t judges the whole configuration, of which this file is a part.
TestConfig(r) ==
    /\ pc[r] = "test"
    /\ SucceedsOrFails(r, "reload")
    /\ UNCHANGED <<server, fix, target, temp, backups, receipt, panel, history>>

\* Faulty variant: a reload that fails goes unnoticed.
ReloadUnchecked(r) ==
    /\ pc[r] = "reload"
    /\ Goto(r, "check")
    /\ running' \in {running, managed.off}
    /\ UNCHANGED <<managed, fix, target, temp, backups, receipt, panel, history>>

Reload(r) ==
    /\ pc[r] = "reload"
    /\ \/ Goto(r, "check") /\ running' = managed.off
       \/ Goto(r, "failed") /\ UNCHANGED running
    /\ UNCHANGED <<managed, fix, target, temp, backups, receipt, panel, history>>

\* systemctl is-active; then the traps are removed.
CheckActive(r) ==
    /\ pc[r] = "check"
    /\ SucceedsOrFails(r, "print")
    /\ UNCHANGED <<server, fix, target, temp, backups, receipt, panel, history>>

\* The result goes nowhere once the application has given up.
PrintReceipt(r) ==
    /\ pc[r] = "print"
    /\ IF panel[r] = "waiting"
         THEN Goto(r, "done") /\ receipt' = [receipt EXCEPT ![r] = TRUE]
         ELSE Goto(r, "failed") /\ UNCHANGED receipt
    /\ UNCHANGED <<server, fix, target, temp, backups, panel, history>>

-----------------------------------------------------------------------------
(* restore_backup, from a rollback or from a trap *)

\* Faulty variant: a file that did not exist before is not removed.
RestoreExisting(b) == IF mode[b] = "absent" THEN UNCHANGED managed ELSE managed' = copy[b]

RestoreCopy(b) == managed' = IF mode[b] = "absent" THEN Absent ELSE copy[b]

\* rollback <backup-id>, run by the administrator: any backup may be named.
StartRollback(r, b) ==
    /\ pc[r] = "idle" /\ mode[b] # "none"
    /\ Goto(r, "restore")
    /\ target' = [target EXCEPT ![r] = b]
    /\ Disturb(r)
    /\ UNCHANGED <<server, fix, temp, backups, receipt, panel, original>>

\* restore_backup refuses a useless backup, and its own commands may fail.
Restore(r) ==
    /\ pc[r] = "restore"
    /\ \/ mode[target[r]] # "lost" /\ Goto(r, "retest") /\ RestoreCopy(target[r])
       \/ Goto(r, "failed") /\ UNCHANGED managed
    /\ UNCHANGED <<running, fix, target, temp, backups, receipt, panel, history>>

TestRestored(r) ==
    /\ pc[r] = "retest"
    /\ SucceedsOrFails(r, "rereload")
    /\ UNCHANGED <<server, fix, target, temp, backups, receipt, panel, history>>

ReloadRestored(r) ==
    /\ pc[r] = "rereload"
    /\ \/ Goto(r, "done") /\ running' = managed.off
       \/ Goto(r, "failed") /\ UNCHANGED running
    /\ UNCHANGED <<managed, fix, target, temp, backups, receipt, panel, history>>

\* HUP, INT or TERM while the traps are set: the handler restores the backup
\* and returns, and the script goes on with its next command.  A handler that
\* cannot restore ends the run.  Without traps the signal ends the run.
Signal(r) ==
    /\ Live(r)
    /\ disturbed' = [disturbed EXCEPT ![r] = TRUE]
    /\ \/ pc[r] \in Trapped /\ mode[r] # "lost" /\ RestoreCopy(r) /\ UNCHANGED pc
       \/ Goto(r, "failed") /\ UNCHANGED managed
    /\ temp' = IF pc'[r] = "failed" THEN [temp EXCEPT ![r] = Absent] ELSE temp
    /\ UNCHANGED <<running, fix, target, backups, receipt, panel, original>>

\* sshd is reloaded or restarted for another reason.
ReloadElsewhere ==
    /\ running' = managed.off
    /\ UNCHANGED <<managed, pc, fix, target, temp, backups, receipt, panel, history>>

RunStep(r) ==
    \/ Answer(r) \/ GiveUp(r)
    \/ Backup(r) \/ ReadManaged(r) \/ InstallTemp(r) \/ TestConfig(r)
    \/ Reload(r) \/ CheckActive(r) \/ PrintReceipt(r)
    \/ Restore(r) \/ TestRestored(r) \/ ReloadRestored(r) \/ Signal(r)

RemediationNext ==
    \/ \E r \in Run, d \in Directive : StartFix(r, d)
    \/ \E r, b \in Run : StartRollback(r, b)
    \/ \E r \in Run : RunStep(r)
    \/ ReloadElsewhere

RemediationSpec == RemediationInit /\ [][RemediationNext]_vars

-----------------------------------------------------------------------------
(* Properties *)

\* Whatever order fixes, rollbacks, signals and failures come in, the file the
\* administrator had before the first fix is still there, or an intact backup
\* holds it, provided that no backup was lost (helper.sh 47-63).
OriginalIsRecoverable ==
    (\A r \in Run : mode[r] # "lost") =>
        \/ managed = original
        \/ \E r \in Run : mode[r] # "none" /\ copy[r] = original

\* A fix that nothing disturbed and that prints its result has changed exactly
\* its own directive, and the running sshd has loaded it (helper.sh 199-208).
UndisturbedReceiptIsTrue ==
    [][\A r \in Run : receipt'[r] /\ ~receipt[r] /\ ~disturbed[r] =>
         /\ mode[r] # "lost" => managed = WithDirective(copy[r], fix[r])
         /\ fix[r] \subseteq managed.off \cap running]_vars

\* A rollback that nothing disturbed and that reports success has put back the
\* file its backup was taken of, or removed it again, and sshd has loaded the
\* result (helper.sh 65-78, 228).
UndisturbedRollbackRestores ==
    [][\A r \in Run : pc[r] = "rereload" /\ pc'[r] = "done" /\ ~disturbed[r] =>
         managed' = copy[target[r]] /\ running' = copy[target[r]].off]_vars

\* A fix whose validation fails is rolled back automatically (main.ts 2409):
\* when it ends, the managed file is what it was before (helper.sh 202-205).
FailedFixIsUndone ==
    [][\A r \in Run : pc[r] = "test" /\ pc'[r] = "failed" /\ ~disturbed'[r]
                        /\ mode[r] # "lost" =>
         managed' = copy[r]]_vars

\* Remediation and rollback are available (README.md 11): a fix that took
\* effect is shown as applied, which is when the application offers to roll it
\* back (main.ts 2286-2308, lib.rs 1676-1689).
AppliedFixIsReported ==
    \A r \in Run : receipt[r] => panel[r] # "failed"
=============================================================================
