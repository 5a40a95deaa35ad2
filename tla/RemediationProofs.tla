-------------------------- MODULE RemediationProofs --------------------------
(***************************************************************************)
(* Proofs about the security fixes, for every set of directives and of     *)
(* helper runs: whatever runs at the same time, fails or is interrupted,   *)
(* the administrator's file can be had back, and a helper that nothing     *)
(* disturbed does what its result says.                                    *)
(***************************************************************************)
EXTENDS Remediation, TLAPS

\* A run has a backup from the step that takes it, and a rollback names one.
BackupsExist ==
    /\ \A r \in Run : pc[r] \in {"idle", "backup"} => mode[r] = "none"
    /\ \A r \in Run : pc[r] \in Trapped \cup {"print"} => mode[r] # "none"
    /\ \A r \in Run : pc[r] \in {"restore", "retest", "rereload"} => mode[target[r]] # "none"
    /\ \A r \in Run : mode[r] = "absent" => copy[r] = Absent

\* Until there is a backup the file is untouched; from then on some intact
\* backup holds the original.
FirstBackupHoldsOriginal ==
    (\A r \in Run : mode[r] # "lost") =>
        \/ managed = original /\ \A r \in Run : mode[r] = "none"
        \/ \E r \in Run : mode[r] # "none" /\ copy[r] = original

\* Nothing else runs beside a run that counts as undisturbed.
UndisturbedIsAlone ==
    \A r, q \in Run : Live(r) /\ ~disturbed[r] /\ Live(q) => q = r

\* How far an undisturbed fix has got: unchanged, prepared, changed, loaded.
FixProgress ==
    \A r \in Run : ~disturbed[r] =>
        /\ pc[r] \in {"read", "install"} /\ mode[r] # "lost" => managed = copy[r]
        /\ pc[r] = "install" => temp[r] = WithDirective(managed, fix[r])
        /\ pc[r] \in {"test", "reload", "check", "print"} =>
             /\ mode[r] # "lost" => managed = WithDirective(copy[r], fix[r])
             /\ fix[r] \subseteq managed.off
        /\ pc[r] \in {"check", "print"} => fix[r] \subseteq running

\* How far an undisturbed rollback has got.
RollbackProgress ==
    \A r \in Run : ~disturbed[r] /\ pc[r] \in {"retest", "rereload"} =>
        managed = copy[target[r]]

RInv ==
    /\ RemediationTypeOK
    /\ BackupsExist
    /\ FirstBackupHoldsOriginal
    /\ UndisturbedIsAlone
    /\ FixProgress
    /\ RollbackProgress

-----------------------------------------------------------------------------
(* Facts about the shared steps *)

Label == {"idle"} \cup Trapped \cup Untrapped \cup Ended

\* A helper that moves on changes its own position and no other.
LEMMA GotoEffect ==
  ASSUME RemediationTypeOK, NEW r \in Run, NEW label \in Label, Goto(r, label)
  PROVE  /\ pc' \in [Run -> Label]
         /\ pc'[r] = label
         /\ \A q \in Run \ {r} : pc'[q] = pc[q]
BY DEF RemediationTypeOK, Goto, Label

\* A missing file is a possible content (helper.sh 57-59).
LEMMA AbsentIsContent == Absent \in Content
BY DEF Absent, Content

\* There is only one missing file: it sets nothing.
LEMMA AbsentIsTheOnlyMissing ==
  ASSUME NEW c \in Content, ~c.present
  PROVE  c = Absent
BY DEF Absent, Content

\* write_directive always leaves a file that sets its directive
\* (helper.sh 80-95).
LEMMA WithDirectiveIsContent ==
  ASSUME NEW c \in Content, NEW D \in SUBSET Directive
  PROVE  /\ WithDirective(c, D) \in Content
         /\ D \subseteq WithDirective(c, D).off
BY DEF WithDirective, Content

\* Restoring gives the content the backup was taken of, also when that was a
\* missing file (helper.sh 65-78).
LEMMA RestoreCopyEffect ==
  ASSUME RInv, NEW b \in Run, RestoreCopy(b)
  PROVE  managed' = copy[b] /\ managed' \in Content
BY AbsentIsContent DEF RInv, RemediationTypeOK, BackupsExist, RestoreCopy

\* A step that starts nobody and excuses nobody leaves undisturbed runs alone.
LEMMA StillAlone ==
  ASSUME UndisturbedIsAlone,
         \A q \in Run : Live(q)' => Live(q),
         \A q \in Run : disturbed[q] => disturbed'[q]
  PROVE  UndisturbedIsAlone'
BY DEF UndisturbedIsAlone

-----------------------------------------------------------------------------
(* The invariant is kept by every step *)

\* The application starts a fix (lib.rs 1656-1674, helper.sh 199-201).
LEMMA StartFixPreserves ==
  ASSUME RInv, NEW r \in Run, NEW d \in Directive, StartFix(r, d)
  PROVE  RInv'
<1> USE DEF server, backups, history
<1>1. /\ pc' \in [Run -> Label]
      /\ pc'[r] = "backup"
      /\ \A q \in Run \ {r} : pc'[q] = pc[q]
  BY GotoEffect DEF StartFix, RInv, Label, Untrapped
<1>2. RemediationTypeOK'
  BY <1>1 DEF RInv, RemediationTypeOK, StartFix, Label, Disturb
<1>3. BackupsExist'
  BY <1>1 DEF RInv, RemediationTypeOK, BackupsExist, StartFix, Trapped
<1>4. FirstBackupHoldsOriginal'
  BY <1>1 DEF RInv, RemediationTypeOK, FirstBackupHoldsOriginal, StartFix
<1>5. UndisturbedIsAlone'
  BY <1>1 DEF RInv, RemediationTypeOK, BackupsExist, UndisturbedIsAlone, StartFix,
     Untrapped, Live, Disturb
<1>6. FixProgress'
  BY <1>1 DEF RInv, RemediationTypeOK, FixProgress, StartFix, Disturb
<1>7. RollbackProgress'
  BY <1>1 DEF RInv, RemediationTypeOK, RollbackProgress, StartFix, Disturb
<1> QED
  BY <1>2, <1>3, <1>4, <1>5, <1>6, <1>7 DEF RInv

\* The administrator starts a rollback (helper.sh 228).
LEMMA StartRollbackPreserves ==
  ASSUME RInv, NEW r \in Run, NEW b \in Run, StartRollback(r, b)
  PROVE  RInv'
<1> USE DEF server, backups, history
<1>1. /\ pc' \in [Run -> Label]
      /\ pc'[r] = "restore"
      /\ \A q \in Run \ {r} : pc'[q] = pc[q]
  BY GotoEffect DEF StartRollback, RInv, Label, Untrapped
<1>2. RemediationTypeOK'
  BY <1>1 DEF RInv, RemediationTypeOK, StartRollback, Label, Disturb
<1>3. BackupsExist'
  BY <1>1 DEF RInv, RemediationTypeOK, BackupsExist, StartRollback, Trapped
<1>4. FirstBackupHoldsOriginal'
  BY <1>1 DEF RInv, RemediationTypeOK, FirstBackupHoldsOriginal, StartRollback
<1>5. UndisturbedIsAlone'
  BY <1>1 DEF RInv, RemediationTypeOK, BackupsExist, UndisturbedIsAlone, StartRollback,
     Untrapped, Live, Disturb
<1>6. FixProgress'
  BY <1>1 DEF RInv, RemediationTypeOK, FixProgress, StartRollback, Disturb
<1>7. RollbackProgress'
  BY <1>1 DEF RInv, RemediationTypeOK, RollbackProgress, StartRollback, Disturb
<1> QED
  BY <1>2, <1>3, <1>4, <1>5, <1>6, <1>7 DEF RInv

\* The application reads the answer (lib.rs 1676-1694).
LEMMA AnswerPreserves ==
  ASSUME RInv, NEW r \in Run, Answer(r)
  PROVE  RInv'
<1> USE DEF server, backups, history
<1>1. RemediationTypeOK'
  BY DEF RInv, RemediationTypeOK, Answer
<1>2. BackupsExist'
  BY DEF RInv, RemediationTypeOK, BackupsExist, Answer
<1>3. FirstBackupHoldsOriginal'
  BY DEF RInv, RemediationTypeOK, FirstBackupHoldsOriginal, Answer
<1>4. UndisturbedIsAlone'
  BY StillAlone DEF RInv, RemediationTypeOK, Answer, Live
<1>5. FixProgress'
  BY DEF RInv, RemediationTypeOK, FixProgress, Answer
<1>6. RollbackProgress'
  BY DEF RInv, RemediationTypeOK, RollbackProgress, Answer
<1> QED
  BY <1>1, <1>2, <1>3, <1>4, <1>5, <1>6 DEF RInv

\* The application stops waiting (lib.rs 451-461).
LEMMA GiveUpPreserves ==
  ASSUME RInv, NEW r \in Run, GiveUp(r)
  PROVE  RInv'
<1> USE DEF server, backups, history
<1>1. RemediationTypeOK'
  BY DEF RInv, RemediationTypeOK, GiveUp
<1>2. BackupsExist'
  BY DEF RInv, RemediationTypeOK, BackupsExist, GiveUp
<1>3. FirstBackupHoldsOriginal'
  BY DEF RInv, RemediationTypeOK, FirstBackupHoldsOriginal, GiveUp
<1>4. UndisturbedIsAlone'
  BY StillAlone DEF RInv, RemediationTypeOK, GiveUp, Live
<1>5. FixProgress'
  BY DEF RInv, RemediationTypeOK, FixProgress, GiveUp
<1>6. RollbackProgress'
  BY DEF RInv, RemediationTypeOK, RollbackProgress, GiveUp
<1> QED
  BY <1>1, <1>2, <1>3, <1>4, <1>5, <1>6 DEF RInv

\* backup_managed (helper.sh 47-63).
LEMMA BackupPreserves ==
  ASSUME RInv, NEW r \in Run, Backup(r)
  PROVE  RInv'
<1> USE DEF server, backups, history
<1>1. /\ pc' \in [Run -> Label]
      /\ pc'[r] = "read"
      /\ \A q \in Run \ {r} : pc'[q] = pc[q]
  BY GotoEffect DEF Backup, RInv, Label, Trapped
<1>2. /\ mode' \in [Run -> {"none", "existing", "absent", "lost"}]
      /\ copy' \in [Run -> Content]
      /\ mode'[r] # "none"
      /\ mode'[r] # "lost" => copy'[r] = managed
      /\ mode'[r] = "absent" => copy'[r] = Absent
      /\ \A q \in Run \ {r} : mode'[q] = mode[q] /\ copy'[q] = copy[q]
  BY AbsentIsTheOnlyMissing DEF Backup, RInv, RemediationTypeOK
<1>3. RemediationTypeOK'
  BY <1>1, <1>2 DEF RInv, RemediationTypeOK, Backup, Label
<1>4. BackupsExist'
  <2>1. \A q \in Run : pc'[q] \in {"idle", "backup"} => mode'[q] = "none"
    BY <1>1, <1>2 DEF RInv, RemediationTypeOK, BackupsExist, Backup
  <2>2. \A q \in Run : pc'[q] \in Trapped \cup {"print"} => mode'[q] # "none"
    BY <1>1, <1>2 DEF RInv, RemediationTypeOK, BackupsExist, Backup
  <2>3. \A q \in Run : pc'[q] \in {"restore", "retest", "rereload"} => mode'[target'[q]] # "none"
    <3>1. target' = target
      BY DEF Backup
    <3>2. ASSUME NEW q \in Run, pc'[q] \in {"restore", "retest", "rereload"} PROVE mode'[target[q]] # "none"
      <4>1. q # r /\ mode[target[q]] # "none" /\ target[q] \in Run
        BY <1>1, <3>2 DEF RInv, RemediationTypeOK, BackupsExist, Backup
      <4>2. QED
        BY <1>2, <4>1
    <3>3. QED
      BY <3>1, <3>2
  <2>4. \A q \in Run : mode'[q] = "absent" => copy'[q] = Absent
    BY <1>1, <1>2 DEF RInv, RemediationTypeOK, BackupsExist, Backup
  <2>5. QED
    BY <2>1, <2>2, <2>3, <2>4 DEF BackupsExist
<1>5. FirstBackupHoldsOriginal'
  BY <1>1, <1>2 DEF RInv, RemediationTypeOK, BackupsExist, FirstBackupHoldsOriginal, Backup
<1>6. UndisturbedIsAlone'
  BY <1>1, <1>2, StillAlone DEF RInv, RemediationTypeOK, Backup, Live, Untrapped
<1>7. FixProgress'
  BY <1>1, <1>2 DEF RInv, RemediationTypeOK, FixProgress, Backup
<1>8. RollbackProgress'
  BY <1>1, <1>2 DEF RInv, RemediationTypeOK, RollbackProgress, Backup
<1> QED
  BY <1>3, <1>4, <1>5, <1>6, <1>7, <1>8 DEF RInv

\* write_directive prepares the new content (helper.sh 80-92).
LEMMA ReadManagedPreserves ==
  ASSUME RInv, NEW r \in Run, ReadManaged(r)
  PROVE  RInv'
<1> USE DEF server, backups, history
<1>1. /\ pc' \in [Run -> Label]
      /\ pc'[r] \in {"install", "failed"}
      /\ \A q \in Run \ {r} : pc'[q] = pc[q]
  BY GotoEffect DEF ReadManaged, RInv, Label, Trapped, Ended
<1>2. WithDirective(managed, fix[r]) \in Content
  BY WithDirectiveIsContent DEF RInv, RemediationTypeOK
<1>3. /\ temp' \in [Run -> Content]
      /\ pc'[r] = "install" => temp'[r] = WithDirective(managed, fix[r])
      /\ \A q \in Run \ {r} : temp'[q] = temp[q]
  BY <1>1, <1>2 DEF ReadManaged, Goto, RInv, RemediationTypeOK
<1>4. RemediationTypeOK'
  BY <1>1, <1>2, <1>3 DEF RInv, RemediationTypeOK, ReadManaged, Label
<1>5. BackupsExist'
  BY <1>1, <1>2, <1>3 DEF RInv, RemediationTypeOK, BackupsExist, ReadManaged, Trapped
<1>6. FirstBackupHoldsOriginal'
  BY <1>1, <1>2, <1>3 DEF RInv, RemediationTypeOK, FirstBackupHoldsOriginal, ReadManaged
<1>7. UndisturbedIsAlone'
  BY <1>1, <1>2, <1>3, StillAlone DEF RInv, RemediationTypeOK, ReadManaged, Live, Trapped
<1>8. FixProgress'
  BY <1>1, <1>2, <1>3 DEF RInv, RemediationTypeOK, FixProgress, ReadManaged
<1>9. RollbackProgress'
  BY <1>1, <1>2, <1>3 DEF RInv, RemediationTypeOK, RollbackProgress, ReadManaged
<1> QED
  BY <1>4, <1>5, <1>6, <1>7, <1>8, <1>9 DEF RInv

\* write_directive installs it (helper.sh 93-95).
LEMMA InstallTempPreserves ==
  ASSUME RInv, NEW r \in Run, InstallTemp(r)
  PROVE  RInv'
<1> USE DEF server, backups, history
<1>1. /\ pc' \in [Run -> Label]
      /\ pc'[r] \in {"test", "failed"}
      /\ \A q \in Run \ {r} : pc'[q] = pc[q]
  BY GotoEffect DEF InstallTemp, RInv, Label, Trapped, Ended
<1>2. managed' \in Content /\ (pc'[r] = "test" => managed' = temp[r]) /\ (pc'[r] =
   "failed" => managed' = managed)
  BY <1>1 DEF InstallTemp, Goto, RInv, RemediationTypeOK
<1>3. temp' \in [Run -> Content] /\ \A q \in Run \ {r} : temp'[q] = temp[q]
  BY AbsentIsContent DEF InstallTemp, RInv, RemediationTypeOK
<1>4. temp[r] = WithDirective(managed, fix[r]) => fix[r] \subseteq temp[r].off
  BY WithDirectiveIsContent DEF RInv, RemediationTypeOK
<1>5. RemediationTypeOK'
  BY <1>1, <1>2, <1>3, <1>4 DEF RInv, RemediationTypeOK, InstallTemp, Label
<1>6. BackupsExist'
  BY <1>1, <1>2, <1>3, <1>4 DEF RInv, RemediationTypeOK, BackupsExist, InstallTemp, Trapped
<1>7. FirstBackupHoldsOriginal'
  BY <1>1, <1>2, <1>3, <1>4 DEF RInv, RemediationTypeOK, BackupsExist,
     FirstBackupHoldsOriginal, InstallTemp, Trapped
<1>8. UndisturbedIsAlone'
  BY <1>1, <1>2, <1>3, <1>4, StillAlone DEF RInv, RemediationTypeOK, InstallTemp, Live,
     Trapped
<1>9. FixProgress'
  BY <1>1, <1>2, <1>3, <1>4 DEF RInv, RemediationTypeOK, UndisturbedIsAlone, FixProgress,
     InstallTemp, Trapped, Untrapped, Live
<1>10. RollbackProgress'
  BY <1>1, <1>2, <1>3, <1>4 DEF RInv, RemediationTypeOK, UndisturbedIsAlone,
     RollbackProgress, InstallTemp, Trapped, Untrapped, Live
<1> QED
  BY <1>5, <1>6, <1>7, <1>8, <1>9, <1>10 DEF RInv

\* sshd -t (helper.sh 204).
LEMMA TestConfigPreserves ==
  ASSUME RInv, NEW r \in Run, TestConfig(r)
  PROVE  RInv'
<1> USE DEF server, backups, history
<1>1. /\ pc' \in [Run -> Label]
      /\ pc'[r] \in {"reload", "failed"}
      /\ \A q \in Run \ {r} : pc'[q] = pc[q]
  BY GotoEffect DEF TestConfig, SucceedsOrFails, RInv, Label, Trapped, Ended
<1>2. RemediationTypeOK'
  BY <1>1 DEF RInv, RemediationTypeOK, TestConfig, Label
<1>3. BackupsExist'
  BY <1>1 DEF RInv, RemediationTypeOK, BackupsExist, TestConfig, Trapped
<1>4. FirstBackupHoldsOriginal'
  BY <1>1 DEF RInv, RemediationTypeOK, FirstBackupHoldsOriginal, TestConfig
<1>5. UndisturbedIsAlone'
  BY <1>1, StillAlone DEF RInv, RemediationTypeOK, TestConfig, Live, Trapped
<1>6. FixProgress'
  BY <1>1 DEF RInv, RemediationTypeOK, FixProgress, TestConfig
<1>7. RollbackProgress'
  BY <1>1 DEF RInv, RemediationTypeOK, RollbackProgress, TestConfig
<1> QED
  BY <1>2, <1>3, <1>4, <1>5, <1>6, <1>7 DEF RInv

\* systemctl reload (helper.sh 204).
LEMMA ReloadPreserves ==
  ASSUME RInv, NEW r \in Run, Reload(r)
  PROVE  RInv'
<1> USE DEF server, backups, history
<1>1. /\ pc' \in [Run -> Label]
      /\ pc'[r] \in {"check", "failed"}
      /\ \A q \in Run \ {r} : pc'[q] = pc[q]
  BY GotoEffect DEF Reload, RInv, Label, Trapped, Ended
<1>2. running' \in SUBSET Directive /\ (running' = managed.off \/ running' = running)
  BY DEF Reload, RInv, RemediationTypeOK, Content
<1>3. pc'[r] # "failed" => running' = managed.off
  BY <1>1 DEF Reload, Goto
<1>4. RemediationTypeOK'
  BY <1>1, <1>2, <1>3 DEF RInv, RemediationTypeOK, Reload, Label
<1>5. BackupsExist'
  BY <1>1, <1>2, <1>3 DEF RInv, RemediationTypeOK, BackupsExist, Reload, Trapped
<1>6. FirstBackupHoldsOriginal'
  BY <1>1, <1>2, <1>3 DEF RInv, RemediationTypeOK, FirstBackupHoldsOriginal, Reload
<1>7. UndisturbedIsAlone'
  BY <1>1, <1>2, <1>3, StillAlone DEF RInv, RemediationTypeOK, Reload, Live, Trapped
<1>8. FixProgress'
  BY <1>1, <1>2, <1>3 DEF RInv, RemediationTypeOK, FixProgress, Reload
<1>9. RollbackProgress'
  BY <1>1, <1>2, <1>3 DEF RInv, RemediationTypeOK, RollbackProgress, Reload
<1> QED
  BY <1>4, <1>5, <1>6, <1>7, <1>8, <1>9 DEF RInv

\* systemctl is-active (helper.sh 205-206).
LEMMA CheckActivePreserves ==
  ASSUME RInv, NEW r \in Run, CheckActive(r)
  PROVE  RInv'
<1> USE DEF server, backups, history
<1>1. /\ pc' \in [Run -> Label]
      /\ pc'[r] \in {"print", "failed"}
      /\ \A q \in Run \ {r} : pc'[q] = pc[q]
  BY GotoEffect DEF CheckActive, SucceedsOrFails, RInv, Label, Untrapped, Ended
<1>2. RemediationTypeOK'
  BY <1>1 DEF RInv, RemediationTypeOK, CheckActive, Label
<1>3. BackupsExist'
  BY <1>1 DEF RInv, RemediationTypeOK, BackupsExist, CheckActive, Trapped
<1>4. FirstBackupHoldsOriginal'
  BY <1>1 DEF RInv, RemediationTypeOK, FirstBackupHoldsOriginal, CheckActive
<1>5. UndisturbedIsAlone'
  BY <1>1, StillAlone DEF RInv, RemediationTypeOK, CheckActive, Live, Trapped
<1>6. FixProgress'
  BY <1>1 DEF RInv, RemediationTypeOK, FixProgress, CheckActive
<1>7. RollbackProgress'
  BY <1>1 DEF RInv, RemediationTypeOK, RollbackProgress, CheckActive
<1> QED
  BY <1>2, <1>3, <1>4, <1>5, <1>6, <1>7 DEF RInv

\* The helper prints its result (helper.sh 207).
LEMMA PrintReceiptPreserves ==
  ASSUME RInv, NEW r \in Run, PrintReceipt(r)
  PROVE  RInv'
<1> USE DEF server, backups, history
<1>1. /\ pc' \in [Run -> Label]
      /\ pc'[r] \in {"done", "failed"}
      /\ \A q \in Run \ {r} : pc'[q] = pc[q]
  BY GotoEffect DEF PrintReceipt, RInv, Label, Ended
<1>2. receipt' \in [Run -> BOOLEAN]
  BY DEF PrintReceipt, RInv, RemediationTypeOK
<1>3. RemediationTypeOK'
  BY <1>1, <1>2 DEF RInv, RemediationTypeOK, PrintReceipt, Label
<1>4. BackupsExist'
  BY <1>1, <1>2 DEF RInv, RemediationTypeOK, BackupsExist, PrintReceipt
<1>5. FirstBackupHoldsOriginal'
  BY <1>1, <1>2 DEF RInv, RemediationTypeOK, FirstBackupHoldsOriginal, PrintReceipt
<1>6. UndisturbedIsAlone'
  BY <1>1, <1>2, StillAlone DEF RInv, RemediationTypeOK, PrintReceipt, Live, Untrapped
<1>7. FixProgress'
  BY <1>1, <1>2 DEF RInv, RemediationTypeOK, FixProgress, PrintReceipt
<1>8. RollbackProgress'
  BY <1>1, <1>2 DEF RInv, RemediationTypeOK, RollbackProgress, PrintReceipt
<1> QED
  BY <1>3, <1>4, <1>5, <1>6, <1>7, <1>8 DEF RInv

\* A rollback restores its backup (helper.sh 65-78).
LEMMA RestorePreserves ==
  ASSUME RInv, NEW r \in Run, Restore(r)
  PROVE  RInv'
<1> USE DEF server, backups, history
<1>1. /\ pc' \in [Run -> Label]
      /\ pc'[r] \in {"retest", "failed"}
      /\ \A q \in Run \ {r} : pc'[q] = pc[q]
  BY GotoEffect DEF Restore, RInv, Label, Untrapped, Ended
<1>2. managed' \in Content /\ (pc'[r] = "retest" => managed' = copy[target[r]]) /\ (pc'[r]
   = "failed" => managed' = managed)
  BY <1>1, RestoreCopyEffect DEF Restore, Goto, RInv, RemediationTypeOK
<1>3. RemediationTypeOK'
  BY <1>1, <1>2 DEF RInv, RemediationTypeOK, Restore, Label
<1>4. BackupsExist'
  BY <1>1, <1>2 DEF RInv, RemediationTypeOK, BackupsExist, Restore, Trapped
<1>5. FirstBackupHoldsOriginal'
  BY <1>1, <1>2 DEF RInv, RemediationTypeOK, BackupsExist, FirstBackupHoldsOriginal, Restore
<1>6. UndisturbedIsAlone'
  BY <1>1, <1>2, StillAlone DEF RInv, RemediationTypeOK, Restore, Live, Untrapped
<1>7. FixProgress'
  BY <1>1, <1>2 DEF RInv, RemediationTypeOK, UndisturbedIsAlone, FixProgress, Restore,
     Trapped, Untrapped, Live
<1>8. RollbackProgress'
  BY <1>1, <1>2 DEF RInv, RemediationTypeOK, UndisturbedIsAlone, RollbackProgress,
     Restore, Untrapped, Live
<1> QED
  BY <1>3, <1>4, <1>5, <1>6, <1>7, <1>8 DEF RInv

\* A rollback tests the configuration (helper.sh 228).
LEMMA TestRestoredPreserves ==
  ASSUME RInv, NEW r \in Run, TestRestored(r)
  PROVE  RInv'
<1> USE DEF server, backups, history
<1>1. /\ pc' \in [Run -> Label]
      /\ pc'[r] \in {"rereload", "failed"}
      /\ \A q \in Run \ {r} : pc'[q] = pc[q]
  BY GotoEffect DEF TestRestored, SucceedsOrFails, RInv, Label, Untrapped, Ended
<1>2. RemediationTypeOK'
  BY <1>1 DEF RInv, RemediationTypeOK, TestRestored, Label
<1>3. BackupsExist'
  BY <1>1 DEF RInv, RemediationTypeOK, BackupsExist, TestRestored, Trapped
<1>4. FirstBackupHoldsOriginal'
  BY <1>1 DEF RInv, RemediationTypeOK, FirstBackupHoldsOriginal, TestRestored
<1>5. UndisturbedIsAlone'
  BY <1>1, StillAlone DEF RInv, RemediationTypeOK, TestRestored, Live, Untrapped
<1>6. FixProgress'
  BY <1>1 DEF RInv, RemediationTypeOK, FixProgress, TestRestored
<1>7. RollbackProgress'
  BY <1>1 DEF RInv, RemediationTypeOK, RollbackProgress, TestRestored
<1> QED
  BY <1>2, <1>3, <1>4, <1>5, <1>6, <1>7 DEF RInv

\* A rollback reloads sshd (helper.sh 228).
LEMMA ReloadRestoredPreserves ==
  ASSUME RInv, NEW r \in Run, ReloadRestored(r)
  PROVE  RInv'
<1> USE DEF server, backups, history
<1>1. /\ pc' \in [Run -> Label]
      /\ pc'[r] \in {"done", "failed"}
      /\ \A q \in Run \ {r} : pc'[q] = pc[q]
  BY GotoEffect DEF ReloadRestored, RInv, Label, Ended
<1>2. running' \in SUBSET Directive /\ (running' = managed.off \/ running' = running)
  BY DEF ReloadRestored, RInv, RemediationTypeOK, Content
<1>3. pc'[r] # "failed" => running' = managed.off
  BY <1>1 DEF ReloadRestored, Goto
<1>4. RemediationTypeOK'
  BY <1>1, <1>2, <1>3 DEF RInv, RemediationTypeOK, ReloadRestored, Label
<1>5. BackupsExist'
  BY <1>1, <1>2, <1>3 DEF RInv, RemediationTypeOK, BackupsExist, ReloadRestored, Trapped
<1>6. FirstBackupHoldsOriginal'
  BY <1>1, <1>2, <1>3 DEF RInv, RemediationTypeOK, FirstBackupHoldsOriginal, ReloadRestored
<1>7. UndisturbedIsAlone'
  BY <1>1, <1>2, <1>3, StillAlone DEF RInv, RemediationTypeOK, ReloadRestored, Live,
     Untrapped
<1>8. FixProgress'
  BY <1>1, <1>2, <1>3 DEF RInv, RemediationTypeOK, FixProgress, ReloadRestored
<1>9. RollbackProgress'
  BY <1>1, <1>2, <1>3 DEF RInv, RemediationTypeOK, RollbackProgress, ReloadRestored
<1> QED
  BY <1>4, <1>5, <1>6, <1>7, <1>8, <1>9 DEF RInv

\* A signal restores the backup or ends the run (helper.sh 202-203).
LEMMA SignalPreserves ==
  ASSUME RInv, NEW r \in Run, Signal(r)
  PROVE  RInv'
<1> USE DEF server, backups, history
<1>1. /\ pc' \in [Run -> Label]
      /\ pc'[r] \in {pc[r], "failed"}
      /\ \A q \in Run \ {r} : pc'[q] = pc[q]
  BY GotoEffect DEF Signal, RInv, RemediationTypeOK, Label, Ended
<1>2. /\ managed' \in Content
      /\ pc'[r] = "failed" \/ managed' = copy[r]
      /\ managed' = managed \/ (managed' = copy[r] /\ mode[r] # "none")
  <2>1. CASE pc[r] \in Trapped /\ mode[r] # "lost" /\ RestoreCopy(r)
    <3>1. mode[r] # "none"
      BY <2>1 DEF RInv, BackupsExist
    <3>2. QED
      BY <2>1, <3>1, RestoreCopyEffect
  <2>2. CASE Goto(r, "failed") /\ managed' = managed
    BY <2>2, GotoEffect DEF RInv, RemediationTypeOK, Label, Ended
  <2>3. QED
    BY <2>1, <2>2 DEF Signal
<1>3. temp' \in [Run -> Content] /\ \A q \in Run \ {r} : temp'[q] = temp[q]
  BY AbsentIsContent DEF Signal, RInv, RemediationTypeOK
<1>4. RemediationTypeOK'
  BY <1>1, <1>2, <1>3 DEF RInv, RemediationTypeOK, Signal, Label
<1>5. BackupsExist'
  BY <1>1, <1>2, <1>3 DEF RInv, RemediationTypeOK, BackupsExist, Signal, Trapped
<1>6. FirstBackupHoldsOriginal'
  BY <1>1, <1>2, <1>3 DEF RInv, RemediationTypeOK, FirstBackupHoldsOriginal, Signal
<1>7. UndisturbedIsAlone'
  BY <1>1, <1>2, <1>3, StillAlone DEF RInv, RemediationTypeOK, Signal, Live
<1>8. FixProgress'
  BY <1>1, <1>2, <1>3 DEF RInv, RemediationTypeOK, UndisturbedIsAlone, FixProgress,
     Signal, Trapped, Untrapped, Live
<1>9. RollbackProgress'
  BY <1>1, <1>2, <1>3 DEF RInv, RemediationTypeOK, UndisturbedIsAlone, RollbackProgress,
     Signal, Untrapped, Live
<1> QED
  BY <1>4, <1>5, <1>6, <1>7, <1>8, <1>9 DEF RInv

\* sshd is reloaded for another reason.
LEMMA ReloadElsewherePreserves ==
  ASSUME RInv, ReloadElsewhere
  PROVE  RInv'
<1> USE DEF server, backups, history
<1>1. running' \in SUBSET Directive /\ (running' = managed.off \/ running' = running)
  BY DEF ReloadElsewhere, RInv, RemediationTypeOK, Content
<1>2. RemediationTypeOK'
  BY <1>1 DEF RInv, RemediationTypeOK, ReloadElsewhere
<1>3. BackupsExist'
  BY <1>1 DEF RInv, RemediationTypeOK, BackupsExist, ReloadElsewhere
<1>4. FirstBackupHoldsOriginal'
  BY <1>1 DEF RInv, RemediationTypeOK, FirstBackupHoldsOriginal, ReloadElsewhere
<1>5. UndisturbedIsAlone'
  BY <1>1, StillAlone DEF RInv, RemediationTypeOK, ReloadElsewhere, Live
<1>6. FixProgress'
  BY <1>1 DEF RInv, RemediationTypeOK, FixProgress, ReloadElsewhere
<1>7. RollbackProgress'
  BY <1>1 DEF RInv, RemediationTypeOK, RollbackProgress, ReloadElsewhere
<1> QED
  BY <1>2, <1>3, <1>4, <1>5, <1>6, <1>7 DEF RInv

\* Before the first run nothing has been changed.
LEMMA RemediationInitEstablishes == RemediationInit => RInv
<1> SUFFICES ASSUME RemediationInit PROVE RInv
  OBVIOUS
<1>1. RemediationTypeOK
  BY AbsentIsContent DEF RemediationInit, RemediationTypeOK, Content
<1>2. QED
  BY <1>1 DEF RemediationInit, RInv, BackupsExist, FirstBackupHoldsOriginal,
     UndisturbedIsAlone,
     FixProgress, RollbackProgress, Live, Trapped, Untrapped

\* Every step of the application, of a helper and of the server keeps the
\* invariant.
LEMMA RemediationStepPreserves == RInv /\ [RemediationNext]_vars => RInv'
<1> SUFFICES ASSUME RInv, [RemediationNext]_vars PROVE RInv'
  OBVIOUS
<1>1. ASSUME NEW r \in Run, NEW d \in Directive, StartFix(r, d) PROVE RInv'
  BY <1>1, StartFixPreserves
<1>2. ASSUME NEW r \in Run, NEW b \in Run, StartRollback(r, b) PROVE RInv'
  BY <1>2, StartRollbackPreserves
<1>3. ASSUME NEW r \in Run, RunStep(r) PROVE RInv'
  BY <1>3, AnswerPreserves, GiveUpPreserves, BackupPreserves, ReadManagedPreserves,
     InstallTempPreserves, TestConfigPreserves, ReloadPreserves, CheckActivePreserves,
     PrintReceiptPreserves, RestorePreserves, TestRestoredPreserves, ReloadRestoredPreserves,
     SignalPreserves DEF RunStep
<1>4. CASE ReloadElsewhere
  BY <1>4, ReloadElsewherePreserves
<1>5. CASE UNCHANGED vars
  BY <1>5 DEF vars, server, backups, history, RInv, RemediationTypeOK, BackupsExist,
     FirstBackupHoldsOriginal, UndisturbedIsAlone, FixProgress, RollbackProgress, Live
<1>6. QED
  BY <1>1, <1>2, <1>3, <1>4, <1>5 DEF RemediationNext

\* The inductive invariant holds in every reachable state, for every set of
\* directives and of helper runs.
THEOREM RemediationInvariance == RemediationSpec => []RInv
BY RemediationInitEstablishes, RemediationStepPreserves, PTL DEF RemediationSpec

-----------------------------------------------------------------------------
(* What the invariant gives *)

\* The variables keep their types; in particular a file that is missing sets
\* nothing.
THEOREM RemediationTypeCorrect == RemediationSpec => []RemediationTypeOK
<1>1. RInv => RemediationTypeOK
  BY DEF RInv
<1>2. QED
  BY <1>1, RemediationInvariance, PTL

\* Whatever order fixes, rollbacks, failures and signals come in, the file of
\* the administrator is in place or in an intact backup (helper.sh 47-78).
THEOREM OriginalCanBeHadBack == RemediationSpec => []OriginalIsRecoverable
<1>1. RInv => OriginalIsRecoverable
  BY DEF RInv, FirstBackupHoldsOriginal, OriginalIsRecoverable
<1>2. QED
  BY <1>1, RemediationInvariance, PTL

\* A fix that nothing disturbed and that prints its result has taken effect,
\* and changed nothing else (helper.sh 199-208).
THEOREM ReceiptsAreTrue == RemediationSpec => UndisturbedReceiptIsTrue
<1> DEFINE Truthful ==
      \A r \in Run : receipt'[r] /\ ~receipt[r] /\ ~disturbed[r] =>
         /\ mode[r] # "lost" => managed = WithDirective(copy[r], fix[r])
         /\ fix[r] \subseteq managed.off \cap running
<1>1. ASSUME RInv, RemediationNext, NEW r \in Run, receipt'[r], ~receipt[r]
      PROVE  pc[r] = "print"
  <2>1. PICK q \in Run : PrintReceipt(q)
    BY <1>1 DEF RemediationNext, RunStep, StartFix, StartRollback, Answer, GiveUp, Backup,
       ReadManaged, InstallTemp, TestConfig, Reload, CheckActive, Restore, TestRestored,
       ReloadRestored, Signal, ReloadElsewhere
  <2>2. q = r
    BY <1>1, <2>1 DEF PrintReceipt, RInv, RemediationTypeOK
  <2>3. QED
    BY <2>1, <2>2 DEF PrintReceipt
<1>2. ASSUME RInv, [RemediationNext]_vars PROVE [Truthful]_vars
  <2>1. CASE RemediationNext
    BY <1>1, <1>2, <2>1 DEF RInv, FixProgress
  <2>2. CASE UNCHANGED vars
    BY <2>2
  <2>3. QED
    BY <1>2, <2>1, <2>2
<1>3. RInv /\ [RemediationNext]_vars => [Truthful]_vars
  BY <1>2
<1>4. QED
  BY <1>3, RemediationInvariance, PTL DEF RemediationSpec, UndisturbedReceiptIsTrue

\* A rollback that nothing disturbed and that succeeds has put back the file
\* its backup was taken of (helper.sh 65-78, 228).
THEOREM RollbacksRestore == RemediationSpec => UndisturbedRollbackRestores
<1> DEFINE Restored ==
      \A r \in Run : pc[r] = "rereload" /\ pc'[r] = "done" /\ ~disturbed[r] =>
         managed' = copy[target[r]] /\ running' = copy[target[r]].off
<1>1. ASSUME RInv, RemediationNext, NEW r \in Run, pc[r] = "rereload", pc'[r] = "done"
      PROVE  managed' = managed /\ running' = managed.off
  <2>1. PICK q \in Run : ReloadRestored(q) \/ PrintReceipt(q)
    BY <1>1 DEF RemediationNext, RunStep, StartFix, StartRollback, Answer, GiveUp, Backup,
       ReadManaged, InstallTemp, TestConfig, Reload, CheckActive, Restore, TestRestored,
       Signal, ReloadElsewhere, SucceedsOrFails, Goto, RInv, RemediationTypeOK
  <2>2. q = r
    BY <1>1, <2>1 DEF ReloadRestored, PrintReceipt, Goto, RInv, RemediationTypeOK
  <2>3. ReloadRestored(r)
    BY <1>1, <2>1, <2>2 DEF PrintReceipt
  <2>4. QED
    BY <1>1, <2>3 DEF ReloadRestored, Goto, RInv, RemediationTypeOK
<1>2. ASSUME RInv, [RemediationNext]_vars PROVE [Restored]_vars
  <2>1. CASE RemediationNext
    BY <1>1, <1>2, <2>1 DEF RInv, RollbackProgress
  <2>2. CASE UNCHANGED vars
    BY <2>2
  <2>3. QED
    BY <1>2, <2>1, <2>2
<1>3. RInv /\ [RemediationNext]_vars => [Restored]_vars
  BY <1>2
<1>4. QED
  BY <1>3, RemediationInvariance, PTL DEF RemediationSpec, UndisturbedRollbackRestores
=============================================================================
