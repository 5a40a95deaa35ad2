------------------------ MODULE SecurityPanelProofs -------------------------
(***************************************************************************)
(* Proofs about the dialog of the security page, for every set of fixes    *)
(* and of reviews and any number of steps: a rollback is offered only with *)
(* a backup, the backup is one that the fix in the dialog took, restoring  *)
(* it takes that fix back and no other one with it, and what the dialog    *)
(* says of the fix is so once nothing is under way.                        *)
(*                                                                         *)
(* The messages come first: a call that awaits something has one message   *)
(* in flight, a request or a reply, and an apply request belongs to a call *)
(* that is applying.  The dialog's invariant speaks of those messages, for *)
(* the backup offered travels from a reply to a call and to the dialog.    *)
(***************************************************************************)
EXTENDS SecurityPanel, TLAPS

Asked == [op : {"apply", "rollback", "audit"}, fix : Fix \cup {NoFix},
          backup : Nat, call : Call]
Answered == [ok : BOOLEAN, backup : Nat, required : SUBSET Fix, call : Call]
Taken == [fix : Fix, before : SUBSET Fix]

WireTypeOK ==
    /\ managed \in SUBSET Fix
    /\ backups \in Seq(Taken)
    /\ call \in [Call -> [step : {"idle", "applying", "verifying", "undoing",
                                  "rereading", "auditing"}, backup : Nat]]
    /\ inbox \in Seq(Asked) /\ replies \in Seq(Answered)

\* A call has at most one message in flight.
OneMessage ==
    /\ \A i, j \in 1..Len(inbox) : inbox[i].call = inbox[j].call => i = j
    /\ \A i, j \in 1..Len(replies) : replies[i].call = replies[j].call => i = j
    /\ \A i \in 1..Len(inbox), j \in 1..Len(replies) : inbox[i].call # replies[j].call

\* It has none unless it is suspended; what it asked for says where it is.
MessagesAreAwaited ==
    /\ \A i \in 1..Len(inbox) :
         /\ call[inbox[i].call].step # "idle"
         /\ (inbox[i].op = "apply") = (call[inbox[i].call].step = "applying")
         /\ inbox[i].op = "apply" => inbox[i].fix \in Fix
         /\ inbox[i].op = "rollback" => inbox[i].backup \in 1..Len(backups)
    /\ \A i \in 1..Len(replies) :
         /\ call[replies[i].call].step # "idle"
         /\ replies[i].backup \in 0..Len(backups)

\* A call that verifies an apply holds the backup of that apply.
VerifiedBackupExists ==
    \A c \in Call : call[c].step = "verifying" => call[c].backup \in 1..Len(backups)

MInv == WireTypeOK /\ OneMessage /\ MessagesAreAwaited /\ VerifiedBackupExists

DialogTypeOK ==
    /\ active \in [fix : Fix \cup Review \cup {NoFix}, backup : 0..Len(backups),
                   applied : BOOLEAN]
    /\ ~Open => active.backup = NoBackup
    /\ apply \in Button /\ rollback \in Button
    /\ abandoned \in BOOLEAN

\* While no dialog was closed over a call of it, what is under way is about the
\* fix the dialog shows.
WorkIsOfTheDialog ==
    ~abandoned =>
      /\ \A c \in Call : Working(c) => Open
      /\ \A i \in 1..Len(inbox) : inbox[i].op = "apply" => inbox[i].fix = active.fix
      /\ \A i \in 1..Len(replies) :
           call[replies[i].call].step = "applying" /\ replies[i].backup # NoBackup
             => backups[replies[i].backup].fix = active.fix
      /\ \A c \in Call :
           call[c].step = "verifying" => backups[call[c].backup].fix = active.fix
      /\ active.backup # NoBackup => backups[active.backup].fix = active.fix

DInv == DialogTypeOK /\ WorkIsOfTheDialog /\ OfferedRollbackHasBackup

PageTypeOK == overridden \in SUBSET Fix /\ listed \in SUBSET Fix

PInv == MInv /\ DInv /\ PageTypeOK

\* A failure was shown for whatever a late helper does or has done.
LateInv ==
    /\ late \in Helper \cup {NoHelper} /\ belated \in BOOLEAN
    /\ late # NoHelper \/ belated => unconfirmed

-----------------------------------------------------------------------------
(* The start *)

LEMMA PanelInitEstablishes == PanelInit => PInv
<1> SUFFICES ASSUME PanelInit PROVE PInv
  OBVIOUS
<1>1. MInv
  BY DEF PanelInit, MInv, WireTypeOK, OneMessage, MessagesAreAwaited,
         VerifiedBackupExists, Idle, NoBackup
<1>2. DialogTypeOK
  <2>1. 0 \in 0..Len(backups)
    BY DEF PanelInit
  <2>2. Closed \in [fix : Fix \cup Review \cup {NoFix}, backup : 0..Len(backups),
                   applied : BOOLEAN]
    BY <2>1 DEF Closed, NoBackup
  <2> QED
    BY <2>2 DEF PanelInit, DialogTypeOK, Button, Closed
<1>3. WorkIsOfTheDialog
  <2>1. \A c \in Call : call[c].step = "idle"
    BY DEF PanelInit, Idle
  <2>2. active.backup = NoBackup /\ Len(inbox) = 0 /\ Len(replies) = 0
    BY DEF PanelInit, Closed
  <2> QED
    BY <2>1, <2>2 DEF WorkIsOfTheDialog, Working
<1>4. OfferedRollbackHasBackup
  BY DEF PanelInit, OfferedRollbackHasBackup, Open, Closed
<1> QED
  BY <1>1, <1>2, <1>3, <1>4 DEF PInv, DInv, PanelInit, PageTypeOK

LEMMA LateInitially == PanelInit => LateInv
BY DEF PanelInit, LateInv

-----------------------------------------------------------------------------
(* The native side: one request becomes one reply *)

\* A command is answered, and takes at most one backup (lib.rs 1656-1717).
LEMMA AnswerPreservesMessages ==
  ASSUME MInv, inbox # <<>>,
         NEW ok \in BOOLEAN, NEW b \in 0..Len(backups'), NEW required \in SUBSET Fix,
         Answer(ok, b, required),
         managed' \in SUBSET Fix, backups' \in Seq(Taken), Len(backups) <= Len(backups'),
         UNCHANGED call
  PROVE  MInv'
<1> DEFINE r == [ok |-> ok, backup |-> b, required |-> required,
                 call |-> Head(inbox).call]
<1>1. WireTypeOK'
  <2>1. Len(backups') \in Nat /\ b \in Nat
    BY DEF MInv, WireTypeOK
  <2>2. Head(inbox) \in Asked /\ Tail(inbox) \in Seq(Asked)
    BY DEF MInv, WireTypeOK
  <2>3. r \in Answered
    BY <2>1, <2>2 DEF Asked, Answered
  <2>4. inbox' = Tail(inbox) /\ replies' = Append(replies, r)
    BY DEF Answer
  <2>5. inbox' \in Seq(Asked) /\ replies' \in Seq(Answered)
    BY <2>2, <2>3, <2>4 DEF MInv, WireTypeOK
  <2> QED
    BY <2>5 DEF MInv, WireTypeOK
<1>2. /\ \A i \in 1..Len(inbox') : inbox'[i] = inbox[i + 1] /\ i + 1 \in 2..Len(inbox)
      /\ Len(replies') = Len(replies) + 1
      /\ \A j \in 1..Len(replies) : replies'[j] = replies[j]
      /\ replies'[Len(replies')].call = inbox[1].call
      /\ replies'[Len(replies')].backup = b
      /\ 1 \in 1..Len(inbox)
  BY DEF MInv, WireTypeOK, Answer, Asked, Answered
<1>3. OneMessage'
  <2>0. /\ Len(inbox') \in Nat /\ Len(inbox) = Len(inbox') + 1 /\ Len(replies) \in Nat
        /\ \A j \in 1..Len(replies') : j # Len(replies') => j \in 1..Len(replies)
    BY <1>2 DEF MInv, WireTypeOK, Answer
  <2>1. ASSUME NEW i \in 1..Len(inbox'), NEW j \in 1..Len(inbox'),
               inbox'[i].call = inbox'[j].call
        PROVE  i = j
    <3>1. i + 1 \in 1..Len(inbox) /\ j + 1 \in 1..Len(inbox)
      BY <2>0
    <3>2. inbox[i + 1].call = inbox[j + 1].call
      BY <1>2, <2>1
    <3>3. i + 1 = j + 1
      BY <3>1, <3>2 DEF MInv, OneMessage
    <3> QED
      BY <3>3
  <2>2. ASSUME NEW i \in 1..Len(replies'), NEW j \in 1..Len(replies'),
               replies'[i].call = replies'[j].call
        PROVE  i = j
    <3>1. \A k \in 1..Len(replies) : replies'[k].call # inbox[1].call
      <4>1. \A k \in 1..Len(replies) : replies[k].call # inbox[1].call
        BY <1>2 DEF MInv, OneMessage
      <4> QED
        BY <1>2, <4>1
    <3>2. CASE i = Len(replies')
      BY <1>2, <2>0, <2>2, <3>1, <3>2
    <3>3. CASE j = Len(replies')
      BY <1>2, <2>0, <2>2, <3>1, <3>3
    <3>4. CASE i # Len(replies') /\ j # Len(replies')
      <4>1. i \in 1..Len(replies) /\ j \in 1..Len(replies)
        BY <2>0, <3>4
      <4>2. replies[i].call = replies[j].call
        BY <1>2, <2>2, <4>1
      <4> QED
        BY <4>1, <4>2 DEF MInv, OneMessage
    <3> QED
      BY <3>2, <3>3, <3>4
  <2>3. ASSUME NEW i \in 1..Len(inbox'), NEW j \in 1..Len(replies')
        PROVE  inbox'[i].call # replies'[j].call
    <3>1. i + 1 \in 1..Len(inbox) /\ i + 1 # 1
      BY <2>0
    <3>2. inbox[i + 1].call # inbox[1].call
      BY <1>2, <3>1 DEF MInv, OneMessage
    <3>3. CASE j = Len(replies')
      BY <1>2, <3>2, <3>3
    <3>4. CASE j # Len(replies')
      <4>1. j \in 1..Len(replies)
        BY <2>0, <3>4
      <4>2. inbox[i + 1].call # replies[j].call
        BY <3>1, <4>1 DEF MInv, OneMessage
      <4> QED
        BY <1>2, <4>1, <4>2
    <3> QED
      BY <3>3, <3>4
  <2> QED
    BY <2>1, <2>2, <2>3 DEF OneMessage
<1>4. MessagesAreAwaited'
  <2>1. Len(backups) \in Nat /\ Len(backups') \in Nat /\ Len(replies) \in Nat
    BY DEF MInv, WireTypeOK
  <2>2. ASSUME NEW i \in 1..Len(inbox')
        PROVE  /\ call'[inbox'[i].call].step # "idle"
               /\ (inbox'[i].op = "apply") = (call'[inbox'[i].call].step = "applying")
               /\ inbox'[i].op = "apply" => inbox'[i].fix \in Fix
               /\ inbox'[i].op = "rollback" => inbox'[i].backup \in 1..Len(backups')
    BY <1>2, <2>1 DEF MInv, MessagesAreAwaited
  <2>3. ASSUME NEW j \in 1..Len(replies')
        PROVE  /\ call'[replies'[j].call].step # "idle"
               /\ replies'[j].backup \in 0..Len(backups')
    <3>1. CASE j = Len(replies')
      BY <1>2, <3>1 DEF MInv, MessagesAreAwaited
    <3>2. CASE j # Len(replies')
      <4>1. j \in 1..Len(replies)
        BY <1>2, <2>1, <3>2
      <4> QED
        BY <1>2, <2>1, <4>1 DEF MInv, MessagesAreAwaited
    <3> QED
      BY <3>1, <3>2
  <2> QED
    BY <2>2, <2>3 DEF MessagesAreAwaited
<1>5. VerifiedBackupExists'
  BY DEF MInv, WireTypeOK, VerifiedBackupExists
<1> QED
  BY <1>1, <1>3, <1>4, <1>5 DEF MInv

-----------------------------------------------------------------------------
(* The webview: a call gives up its message and may send another one *)

\* c has no message; the replies have lost the first k.
Released(c, k) ==
    /\ replies' \in Seq(Answered) /\ Len(replies') + k = Len(replies)
    /\ \A j \in 1..Len(replies') : replies'[j] = replies[j + k] /\ replies'[j].call # c
    /\ \A i \in 1..Len(inbox) : inbox[i].call # c

\* A call that awaits nothing has no message.
LEMMA IdleIsReleased ==
  ASSUME MInv, NEW c \in Call, call[c] = Idle, UNCHANGED replies
  PROVE  Released(c, 0)
<1>1. call[c].step = "idle"
  BY DEF Idle
<1>2. \A i \in 1..Len(inbox) : inbox[i].call # c
  BY <1>1 DEF MInv, MessagesAreAwaited
<1>3. \A j \in 1..Len(replies) : replies[j].call # c
  BY <1>1 DEF MInv, MessagesAreAwaited
<1>4. Len(replies) \in Nat
  BY DEF MInv, WireTypeOK
<1> QED
  BY <1>2, <1>3, <1>4 DEF Released, MInv, WireTypeOK

\* A call whose reply is delivered has no other message.
LEMMA DeliveredIsReleased ==
  ASSUME MInv, replies # <<>>, replies' = Tail(replies)
  PROVE  /\ Head(replies).call \in Call /\ Released(Head(replies).call, 1)
         /\ Head(replies) = replies[1] /\ 1 \in 1..Len(replies)
         /\ Head(replies) \in Answered
<1>1. /\ Head(replies) = replies[1] /\ 1 \in 1..Len(replies) /\ Len(replies) \in Nat
      /\ replies' \in Seq(Answered) /\ Len(replies') + 1 = Len(replies)
      /\ \A j \in 1..Len(replies') : replies'[j] = replies[j + 1]
      /\ Head(replies) \in Answered
  BY DEF MInv, WireTypeOK
<1>2. Len(replies') \in Nat
  BY <1>1
<1>3. ASSUME NEW j \in 1..Len(replies')
      PROVE  replies'[j].call # replies[1].call
  <2>1. j + 1 \in 1..Len(replies) /\ j + 1 # 1
    BY <1>1, <1>2
  <2> QED
    BY <1>1, <2>1 DEF MInv, OneMessage
<1>4. \A i \in 1..Len(inbox) : inbox[i].call # replies[1].call
  BY <1>1 DEF MInv, OneMessage
<1> QED
  BY <1>1, <1>3, <1>4 DEF Released, Answered

\* What the messages of other calls are is not touched.
LEMMA OthersKeepTheirMessages ==
  ASSUME MInv, NEW c \in Call, NEW k \in {0, 1}, Released(c, k),
         \A d \in Call \ {c} : call'[d] = call[d],
         Len(backups) = Len(backups')
  PROVE  /\ \A i, j \in 1..Len(replies') : replies'[i].call = replies'[j].call => i = j
         /\ \A j \in 1..Len(replies') :
              /\ replies'[j].call \in Call \ {c}
              /\ call'[replies'[j].call].step # "idle"
              /\ replies'[j].backup \in 0..Len(backups')
         /\ \A i \in 1..Len(inbox), j \in 1..Len(replies') :
              inbox[i].call # replies'[j].call
         /\ \A i \in 1..Len(inbox) :
              inbox[i].call \in Call \ {c} /\ call'[inbox[i].call] = call[inbox[i].call]
<1>1. /\ Len(replies') \in Nat /\ Len(replies) \in Nat
      /\ \A j \in 1..Len(replies) : replies[j].call \in Call
      /\ \A i \in 1..Len(inbox) : inbox[i].call \in Call
  <2>1. \A j \in 1..Len(replies) : replies[j] \in Answered
    BY DEF MInv, WireTypeOK
  <2>2. \A i \in 1..Len(inbox) : inbox[i] \in Asked
    BY DEF MInv, WireTypeOK
  <2>3. Len(replies') \in Nat /\ Len(replies) \in Nat
    BY DEF MInv, WireTypeOK, Released
  <2> QED
    BY <2>1, <2>2, <2>3 DEF Answered, Asked
<1>2. \A j \in 1..Len(replies') : j + k \in 1..Len(replies)
  BY <1>1 DEF Released
<1>3. ASSUME NEW i \in 1..Len(replies'), NEW j \in 1..Len(replies'),
             replies'[i].call = replies'[j].call
      PROVE  i = j
  <2>1. replies[i + k].call = replies[j + k].call
    BY <1>3 DEF Released
  <2>2. i + k = j + k
    BY <1>2, <2>1 DEF MInv, OneMessage
  <2> QED
    BY <2>2
<1>4. ASSUME NEW j \in 1..Len(replies')
      PROVE  /\ replies'[j].call \in Call \ {c}
             /\ call'[replies'[j].call].step # "idle"
             /\ replies'[j].backup \in 0..Len(backups')
             /\ \A i \in 1..Len(inbox) : inbox[i].call # replies'[j].call
  BY <1>1, <1>2 DEF Released, MInv, MessagesAreAwaited, OneMessage
<1> QED
  BY <1>1, <1>3, <1>4 DEF Released

\* A call ends.
LEMMA FinishPreservesMessages ==
  ASSUME MInv, NEW c \in Call, NEW k \in {0, 1}, Released(c, k), Finished(c),
         UNCHANGED <<managed, backups>>
  PROVE  MInv'
<1>1. /\ call' = [call EXCEPT ![c] = Idle] /\ call'[c].step = "idle"
      /\ \A d \in Call \ {c} : call'[d] = call[d]
  BY DEF Finished, Idle, MInv, WireTypeOK
<1>2. WireTypeOK'
  BY <1>1 DEF MInv, WireTypeOK, Finished, Released, Idle, NoBackup
<1>3. OneMessage' /\ MessagesAreAwaited'
  BY <1>1, OthersKeepTheirMessages
     DEF MInv, OneMessage, MessagesAreAwaited, Finished
<1>4. VerifiedBackupExists'
  BY <1>1 DEF MInv, VerifiedBackupExists
<1> QED
  BY <1>2, <1>3, <1>4 DEF MInv

\* A call sends a request and is suspended.
LEMMA AskPreservesMessages ==
  ASSUME MInv, NEW c \in Call, NEW k \in {0, 1}, Released(c, k),
         NEW op \in {"apply", "rollback", "audit"}, NEW fix \in Fix \cup {NoFix},
         NEW b \in Nat, NEW held \in Nat,
         NEW step \in {"applying", "verifying", "undoing", "rereading", "auditing"},
         Invoke(op, fix, b, c), Suspend(c, step, held),
         (op = "apply") = (step = "applying"),
         op = "apply" => fix \in Fix,
         op = "rollback" => b \in 1..Len(backups),
         step = "verifying" => held \in 1..Len(backups),
         UNCHANGED <<managed, backups>>
  PROVE  MInv'
<1> DEFINE m == [op |-> op, fix |-> fix, backup |-> b, call |-> c]
<1>1. /\ call' = [call EXCEPT ![c] = [step |-> step, backup |-> held]]
      /\ call'[c].step = step /\ call'[c].backup = held
      /\ \A d \in Call \ {c} : call'[d] = call[d]
  BY DEF Suspend, MInv, WireTypeOK
<1>2. /\ inbox' \in Seq(Asked) /\ Len(inbox') = Len(inbox) + 1 /\ Len(inbox) \in Nat
      /\ inbox'[Len(inbox')] = m
      /\ \A i \in 1..Len(inbox) : inbox'[i] = inbox[i]
      /\ \A i \in 1..Len(inbox') : i # Len(inbox') => i \in 1..Len(inbox)
  <2>1. m \in Asked /\ inbox' = Append(inbox, m)
    BY DEF Asked, Invoke
  <2> QED
    BY <2>1 DEF MInv, WireTypeOK
<1>3. WireTypeOK'
  BY <1>1, <1>2 DEF MInv, WireTypeOK, Released
<1>4. /\ \A i, j \in 1..Len(replies') : replies'[i].call = replies'[j].call => i = j
      /\ \A j \in 1..Len(replies') :
           /\ replies'[j].call \in Call \ {c}
           /\ call'[replies'[j].call].step # "idle"
           /\ replies'[j].backup \in 0..Len(backups')
      /\ \A i \in 1..Len(inbox), j \in 1..Len(replies') :
           inbox[i].call # replies'[j].call
      /\ \A i \in 1..Len(inbox) :
           inbox[i].call \in Call \ {c} /\ call'[inbox[i].call] = call[inbox[i].call]
  BY <1>1, OthersKeepTheirMessages
<1>5. OneMessage'
  <2>1. ASSUME NEW i \in 1..Len(inbox'), NEW j \in 1..Len(inbox'),
               inbox'[i].call = inbox'[j].call
        PROVE  i = j
    <3>1. CASE i = Len(inbox') \/ j = Len(inbox')
      BY <1>2, <1>4, <2>1, <3>1
    <3>2. CASE i # Len(inbox') /\ j # Len(inbox')
      BY <1>2, <2>1, <3>2 DEF MInv, OneMessage
    <3> QED
      BY <3>1, <3>2
  <2>2. ASSUME NEW i \in 1..Len(inbox'), NEW j \in 1..Len(replies')
        PROVE  inbox'[i].call # replies'[j].call
    BY <1>2, <1>4
  <2> QED
    BY <1>4, <2>1, <2>2 DEF OneMessage
<1>6. MessagesAreAwaited'
  <2>1. ASSUME NEW i \in 1..Len(inbox')
        PROVE  /\ call'[inbox'[i].call].step # "idle"
               /\ (inbox'[i].op = "apply") = (call'[inbox'[i].call].step = "applying")
               /\ inbox'[i].op = "apply" => inbox'[i].fix \in Fix
               /\ inbox'[i].op = "rollback" => inbox'[i].backup \in 1..Len(backups')
    <3>1. CASE i = Len(inbox')
      BY <1>1, <1>2, <3>1
    <3>2. CASE i # Len(inbox')
      BY <1>2, <1>4, <3>2 DEF MInv, MessagesAreAwaited
    <3> QED
      BY <3>1, <3>2
  <2> QED
    BY <1>4, <2>1 DEF MessagesAreAwaited
<1>7. VerifiedBackupExists'
  BY <1>1 DEF MInv, VerifiedBackupExists
<1> QED
  BY <1>3, <1>5, <1>6, <1>7 DEF MInv

-----------------------------------------------------------------------------
(* The dialog *)

\* A command changes nothing of the dialog; the backup it reports is the one it
\* took for the fix it was asked for.
LEMMA AnswerPreservesDialog ==
  ASSUME PInv, MInv', inbox # <<>>,
         NEW ok \in BOOLEAN, NEW b \in 0..Len(backups'), NEW required \in SUBSET Fix,
         Answer(ok, b, required),
         Len(backups) <= Len(backups'),
         \A i \in 1..Len(backups) : backups'[i] = backups[i],
         call[Head(inbox).call].step = "applying" /\ b # NoBackup
           => Head(inbox).op = "apply" /\ backups'[b].fix = Head(inbox).fix,
         UNCHANGED <<dialog, call, abandoned>>
  PROVE  DInv'
<1>1. /\ Len(backups) \in Nat /\ Len(backups') \in Nat /\ Len(replies) \in Nat
      /\ Head(inbox) = inbox[1] /\ 1 \in 1..Len(inbox)
      /\ Len(inbox') + 1 = Len(inbox) /\ Len(inbox') \in Nat
      /\ \A i \in 1..Len(inbox') : inbox'[i] = inbox[i + 1]
      /\ Len(replies') = Len(replies) + 1
      /\ \A j \in 1..Len(replies) : replies'[j] = replies[j]
      /\ replies'[Len(replies')].call = inbox[1].call
      /\ replies'[Len(replies')].backup = b
  BY DEF PInv, MInv, WireTypeOK, Answer, Asked, Answered
<1>2. DialogTypeOK' /\ OfferedRollbackHasBackup'
  BY <1>1 DEF PInv, DInv, DialogTypeOK, OfferedRollbackHasBackup, dialog, Open
<1>3. ASSUME ~abandoned'
      PROVE  /\ \A c \in Call : Working(c)' => Open'
             /\ \A i \in 1..Len(inbox') : inbox'[i].op = "apply" => inbox'[i].fix = active'.fix
             /\ \A i \in 1..Len(replies') :
                  call'[replies'[i].call].step = "applying" /\ replies'[i].backup # NoBackup
                    => backups'[replies'[i].backup].fix = active'.fix
             /\ \A c \in Call :
                  call'[c].step = "verifying" => backups'[call'[c].backup].fix = active'.fix
             /\ active'.backup # NoBackup => backups'[active'.backup].fix = active'.fix
  <2>1. \A c \in Call : Working(c)' => Open'
    BY <1>3 DEF PInv, DInv, WorkIsOfTheDialog, Working, Open, dialog
  <2>2. ASSUME NEW i \in 1..Len(inbox'), inbox'[i].op = "apply"
        PROVE  inbox'[i].fix = active'.fix
    <3>1. i + 1 \in 1..Len(inbox)
      BY <1>1
    <3> QED
      BY <1>1, <1>3, <2>2, <3>1 DEF PInv, DInv, WorkIsOfTheDialog, dialog
  <2>3. ASSUME NEW j \in 1..Len(replies'),
               call'[replies'[j].call].step = "applying", replies'[j].backup # NoBackup
        PROVE  backups'[replies'[j].backup].fix = active'.fix
    <3>1. CASE j = Len(replies')
      <4>1. Head(inbox).op = "apply" /\ backups'[b].fix = Head(inbox).fix
        BY <1>1, <2>3, <3>1
      <4>2. inbox[1].fix = active.fix
        BY <1>1, <1>3, <4>1 DEF PInv, DInv, WorkIsOfTheDialog
      <4> QED
        BY <1>1, <3>1, <4>1, <4>2 DEF dialog
    <3>2. CASE j # Len(replies')
      <4>1. j \in 1..Len(replies) /\ replies'[j] = replies[j]
        BY <1>1, <3>2
      <4>2. replies[j].backup \in 1..Len(backups)
        BY <1>1, <2>3, <4>1 DEF PInv, MInv, MessagesAreAwaited, NoBackup
      <4>3. backups[replies[j].backup].fix = active.fix
        BY <1>3, <2>3, <4>1 DEF PInv, DInv, WorkIsOfTheDialog
      <4> QED
        BY <4>1, <4>2, <4>3 DEF dialog
    <3> QED
      BY <3>1, <3>2
  <2>4. ASSUME NEW c \in Call, call'[c].step = "verifying"
        PROVE  backups'[call'[c].backup].fix = active'.fix
    BY <1>3, <2>4 DEF PInv, MInv, DInv, VerifiedBackupExists, WorkIsOfTheDialog, dialog
  <2>5. ASSUME active'.backup # NoBackup
        PROVE  backups'[active'.backup].fix = active'.fix
    <3>1. active.backup \in 1..Len(backups)
      BY <1>1, <2>5 DEF PInv, DInv, DialogTypeOK, dialog, NoBackup
    <3> QED
      BY <1>3, <2>5, <3>1 DEF PInv, DInv, WorkIsOfTheDialog, dialog
  <2> QED
    BY <2>1, <2>2, <2>3, <2>4, <2>5
<1> QED
  BY <1>2, <1>3 DEF DInv, WorkIsOfTheDialog

\* A delivery that leaves the dialog's fix alone: its call ends or sends an audit
\* request, and the backup the dialog gets is the one the call holds.
LEMMA DeliveryPreservesWork ==
  ASSUME PInv, NEW c \in Call, Released(c, 1),
         UNCHANGED <<backups, abandoned>>, active'.fix = active.fix,
         \A d \in Call \ {c} : call'[d] = call[d],
         \/ inbox' = inbox /\ call'[c].step = "idle"
         \/ /\ Invoke("audit", NoFix, NoBackup, c) /\ Working(c)
            /\ call'[c].step \in {"verifying", "rereading"},
         call'[c].step = "verifying" =>
           /\ call[c].step = "applying" /\ call'[c].backup = Head(replies).backup
           /\ Head(replies).backup # NoBackup /\ Head(replies).call = c
           /\ Head(replies) = replies[1] /\ 1 \in 1..Len(replies),
         \/ active'.backup = active.backup
         \/ call[c].step = "verifying" /\ active'.backup = call[c].backup
  PROVE  WorkIsOfTheDialog'
<1>1. /\ \A j \in 1..Len(replies') : replies'[j].call \in Call \ {c}
      /\ Len(replies') \in Nat /\ Len(replies) = Len(replies') + 1
  BY OthersKeepTheirMessages DEF PInv, Released
<1>2. \A i \in 1..Len(inbox') : inbox'[i].op = "apply"
                                 => i \in 1..Len(inbox) /\ inbox'[i] = inbox[i]
  <2>1. CASE inbox' = inbox
    BY <2>1
  <2>2. CASE Invoke("audit", NoFix, NoBackup, c)
    BY <2>2 DEF Invoke, PInv, MInv, WireTypeOK
  <2> QED
    BY <2>1, <2>2
<1>3. SUFFICES ASSUME ~abandoned' PROVE WorkIsOfTheDialog'
  BY DEF WorkIsOfTheDialog
<1>4. /\ \A d \in Call : Working(d) => Open
      /\ \A i \in 1..Len(inbox) : inbox[i].op = "apply" => inbox[i].fix = active.fix
      /\ \A i \in 1..Len(replies) :
           call[replies[i].call].step = "applying" /\ replies[i].backup # NoBackup
             => backups[replies[i].backup].fix = active.fix
      /\ \A d \in Call :
           call[d].step = "verifying" => backups[call[d].backup].fix = active.fix
      /\ active.backup # NoBackup => backups[active.backup].fix = active.fix
  BY <1>3 DEF PInv, DInv, WorkIsOfTheDialog
<1>5. ASSUME NEW d \in Call, Working(d)'
      PROVE  Open'
  BY <1>4, <1>5 DEF Working, Open
<1>6. ASSUME NEW i \in 1..Len(inbox'), inbox'[i].op = "apply"
      PROVE  inbox'[i].fix = active'.fix
  BY <1>2, <1>4, <1>6
<1>7. ASSUME NEW j \in 1..Len(replies'),
             call'[replies'[j].call].step = "applying", replies'[j].backup # NoBackup
      PROVE  backups'[replies'[j].backup].fix = active'.fix
  <2>1. j + 1 \in 1..Len(replies) /\ replies'[j] = replies[j + 1]
    BY <1>1 DEF Released
  <2> QED
    BY <1>1, <1>4, <1>7, <2>1
<1>8. ASSUME NEW d \in Call, call'[d].step = "verifying"
      PROVE  backups'[call'[d].backup].fix = active'.fix
  <2>1. CASE d = c
    BY <1>4, <1>8, <2>1
  <2>2. CASE d # c
    BY <1>4, <1>8, <2>2
  <2> QED
    BY <2>1, <2>2
<1>9. active'.backup # NoBackup => backups'[active'.backup].fix = active'.fix
  BY <1>4
<1> QED
  BY <1>5, <1>6, <1>7, <1>8, <1>9 DEF WorkIsOfTheDialog

\* A call that begins asks for the dialog's own fix.
LEMMA AskPreservesWork ==
  ASSUME PInv, NEW c \in Call, call[c] = Idle,
         NEW op, NEW fix, NEW b, NEW held,
         NEW step \in {"applying", "undoing", "auditing"},
         Invoke(op, fix, b, c), Suspend(c, step, held),
         op = "apply" => fix = active.fix,
         step # "auditing" => Open,
         UNCHANGED <<active, backups, replies, abandoned>>
  PROVE  WorkIsOfTheDialog'
<1>1. /\ call'[c].step = step /\ \A d \in Call \ {c} : call'[d] = call[d]
  BY DEF Suspend, PInv, MInv, WireTypeOK
<1>2. /\ Len(inbox) \in Nat /\ Len(inbox') = Len(inbox) + 1
      /\ \A i \in 1..Len(inbox) : inbox'[i] = inbox[i]
      /\ inbox'[Len(inbox')].op = op /\ inbox'[Len(inbox')].fix = fix
      /\ \A i \in 1..Len(inbox') : i # Len(inbox') => i \in 1..Len(inbox)
  BY DEF Invoke, PInv, MInv, WireTypeOK
<1>3. Released(c, 0)
  BY IdleIsReleased DEF PInv
<1>4. SUFFICES ASSUME ~abandoned' PROVE WorkIsOfTheDialog'
  BY DEF WorkIsOfTheDialog
<1>5. /\ \A d \in Call : Working(d) => Open
      /\ \A i \in 1..Len(inbox) : inbox[i].op = "apply" => inbox[i].fix = active.fix
      /\ \A i \in 1..Len(replies) :
           call[replies[i].call].step = "applying" /\ replies[i].backup # NoBackup
             => backups[replies[i].backup].fix = active.fix
      /\ \A d \in Call :
           call[d].step = "verifying" => backups[call[d].backup].fix = active.fix
      /\ active.backup # NoBackup => backups[active.backup].fix = active.fix
  BY <1>4 DEF PInv, DInv, WorkIsOfTheDialog
<1>6. \A d \in Call : Working(d)' => Open'
  BY <1>1, <1>5 DEF Working, Open
<1>7. \A i \in 1..Len(inbox') : inbox'[i].op = "apply" => inbox'[i].fix = active'.fix
  BY <1>2, <1>5
<1>8. \A i \in 1..Len(replies') :
         call'[replies'[i].call].step = "applying" /\ replies'[i].backup # NoBackup
           => backups'[replies'[i].backup].fix = active'.fix
  <2>1. ASSUME NEW i \in 1..Len(replies')
        PROVE  replies[i].call \in Call \ {c}
    <3>1. replies'[i].call # c
      BY <1>3 DEF Released
    <3>2. replies[i] \in Answered
      BY DEF PInv, MInv, WireTypeOK
    <3> QED
      BY <3>1, <3>2 DEF Answered
  <2> QED
    BY <1>1, <1>5, <2>1
<1>9. \A d \in Call :
         call'[d].step = "verifying" => backups'[call'[d].backup].fix = active'.fix
  BY <1>1, <1>5
<1> QED
  BY <1>5, <1>6, <1>7, <1>8, <1>9 DEF WorkIsOfTheDialog

-----------------------------------------------------------------------------
(* Every step *)

LEMMA ServePreserves == PInv /\ Serve => PInv'
<1> SUFFICES ASSUME PInv, Serve PROVE PInv'
  OBVIOUS
<1> DEFINE m == Head(inbox)
<1>1. /\ inbox # <<>> /\ m = inbox[1] /\ m \in Asked /\ 1 \in 1..Len(inbox)
      /\ UNCHANGED <<overridden, listed, dialog, call, abandoned>>
  BY DEF Serve, PInv, MInv, WireTypeOK
<1>2. /\ (m.op = "apply") = (call[m.call].step = "applying")
      /\ m.op = "apply" => m.fix \in Fix
      /\ m.op = "rollback" => m.backup \in 1..Len(backups)
  BY <1>1 DEF PInv, MInv, MessagesAreAwaited
<1>3. Len(backups) \in Nat /\ managed \in SUBSET Fix /\ backups \in Seq(Taken)
  BY DEF PInv, MInv, WireTypeOK
<1>4. PageTypeOK'
  BY <1>1 DEF PInv, PageTypeOK
<1>5. CASE m.op = "audit" /\ ServeAudit
  <2>1. PICK ok \in BOOLEAN, required \in SUBSET Fix : Answer(ok, NoBackup, required)
    BY <1>5 DEF ServeAudit, Insecure, PInv, PageTypeOK
  <2>2. NoBackup \in 0..Len(backups') /\ UNCHANGED <<managed, backups>>
    BY <1>3, <1>5 DEF NoBackup, ServeAudit, server
  <2>3. MInv'
    BY <1>1, <1>3, <2>1, <2>2, AnswerPreservesMessages DEF PInv
  <2>4. DInv'
    BY <1>1, <1>3, <2>1, <2>2, <2>3, AnswerPreservesDialog
  <2> QED
    BY <1>4, <2>3, <2>4 DEF PInv
<1>6. CASE m.op = "apply" /\ ServeApply(m.fix)
  <2>1. CASE /\ managed' = managed \cup {m.fix}
             /\ backups' = Append(backups, [fix |-> m.fix, before |-> managed])
             /\ \E ok \in BOOLEAN : Answer(ok, IF ok THEN Len(backups') ELSE NoBackup, {})
    <3>1. /\ managed' \in SUBSET Fix /\ backups' \in Seq(Taken)
          /\ Len(backups') = Len(backups) + 1
          /\ \A i \in 1..Len(backups) : backups'[i] = backups[i]
          /\ backups'[Len(backups')].fix = m.fix
      <4>1. [fix |-> m.fix, before |-> managed] \in Taken
        BY <1>2, <1>3, <1>6 DEF Taken
      <4> QED
        BY <1>2, <1>3, <1>6, <2>1, <4>1
    <3>2. PICK ok \in BOOLEAN : Answer(ok, IF ok THEN Len(backups') ELSE NoBackup, {})
      BY <2>1
    <3> DEFINE b == IF ok THEN Len(backups') ELSE NoBackup
    <3>3. b \in 0..Len(backups') /\ (b # NoBackup => backups'[b].fix = m.fix)
      BY <1>3, <3>1 DEF NoBackup
    <3>4. Answer(ok, b, {}) /\ Len(backups) <= Len(backups') /\ {} \in SUBSET Fix
      BY <1>3, <3>1, <3>2
    <3> HIDE DEF b
    <3>5. MInv'
      BY <1>1, <3>1, <3>3, <3>4, AnswerPreservesMessages DEF PInv
    <3>6. DInv'
      BY <1>1, <1>6, <3>1, <3>3, <3>4, <3>5, AnswerPreservesDialog
    <3> QED
      BY <1>4, <3>5, <3>6 DEF PInv
  <2>2. CASE UNCHANGED <<managed, backups>> /\ Answer(FALSE, NoBackup, {})
    <3>1. NoBackup \in 0..Len(backups') /\ {} \in SUBSET Fix
      BY <1>3, <2>2 DEF NoBackup
    <3>4. PICK ok \in BOOLEAN : Answer(ok, NoBackup, {})
      BY <2>2
    <3>2. MInv'
      BY <1>1, <1>3, <2>2, <3>1, <3>4, AnswerPreservesMessages DEF PInv
    <3>3. DInv'
      BY <1>1, <1>3, <2>2, <3>1, <3>2, <3>4, AnswerPreservesDialog
    <3> QED
      BY <1>4, <3>2, <3>3 DEF PInv
  <2> QED
    BY <1>6, <2>1, <2>2 DEF ServeApply, GiveUp
<1>7. CASE m.op = "rollback" /\ ServeRollback(m.backup)
  <2>1. managed' \in SUBSET Fix /\ UNCHANGED backups
    <3>1. backups[m.backup] \in Taken
      BY <1>2, <1>3, <1>7
    <3> QED
      BY <1>3, <1>7, <3>1 DEF ServeRollback, Taken
  <2>2. PICK ok \in BOOLEAN : Answer(ok, NoBackup, {})
    BY <1>7 DEF ServeRollback, GiveUp
  <2>3. NoBackup \in 0..Len(backups') /\ {} \in SUBSET Fix
    BY <1>3, <2>1 DEF NoBackup
  <2>4. MInv'
    BY <1>1, <1>3, <2>1, <2>2, <2>3, AnswerPreservesMessages DEF PInv
  <2>5. DInv'
    BY <1>1, <1>3, <2>1, <2>2, <2>3, <2>4, AnswerPreservesDialog
  <2> QED
    BY <1>4, <2>4, <2>5 DEF PInv
<1> QED
  BY <1>5, <1>6, <1>7 DEF Serve

\* What the page shows changes, and no message.
LEMMA ShowPreservesMessages ==
  ASSUME MInv, UNCHANGED <<managed, backups, call, inbox, replies>>
  PROVE  MInv'
BY DEF MInv, WireTypeOK, OneMessage, MessagesAreAwaited, VerifiedBackupExists

\* A dialog that is opened or closed holds no backup, and if nothing is under
\* way it takes no one's work over.
LEMMA FreshDialogPreservesWork ==
  ASSUME PInv, UNCHANGED <<backups, call, inbox, replies>>, active'.backup = NoBackup,
         ~abandoned' => \A c \in Call : ~Working(c)
  PROVE  WorkIsOfTheDialog'
<1> SUFFICES ASSUME ~abandoned' PROVE WorkIsOfTheDialog'
  BY DEF WorkIsOfTheDialog
<1>1. \A c \in Call : call[c].step # "applying" /\ call[c].step # "verifying" /\ ~Working(c)'
  BY DEF Working
<1>2. ASSUME NEW i \in 1..Len(inbox')
      PROVE  inbox'[i].op # "apply"
  <2>1. inbox[i] \in Asked
    BY DEF PInv, MInv, WireTypeOK
  <2>2. inbox[i].call \in Call
    BY <2>1 DEF Asked
  <2> QED
    BY <1>1, <2>2 DEF PInv, MInv, MessagesAreAwaited
<1>3. ASSUME NEW i \in 1..Len(replies')
      PROVE  call'[replies'[i].call].step # "applying"
  <2>1. replies[i] \in Answered
    BY DEF PInv, MInv, WireTypeOK
  <2>2. replies[i].call \in Call
    BY <2>1 DEF Answered
  <2> QED
    BY <1>1, <2>2
<1> QED
  BY <1>1, <1>2, <1>3 DEF WorkIsOfTheDialog

LEMMA StepPreserves == PInv /\ Step => PInv'
<1> SUFFICES ASSUME PInv, Step PROVE PInv'
  OBVIOUS
<1>1. /\ UNCHANGED <<managed, overridden, backups, replies>>
      /\ Len(backups) \in Nat
      /\ DialogTypeOK /\ OfferedRollbackHasBackup /\ MInv
  BY DEF Step, server, PInv, DInv, MInv, WireTypeOK
<1>2. CASE \E id \in Previews : Prepare(id)
  <2>1. PICK id \in Previews : Prepare(id)
    BY <1>2
  <2>2. id \in Fix \cup Review
    BY DEF Previews, PInv, PageTypeOK
  <2>3. DialogTypeOK' /\ OfferedRollbackHasBackup'
    <3>1. active' \in [fix : Fix \cup Review \cup {NoFix}, backup : 0..Len(backups'),
                       applied : BOOLEAN]
      BY <1>1, <2>1, <2>2 DEF Prepare, NoBackup
    <3>2. apply' \in Button
      <4> DEFINE shown == id \in Fix
      <4>1. apply' = [shown |-> shown, enabled |-> TRUE] /\ shown \in BOOLEAN
        BY <2>1 DEF Prepare
      <4> HIDE DEF shown
      <4> QED
        BY <4>1 DEF Button
    <3>3. rollback' \in Button /\ ~rollback'.shown
      BY <1>1, <2>1 DEF Prepare, DialogTypeOK, Button
    <3> QED
      BY <1>1, <2>1, <3>1, <3>2, <3>3
         DEF Prepare, DialogTypeOK, OfferedRollbackHasBackup
  <2>4. MInv'
    BY <1>1, <2>1, ShowPreservesMessages DEF Prepare
  <2>5. WorkIsOfTheDialog'
    <3>1. ~abandoned' => \A c \in Call : ~Working(c)
      BY <2>1 DEF Prepare, PInv, DInv, WorkIsOfTheDialog
    <3> QED
      BY <1>1, <2>1, <3>1, FreshDialogPreservesWork DEF Prepare
  <2> QED
    BY <1>1, <2>1, <2>3, <2>4, <2>5 DEF PInv, DInv, PageTypeOK, Prepare
<1>3. CASE Close
  <2>1. DialogTypeOK' /\ OfferedRollbackHasBackup'
    <3>1. Closed \in [fix : Fix \cup Review \cup {NoFix}, backup : 0..Len(backups),
                      applied : BOOLEAN]
      BY <1>1 DEF Closed, NoBackup
    <3>2. active' = Closed /\ Closed.fix = NoFix /\ Closed.backup = NoBackup
      BY <1>3 DEF Close, Closed
    <3> QED
      BY <1>1, <1>3, <3>1, <3>2
         DEF Close, DialogTypeOK, OfferedRollbackHasBackup, Open
  <2>2. MInv'
    BY <1>1, <1>3, ShowPreservesMessages DEF Close
  <2>3. WorkIsOfTheDialog'
    BY <1>1, <1>3, FreshDialogPreservesWork DEF Close, Closed
  <2> QED
    BY <1>1, <1>3, <2>1, <2>2, <2>3 DEF PInv, DInv, PageTypeOK, Close
<1>4. CASE ConnectionChanges
  <2>1. DInv'
    BY <1>1, <1>4 DEF ConnectionChanges, dialog, PInv, DInv, DialogTypeOK,
       OfferedRollbackHasBackup, WorkIsOfTheDialog, Working, Open
  <2>2. MInv'
    BY <1>1, <1>4, ShowPreservesMessages DEF ConnectionChanges
  <2>3. PageTypeOK'
    BY <1>1, <1>4 DEF ConnectionChanges, ClearSecurityAuditDisplay, PInv, PageTypeOK
  <2> QED
    BY <2>1, <2>2, <2>3 DEF PInv
<1>5. ASSUME NEW c \in Call, call[c] = Idle, ApplySecurityFix(c)
      PROVE  PInv'
  <2>1. /\ Invoke("apply", active.fix, NoBackup, c) /\ Suspend(c, "applying", NoBackup)
        /\ active.fix \in Fix /\ UNCHANGED <<listed, active, abandoned>>
        /\ apply' = [apply EXCEPT !.enabled = FALSE]
        /\ rollback' = [rollback EXCEPT !.shown = FALSE]
    BY <1>5 DEF ApplySecurityFix
  <2>2. Released(c, 0)
    BY <1>1, <1>5, IdleIsReleased
  <2>3. MInv'
    BY <1>1, <2>1, <2>2, AskPreservesMessages DEF NoBackup
  <2>4. Open
    BY <2>1, PanelAssumption DEF Open
  <2>5. WorkIsOfTheDialog'
    BY <1>1, <1>5, <2>1, <2>4, AskPreservesWork
  <2>6. DialogTypeOK' /\ OfferedRollbackHasBackup'
    <3>1. apply' \in Button /\ rollback' \in Button /\ ~rollback'.shown
      BY <1>1, <2>1 DEF DialogTypeOK, Button
    <3> QED
      BY <1>1, <2>1, <3>1 DEF DialogTypeOK, OfferedRollbackHasBackup, Open
  <2> QED
    BY <1>1, <2>1, <2>3, <2>5, <2>6 DEF PInv, DInv, PageTypeOK
<1>6. ASSUME NEW c \in Call, call[c] = Idle, RollbackSecurityFix(c)
      PROVE  PInv'
  <2>1. /\ Invoke("rollback", NoFix, active.backup, c) /\ Suspend(c, "undoing", NoBackup)
        /\ active.backup # NoBackup /\ UNCHANGED <<listed, active, apply, abandoned>>
        /\ rollback' = [rollback EXCEPT !.enabled = FALSE]
    BY <1>6 DEF RollbackSecurityFix
  <2>2. Released(c, 0)
    BY <1>1, <1>6, IdleIsReleased
  <2>3. active.backup \in 1..Len(backups)
    BY <1>1, <2>1 DEF DialogTypeOK, NoBackup
  <2>4. MInv'
    BY <1>1, <2>1, <2>2, <2>3, AskPreservesMessages DEF NoBackup
  <2>5. Open
    BY <1>1, <2>1 DEF DialogTypeOK
  <2>6. WorkIsOfTheDialog'
    BY <1>1, <1>6, <2>1, <2>5, AskPreservesWork
  <2>7. DialogTypeOK' /\ OfferedRollbackHasBackup'
    <3>1. rollback' \in Button
      BY <1>1, <2>1 DEF DialogTypeOK, Button
    <3> QED
      BY <1>1, <2>1, <3>1 DEF DialogTypeOK, OfferedRollbackHasBackup, Open
  <2> QED
    BY <1>1, <2>1, <2>4, <2>6, <2>7 DEF PInv, DInv, PageTypeOK
<1>7. ASSUME NEW c \in Call, call[c] = Idle, LoadSecurityAudit(c)
      PROVE  PInv'
  <2>1. /\ Invoke("audit", NoFix, NoBackup, c) /\ Suspend(c, "auditing", NoBackup)
        /\ UNCHANGED <<listed, active, apply, rollback, abandoned>>
    BY <1>7 DEF LoadSecurityAudit, dialog
  <2>2. Released(c, 0)
    BY <1>1, <1>7, IdleIsReleased
  <2>3. MInv'
    BY <1>1, <2>1, <2>2, AskPreservesMessages DEF NoBackup
  <2>4. WorkIsOfTheDialog'
    BY <1>1, <1>7, <2>1, AskPreservesWork
  <2>5. DialogTypeOK' /\ OfferedRollbackHasBackup'
    BY <1>1, <2>1 DEF DialogTypeOK, OfferedRollbackHasBackup, Open
  <2> QED
    BY <1>1, <2>1, <2>3, <2>4, <2>5 DEF PInv, DInv, PageTypeOK
<1> QED
  BY <1>2, <1>3, <1>4, <1>5, <1>6, <1>7 DEF Step

\* A reply is delivered to the call that awaits it.
LEMMA DeliverPreserves == PInv /\ Deliver => PInv'
<1> SUFFICES ASSUME PInv, Deliver PROVE PInv'
  OBVIOUS
<1> DEFINE r == Head(replies)
           c == r.call
<1>1. /\ c \in Call /\ Released(c, 1) /\ r = replies[1] /\ 1 \in 1..Len(replies)
      /\ r \in Answered
  BY DeliveredIsReleased DEF Deliver, PInv
<1>2. /\ UNCHANGED <<managed, overridden, backups, abandoned>>
      /\ Len(backups) \in Nat /\ r.required \in SUBSET Fix
      /\ r.backup \in 0..Len(backups)
      /\ DialogTypeOK /\ OfferedRollbackHasBackup /\ MInv
  <2>1. UNCHANGED <<managed, overridden, backups, abandoned>>
    BY DEF Deliver, server
  <2>2. /\ DialogTypeOK /\ OfferedRollbackHasBackup /\ MInv
        /\ Len(backups) \in Nat
    BY DEF PInv, DInv, MInv, WireTypeOK
  <2>3. r.required \in SUBSET Fix
    BY <1>1 DEF Answered
  <2>4. r.backup \in 0..Len(backups)
    BY <1>1, <2>2 DEF MInv, MessagesAreAwaited
  <2> QED
    BY <2>1, <2>2, <2>3, <2>4
<1> HIDE DEF r, c
\* It ends: the dialog keeps its backup, or gets the one the call holds.
<1>3. ASSUME Finished(c), active'.fix = active.fix,
             \/ active'.backup = active.backup
             \/ call[c].step = "verifying" /\ active'.backup = call[c].backup
      PROVE  MInv' /\ WorkIsOfTheDialog'
  <2>1. /\ call'[c].step = "idle" /\ inbox' = inbox
        /\ \A d \in Call \ {c} : call'[d] = call[d]
    BY <1>1, <1>2, <1>3 DEF Finished, Idle, MInv, WireTypeOK
  <2>2. MInv'
    BY <1>1, <1>2, <1>3, FinishPreservesMessages
  <2>3. WorkIsOfTheDialog'
    BY <1>1, <1>2, <1>3, <2>1, DeliveryPreservesWork
  <2> QED
    BY <2>2, <2>3
\* It asks for an audit, and the dialog is as it was.
<1>4. ASSUME NEW step \in {"verifying", "rereading"}, NEW held \in 0..Len(backups),
             Invoke("audit", NoFix, NoBackup, c), Suspend(c, step, held), Working(c),
             step = "verifying" =>
               call[c].step = "applying" /\ held = r.backup /\ held # NoBackup,
             UNCHANGED <<listed, dialog>>
      PROVE  PInv'
  <2>1. /\ call'[c].step = step /\ call'[c].backup = held
        /\ \A d \in Call \ {c} : call'[d] = call[d]
    BY <1>1, <1>2, <1>4 DEF Suspend, MInv, WireTypeOK
  <2>2. held \in Nat /\ (step = "verifying" => held \in 1..Len(backups))
    BY <1>2, <1>4 DEF NoBackup
  <2>3. MInv'
    BY <1>1, <1>2, <1>4, <2>2, AskPreservesMessages DEF NoBackup
  <2>4. WorkIsOfTheDialog'
    BY <1>1, <1>2, <1>4, <2>1, DeliveryPreservesWork DEF r, c, dialog
  <2>5. DialogTypeOK' /\ OfferedRollbackHasBackup'
    BY <1>2, <1>4 DEF DialogTypeOK, OfferedRollbackHasBackup, Open, dialog
  <2> QED
    BY <1>2, <1>4, <2>3, <2>4, <2>5 DEF PInv, DInv, PageTypeOK
\* An apply that fails.
<1>5. ASSUME ApplyFails(c), \/ Unapplied
                            \/ UNCHANGED active
      PROVE  PInv'
  <2>1. /\ active'.fix = active.fix /\ active'.backup = active.backup
        /\ active' \in [fix : Fix \cup Review \cup {NoFix}, backup : 0..Len(backups),
                        applied : BOOLEAN]
    BY <1>2, <1>5 DEF Unapplied, DialogTypeOK
  <2>2. apply' \in Button /\ UNCHANGED <<listed, rollback>> /\ Finished(c)
    BY <1>2, <1>5 DEF ApplyFails, DialogTypeOK, Button
  <2>3. DialogTypeOK' /\ OfferedRollbackHasBackup'
    BY <1>2, <2>1, <2>2 DEF DialogTypeOK, OfferedRollbackHasBackup, Open
  <2> QED
    BY <1>2, <1>3, <2>1, <2>2, <2>3 DEF PInv, DInv, PageTypeOK
\* A rollback that fails.
<1>6. ASSUME RollbackFails(c)
      PROVE  PInv'
  <2>1. /\ UNCHANGED <<listed, active, apply>> /\ Finished(c)
        /\ rollback' \in Button /\ rollback'.shown = rollback.shown
    BY <1>2, <1>6 DEF RollbackFails, DialogTypeOK, Button
  <2>2. DialogTypeOK' /\ OfferedRollbackHasBackup'
    BY <1>2, <2>1 DEF DialogTypeOK, OfferedRollbackHasBackup, Open
  <2> QED
    BY <1>2, <1>3, <2>1, <2>2 DEF PInv, DInv, PageTypeOK
<1>7. CASE call[c].step = "applying" /\ AfterApply(c, r)
  <2>1. CASE r.ok /\ r.backup # NoBackup /\ Invoke("audit", NoFix, NoBackup, c)
             /\ Suspend(c, "verifying", r.backup) /\ UNCHANGED <<listed, dialog>>
    BY <1>2, <1>4, <1>7, <2>1 DEF Working
  <2>2. CASE ApplyFails(c) /\ (Unapplied \/ UNCHANGED active)
    BY <1>5, <2>2
  <2> QED
    BY <1>7, <2>1, <2>2 DEF AfterApply
<1>8. CASE call[c].step = "verifying" /\ AfterVerify(c, r)
  <2>1. CASE Unapplied /\ ApplyFails(c)
    BY <1>5, <2>1
  <2>2. CASE /\ Open
             /\ active' = [active EXCEPT !.backup = call[c].backup, !.applied = TRUE]
             /\ rollback' = [rollback EXCEPT !.shown = TRUE]
             /\ apply' = [shown |-> FALSE, enabled |-> TRUE]
             /\ RenderSecurityAudit(r.required) /\ Finished(c)
    <3>1. call[c].backup \in 1..Len(backups)
      BY <1>1, <1>2, <1>8 DEF MInv, VerifiedBackupExists
    <3>2. /\ active'.fix = active.fix /\ active'.backup = call[c].backup
          /\ active' \in [fix : Fix \cup Review \cup {NoFix}, backup : 0..Len(backups),
                          applied : BOOLEAN]
      <4>1. call[c].backup \in 0..Len(backups)
        BY <1>2, <3>1
      <4>2. active \in [fix : Fix \cup Review \cup {NoFix}, backup : 0..Len(backups),
                        applied : BOOLEAN]
        BY <1>2 DEF DialogTypeOK
      <4> QED
        BY <1>2, <2>2, <4>1, <4>2
    <3>3. apply' \in Button /\ rollback' \in Button
      BY <1>2, <2>2 DEF DialogTypeOK, Button
    <3>4. DialogTypeOK' /\ OfferedRollbackHasBackup'
      BY <1>2, <2>2, <3>1, <3>2, <3>3
         DEF DialogTypeOK, OfferedRollbackHasBackup, Open, NoBackup
    <3> QED
      BY <1>2, <1>3, <1>8, <2>2, <3>2, <3>4
         DEF PInv, DInv, PageTypeOK, RenderSecurityAudit
  <2> QED
    BY <1>8, <2>1, <2>2 DEF AfterVerify
<1>9. CASE call[c].step = "undoing" /\ AfterRollback(c, r)
  <2>1. CASE Invoke("audit", NoFix, NoBackup, c) /\ Suspend(c, "rereading", NoBackup)
             /\ UNCHANGED <<listed, dialog>>
    <3>1. NoBackup \in 0..Len(backups)
      BY <1>2 DEF NoBackup
    <3> QED
      BY <1>4, <1>9, <2>1, <3>1 DEF Working
  <2>2. CASE RollbackFails(c)
    BY <1>6, <2>2
  <2> QED
    BY <1>9, <2>1, <2>2 DEF AfterRollback
<1>10. CASE call[c].step = "rereading" /\ AfterReread(c, r)
  <2>1. CASE RollbackFails(c)
    BY <1>6, <2>1
  <2>2. CASE /\ Unapplied /\ RenderSecurityAudit(r.required)
             /\ rollback' = [shown |-> FALSE, enabled |-> TRUE]
             /\ Finished(c) /\ UNCHANGED apply
    <3>1. /\ active'.fix = active.fix /\ active'.backup = active.backup
          /\ active' \in [fix : Fix \cup Review \cup {NoFix}, backup : 0..Len(backups),
                          applied : BOOLEAN]
      BY <1>2, <2>2 DEF Unapplied, DialogTypeOK
    <3>2. DialogTypeOK' /\ OfferedRollbackHasBackup'
      BY <1>2, <2>2, <3>1 DEF DialogTypeOK, OfferedRollbackHasBackup, Open, Button
    <3> QED
      BY <1>2, <1>3, <2>2, <3>1, <3>2 DEF PInv, DInv, PageTypeOK, RenderSecurityAudit
  <2> QED
    BY <1>10, <2>1, <2>2 DEF AfterReread
<1>11. CASE call[c].step = "auditing" /\ AfterAudit(c, r)
  <2>1. Finished(c) /\ listed' = r.required
    BY <1>11 DEF AfterAudit, RenderSecurityAudit
  <2>2. CASE UNCHANGED dialog
    <3>1. DialogTypeOK' /\ OfferedRollbackHasBackup'
      BY <1>2, <2>2 DEF DialogTypeOK, OfferedRollbackHasBackup, Open, dialog
    <3> QED
      BY <1>2, <1>3, <2>1, <2>2, <3>1 DEF PInv, DInv, PageTypeOK, dialog
  <2>3. CASE active.fix \in Fix /\ SyncActiveSecurityFix(r.required)
    <3>1. /\ active'.fix = active.fix /\ active'.backup = active.backup
          /\ active' \in [fix : Fix \cup Review \cup {NoFix}, backup : 0..Len(backups),
                          applied : BOOLEAN]
      <4>1. active' = [active EXCEPT !.applied = FALSE]
            \/ active' = [active EXCEPT !.applied = TRUE]
        BY <2>3 DEF SyncActiveSecurityFix, Unapplied
      <4>2. active \in [fix : Fix \cup Review \cup {NoFix}, backup : 0..Len(backups),
                        applied : BOOLEAN]
        BY <1>2 DEF DialogTypeOK
      <4> QED
        BY <1>2, <4>1, <4>2
    <3>2. apply' \in Button
      <4>1. \/ apply' = [shown |-> TRUE, enabled |-> TRUE]
            \/ apply' = [shown |-> FALSE, enabled |-> FALSE]
        BY <2>3 DEF SyncActiveSecurityFix
      <4>2. /\ [shown |-> TRUE, enabled |-> TRUE] \in Button
            /\ [shown |-> FALSE, enabled |-> FALSE] \in Button
        BY DEF Button
      <4> QED
        BY <4>1, <4>2
    <3>3. rollback' \in Button /\ (rollback'.shown => active.backup # NoBackup)
      <4>1. CASE rollback' = [rollback EXCEPT !.shown = FALSE]
        BY <1>2, <4>1 DEF DialogTypeOK, Button
      <4>2. CASE rollback' = [rollback EXCEPT !.shown = active.backup # NoBackup]
        <5> DEFINE shown == active.backup # NoBackup
        <5>1. shown \in BOOLEAN
          OBVIOUS
        <5>2. rollback' = [rollback EXCEPT !.shown = shown]
          BY <4>2
        <5> HIDE DEF shown
        <5>3. rollback' \in Button /\ rollback'.shown = shown
          BY <1>2, <5>1, <5>2 DEF DialogTypeOK, Button
        <5> QED
          BY <5>3 DEF shown
      <4> QED
        BY <2>3, <4>1, <4>2 DEF SyncActiveSecurityFix
    <3>4. DialogTypeOK' /\ OfferedRollbackHasBackup'
      BY <1>2, <3>1, <3>2, <3>3 DEF DialogTypeOK, OfferedRollbackHasBackup, Open
    <3> QED
      BY <1>2, <1>3, <2>1, <3>1, <3>4 DEF PInv, DInv, PageTypeOK
  <2> QED
    BY <1>11, <2>2, <2>3 DEF AfterAudit
<1> QED
  BY <1>7, <1>8, <1>9, <1>10, <1>11 DEF Deliver, r, c

-----------------------------------------------------------------------------
(* The theorems *)

\* A late helper touches nothing but the managed file.
LEMMA LateShape ==
  ASSUME PInv, LateInv, Late
  PROVE  /\ UNCHANGED <<overridden, backups, online, listed, dialog, call, inbox, replies,
                        steps, abandoned, unconfirmed, overlapped, unread>>
         /\ UNCHANGED <<active, claim, result, apply, rollback>>
         /\ unconfirmed /\ managed' \in SUBSET Fix
         /\ late' \in Helper \cup {NoHelper} /\ belated' \in BOOLEAN
         /\ ~belated' => ~belated /\ UNCHANGED managed
<1>1. /\ UNCHANGED <<overridden, backups, online, listed, dialog, call, inbox, replies,
                     steps, abandoned, unconfirmed, overlapped, unread>>
      /\ UNCHANGED <<active, claim, result, apply, rollback>>
      /\ unconfirmed /\ late \in Helper /\ belated' = (belated \/ managed' # managed)
  BY DEF Late, wire, dialog, LateInv
<1>2. managed \in SUBSET Fix /\ late.fix \in SUBSET Fix /\ late.content \in SUBSET Fix
  BY <1>1 DEF PInv, MInv, WireTypeOK, Helper
<1>3. managed' \in SUBSET Fix /\ late' \in Helper \cup {NoHelper}
  <2>1. [next |-> "write", fix |-> {}, content |-> managed \cup late.fix] \in Helper
    BY <1>2 DEF Helper
  <2> QED
    BY <1>2, <2>1 DEF Late
<1> QED
  BY <1>1, <1>3

LEMMA LatePreserves == PInv /\ LateInv /\ Late => PInv'
<1> SUFFICES ASSUME PInv, LateInv, Late PROVE PInv'
  OBVIOUS
<1>1. /\ UNCHANGED <<overridden, backups, listed, dialog, call, inbox, replies, abandoned>>
      /\ managed' \in SUBSET Fix
  BY LateShape
<1>2. MInv'
  BY <1>1 DEF PInv, MInv, WireTypeOK, OneMessage, MessagesAreAwaited, VerifiedBackupExists
<1>3. DInv'
  BY <1>1 DEF dialog, PInv, DInv, DialogTypeOK, OfferedRollbackHasBackup,
     WorkIsOfTheDialog, Working, Open
<1> QED
  BY <1>1, <1>2, <1>3 DEF PInv, PageTypeOK

LEMMA PInvIsInductive == PInv /\ LateInv /\ [PanelNext]_pvars => PInv'
<1> SUFFICES ASSUME PInv, LateInv, [PanelNext]_pvars PROVE PInv'
  OBVIOUS
<1>1. CASE UNCHANGED pvars
  <2>1. MInv'
    BY <1>1, ShowPreservesMessages DEF pvars, server, wire, PInv
  <2>2. DInv'
    BY <1>1 DEF pvars, server, dialog, wire, history, PInv, DInv, DialogTypeOK,
       OfferedRollbackHasBackup, WorkIsOfTheDialog, Working, Open
  <2> QED
    BY <1>1, <2>1, <2>2 DEF pvars, server, PInv, PageTypeOK
<1> QED
  BY <1>1, ServePreserves, LatePreserves, StepPreserves, DeliverPreserves DEF PanelNext

\* A command that is given up names fixes only, and its failure is shown.
LEMMA LateInvIsInductive == PInv /\ LateInv /\ [PanelNext]_pvars => LateInv'
<1> SUFFICES ASSUME PInv, LateInv, [PanelNext]_pvars PROVE LateInv'
  OBVIOUS
<1>1. CASE Serve
  <2> DEFINE m == Head(inbox)
  <2>1. /\ m \in Asked /\ m = inbox[1] /\ 1 \in 1..Len(inbox) /\ backups \in Seq(Taken)
        /\ UNCHANGED belated
    BY <1>1 DEF Serve, PInv, MInv, WireTypeOK
  <2>2. /\ m.op = "apply" => m.fix \in Fix
        /\ m.op = "rollback" => backups[m.backup] \in Taken
    BY <2>1 DEF PInv, MInv, MessagesAreAwaited
  <2> HIDE DEF m
  <2>3. ASSUME NEW helper \in Helper, GiveUp(helper) PROVE LateInv'
    BY <2>1, <2>3 DEF GiveUp, LateInv
  <2>4. ASSUME UNCHANGED late, unconfirmed => unconfirmed' PROVE LateInv'
    BY <2>1, <2>4 DEF LateInv
  <2>5. CASE ServeAudit
    BY <2>4, <2>5 DEF ServeAudit, server
  <2>6. CASE m.op = "apply" /\ ServeApply(m.fix)
    <3>1. [next |-> "read", fix |-> {m.fix}, content |-> {}] \in Helper
      BY <2>2, <2>6 DEF Helper
    <3> QED
      BY <2>3, <2>4, <2>6, <3>1 DEF ServeApply
  <2>7. CASE m.op = "rollback" /\ ServeRollback(m.backup)
    <3>1. [next |-> "write", fix |-> {}, content |-> backups[m.backup].before] \in Helper
      BY <2>2, <2>7 DEF Helper, Taken
    <3> QED
      BY <2>3, <2>4, <2>7, <3>1 DEF ServeRollback
  <2> QED
    BY <1>1, <2>5, <2>6, <2>7 DEF Serve, m
<1>2. CASE Late
  BY <1>2, LateShape DEF LateInv
<1>3. CASE Step
  BY <1>3 DEF Step, server, LateInv
<1>4. CASE Deliver
  BY <1>4 DEF Deliver, server, LateInv
<1>5. CASE UNCHANGED pvars
  BY <1>5 DEF pvars, server, history, LateInv
<1> QED
  BY <1>1, <1>2, <1>3, <1>4, <1>5 DEF PanelNext

LEMMA PInvHolds == PanelSpec => [](PInv /\ LateInv)
BY PanelInitEstablishes, LateInitially, PInvIsInductive, LateInvIsInductive, PTL
   DEF PanelSpec

\* A rollback is offered only when there is a backup to restore, whatever
\* answers come late and whichever dialog they find (main.ts 2293-2301, 2374,
\* 2394-2407).
THEOREM RollbackIsOfferedWithBackup == PanelSpec => []OfferedRollbackHasBackup
<1>1. PInv => OfferedRollbackHasBackup
  BY DEF PInv, DInv
<1> QED
  BY <1>1, PInvHolds, PTL

\* The backup a dialog offers was taken by the fix the dialog shows, unless a
\* dialog was closed over its own call (main.ts 2417 clears the variable
\* the call writes when it goes on).
THEOREM BackupOfferedIsOfTheFix == PanelSpec => []OfferedBackupIsOfFix
<1>1. PInv => OfferedBackupIsOfFix
  BY DEF PInv, DInv, WorkIsOfTheDialog, OfferedRollbackHasBackup, OfferedBackupIsOfFix
<1> QED
  BY <1>1, PInvHolds, PTL

-----------------------------------------------------------------------------
(* The shape of each step, for the invariants below *)

\* Request m was answered by r.
Served(m, r) ==
    /\ m = inbox[1] /\ 1 \in 1..Len(inbox) /\ m \in Asked /\ r \in Answered
    /\ r.call = m.call
    /\ Len(inbox') \in Nat /\ Len(inbox) = Len(inbox') + 1
    /\ \A i \in 1..Len(inbox') : i + 1 \in 1..Len(inbox) /\ inbox'[i] = inbox[i + 1]
    /\ Len(replies) \in Nat /\ Len(replies') = Len(replies) + 1
    /\ \A j \in 1..Len(replies) : replies'[j] = replies[j]
    /\ \A j \in 1..Len(replies') : j # Len(replies') => j \in 1..Len(replies)
    /\ replies'[Len(replies')] = r
    /\ UNCHANGED <<overridden, online, listed, dialog, call, steps, abandoned, belated,
                   overlapped>>

\* What the server did for m, and r says of it.
Done(m, r) ==
    /\ unread => unread'
    /\ unconfirmed => unconfirmed'
    /\ unread' \in {TRUE, FALSE, unread} /\ unconfirmed' \in {TRUE, FALSE, unconfirmed}
    /\ \/ /\ m.op = "audit" /\ UNCHANGED <<managed, backups>>
          /\ r.backup = NoBackup /\ r.required \subseteq Insecure
          /\ r.ok => r.required = Insecure \/ unread'
       \/ /\ m.op = "apply" /\ managed' = managed \cup {m.fix}
          /\ backups' = Append(backups, [fix |-> m.fix, before |-> managed])
          /\ r.backup = (IF r.ok THEN Len(backups') ELSE NoBackup)
          /\ r.required = {} /\ (r.ok \/ unconfirmed')
       \/ /\ m.op = "rollback" /\ managed' = backups[m.backup].before
          /\ UNCHANGED backups
          /\ r.backup = NoBackup /\ r.required = {} /\ (r.ok \/ unconfirmed')
       \/ /\ m.op # "audit" /\ UNCHANGED <<managed, backups>>
          /\ r.backup = NoBackup /\ r.required = {} /\ ~r.ok

LEMMA ServeShape ==
  ASSUME PInv, Serve
  PROVE  \E m \in Asked, r \in Answered : Served(m, r) /\ Done(m, r)
<1> DEFINE m == Head(inbox)
<1>1. /\ inbox # <<>> /\ m = inbox[1] /\ m \in Asked /\ 1 \in 1..Len(inbox)
      /\ UNCHANGED <<overridden, online, listed, dialog, call, steps, abandoned, belated,
                     overlapped>>
  BY DEF Serve, PInv, MInv, WireTypeOK
<1>2. /\ m.op = "rollback" => m.backup \in 1..Len(backups)
      /\ Len(backups) \in Nat /\ Insecure \in SUBSET Fix /\ m.call \in Call
      /\ backups \in Seq(Taken)
  <2>1. m.op = "rollback" => m.backup \in 1..Len(backups)
    BY <1>1 DEF PInv, MInv, MessagesAreAwaited
  <2>2. backups \in Seq(Taken) /\ Len(backups) \in Nat /\ Insecure \in SUBSET Fix
    BY DEF PInv, MInv, WireTypeOK, PageTypeOK, Insecure
  <2> QED
    BY <1>1, <2>1, <2>2 DEF Asked
<1> HIDE DEF m
<1>3. ASSUME NEW ok \in BOOLEAN, NEW b \in Nat, NEW required \in SUBSET Fix,
             Answer(ok, b, required)
      PROVE  /\ Served(m, [ok |-> ok, backup |-> b, required |-> required, call |-> m.call])
             /\ [ok |-> ok, backup |-> b, required |-> required, call |-> m.call] \in Answered
  <2> DEFINE r == [ok |-> ok, backup |-> b, required |-> required, call |-> m.call]
  <2>1. r \in Answered /\ r.call = m.call
    BY <1>2 DEF Answered
  <2>2. inbox' = Tail(inbox) /\ replies' = Append(replies, r)
    BY <1>3 DEF Answer, m
  <2> HIDE DEF r
  <2>3. /\ Len(inbox') \in Nat /\ Len(inbox) = Len(inbox') + 1
        /\ \A i \in 1..Len(inbox') : i + 1 \in 1..Len(inbox) /\ inbox'[i] = inbox[i + 1]
    BY <1>1, <2>2 DEF PInv, MInv, WireTypeOK
  <2>4. /\ Len(replies) \in Nat /\ Len(replies') = Len(replies) + 1
        /\ \A j \in 1..Len(replies) : replies'[j] = replies[j]
        /\ \A j \in 1..Len(replies') : j # Len(replies') => j \in 1..Len(replies)
        /\ replies'[Len(replies')] = r
    BY <2>1, <2>2 DEF PInv, MInv, WireTypeOK
  <2>5. Served(m, r)
    BY <1>1, <2>1, <2>3, <2>4 DEF Served
  <2> QED
    BY <2>1, <2>5 DEF r
<1>4. CASE m.op = "audit" /\ ServeAudit
  <2>1. PICK ok \in BOOLEAN, required \in SUBSET Fix :
          /\ Answer(ok, NoBackup, required) /\ required \subseteq Insecure
          /\ ok => required = Insecure \/ unread'
          /\ unread' \in {TRUE, FALSE, unread} /\ (unread => unread')
    <3>1. CASE \E required \in SUBSET Insecure :
                 /\ Answer(TRUE, NoBackup, required)
                 /\ unread' = (unread \/ required # Insecure)
      <4>1. PICK required \in SUBSET Insecure :
                 /\ Answer(TRUE, NoBackup, required)
                 /\ unread' = (unread \/ required # Insecure)
        BY <3>1
      <4> QED
        BY <1>2, <4>1
    <3>2. CASE Answer(FALSE, NoBackup, {}) /\ UNCHANGED unread
      <4>1. /\ FALSE \in BOOLEAN /\ {} \in SUBSET Fix /\ {} \subseteq Insecure
            /\ unread' \in {TRUE, FALSE, unread} /\ (unread => unread')
        BY <3>2
      <4> QED
        BY <3>2, <4>1
    <3> QED
      BY <1>4, <3>1, <3>2 DEF ServeAudit
  <2> DEFINE r == [ok |-> ok, backup |-> NoBackup, required |-> required, call |-> m.call]
  <2>2. Served(m, r) /\ r \in Answered
    BY <1>3, <2>1 DEF NoBackup
  <2>3. Done(m, r)
    BY <1>4, <2>1 DEF Done, ServeAudit, server
  <2> QED
    BY <1>1, <2>2, <2>3
<1>5. CASE m.op = "apply" /\ ServeApply(m.fix) /\ UNCHANGED unread
  <2>1. CASE /\ managed' = managed \cup {m.fix}
             /\ backups' = Append(backups, [fix |-> m.fix, before |-> managed])
             /\ \E ok \in BOOLEAN :
                  /\ Answer(ok, IF ok THEN Len(backups') ELSE NoBackup, {})
                  /\ unconfirmed' = (unconfirmed \/ ~ok)
    <3>1. PICK ok \in BOOLEAN : /\ Answer(ok, IF ok THEN Len(backups') ELSE NoBackup, {})
                               /\ unconfirmed' = (unconfirmed \/ ~ok)
      BY <2>1
    <3> DEFINE b == IF ok THEN Len(backups') ELSE NoBackup
               r == [ok |-> ok, backup |-> b, required |-> {}, call |-> m.call]
    <3>2. Len(backups') \in Nat
      BY <1>2, <2>1
    <3>3. b \in Nat /\ Answer(ok, b, {}) /\ {} \in SUBSET Fix
      BY <3>1, <3>2 DEF NoBackup
    <3>4. Served(m, r) /\ r \in Answered
      <4> HIDE DEF b
      <4> QED
        BY <1>3, <3>3
    <3>5. Done(m, r)
      BY <1>5, <2>1, <3>1 DEF Done
    <3> QED
      BY <1>1, <3>4, <3>5
  <2>2. CASE UNCHANGED <<managed, backups, unconfirmed>> /\ Answer(FALSE, NoBackup, {})
    <3> DEFINE r == [ok |-> FALSE, backup |-> NoBackup, required |-> {}, call |-> m.call]
    <3>1. Served(m, r) /\ r \in Answered
      BY <1>3, <2>2 DEF NoBackup
    <3>2. Done(m, r)
      BY <1>5, <2>2 DEF Done
    <3> QED
      BY <1>1, <3>1, <3>2
  <2>3. CASE /\ UNCHANGED <<managed, backups>> /\ Answer(FALSE, NoBackup, {})
             /\ unconfirmed' = TRUE
    <3> DEFINE r == [ok |-> FALSE, backup |-> NoBackup, required |-> {}, call |-> m.call]
    <3>1. Served(m, r) /\ r \in Answered
      BY <1>3, <2>3 DEF NoBackup
    <3>2. Done(m, r)
      BY <1>5, <2>3 DEF Done
    <3> QED
      BY <1>1, <3>1, <3>2
  <2> QED
    BY <1>5, <2>1, <2>2, <2>3 DEF ServeApply, GiveUp
<1>6. CASE m.op = "rollback" /\ ServeRollback(m.backup) /\ UNCHANGED unread
  <2>1. CASE /\ managed' = backups[m.backup].before
             /\ \E ok \in BOOLEAN :
                  Answer(ok, NoBackup, {}) /\ unconfirmed' = (unconfirmed \/ ~ok)
    <3>1. PICK ok \in BOOLEAN :
                  Answer(ok, NoBackup, {}) /\ unconfirmed' = (unconfirmed \/ ~ok)
      BY <2>1
    <3> DEFINE r == [ok |-> ok, backup |-> NoBackup, required |-> {}, call |-> m.call]
    <3>2. Served(m, r) /\ r \in Answered
      BY <1>3, <3>1 DEF NoBackup
    <3>3. Done(m, r)
      BY <1>6, <2>1, <3>1 DEF Done, ServeRollback
    <3> QED
      BY <1>1, <3>2, <3>3
  <2>2. CASE UNCHANGED <<managed, unconfirmed>> /\ Answer(FALSE, NoBackup, {})
    <3> DEFINE r == [ok |-> FALSE, backup |-> NoBackup, required |-> {}, call |-> m.call]
    <3>1. Served(m, r) /\ r \in Answered
      BY <1>3, <2>2 DEF NoBackup
    <3>2. Done(m, r)
      BY <1>6, <2>2 DEF Done, ServeRollback
    <3> QED
      BY <1>1, <3>1, <3>2
  <2>3. CASE /\ UNCHANGED managed /\ Answer(FALSE, NoBackup, {})
             /\ unconfirmed' = TRUE
    <3> DEFINE r == [ok |-> FALSE, backup |-> NoBackup, required |-> {}, call |-> m.call]
    <3>1. Served(m, r) /\ r \in Answered
      BY <1>3, <2>3 DEF NoBackup
    <3>2. Done(m, r)
      BY <1>6, <2>3 DEF Done, ServeRollback
    <3> QED
      BY <1>1, <3>1, <3>2
  <2> QED
    BY <1>6, <2>1, <2>2, <2>3 DEF ServeRollback, GiveUp
<1> QED
  BY <1>4, <1>5, <1>6 DEF Serve, m

\* Call c, whose message is among the first k replies if it has one, has moved.
Moved(c, k, step, held) ==
    /\ c \in Call /\ Released(c, k)
    /\ call'[c].step = step /\ call'[c].backup = held
    /\ \A d \in Call \ {c} : call'[d] = call[d]
    /\ Len(replies') \in Nat /\ Len(replies) \in Nat
    /\ \A j \in 1..Len(replies') :
         /\ j + k \in 1..Len(replies) /\ replies'[j] = replies[j + k]
         /\ replies'[j].call \in Call \ {c}
    /\ \A i \in 1..Len(inbox) : inbox[i].call \in Call \ {c}

\* It ends.
Ends(c, k) == Moved(c, k, "idle", NoBackup) /\ inbox' = inbox

\* It sends m and awaits the answer.
Asks(c, k, m, step, held) ==
    /\ Moved(c, k, step, held)
    /\ m \in Asked /\ m.call = c
    /\ Len(inbox) \in Nat /\ Len(inbox') = Len(inbox) + 1 /\ inbox'[Len(inbox')] = m
    /\ \A i \in 1..Len(inbox) : inbox'[i] = inbox[i]
    /\ \A i \in 1..Len(inbox') : i # Len(inbox') => i \in 1..Len(inbox)

LEMMA MovedShape ==
  ASSUME MInv, NEW c \in Call, NEW k \in {0, 1}, Released(c, k),
         NEW step, NEW held,
         call'[c].step = step, call'[c].backup = held,
         \A d \in Call \ {c} : call'[d] = call[d]
  PROVE  Moved(c, k, step, held)
<1>1. Len(replies') \in Nat /\ Len(replies) \in Nat
  BY DEF MInv, WireTypeOK, Released
<1>2. ASSUME NEW j \in 1..Len(replies')
      PROVE  /\ j + k \in 1..Len(replies) /\ replies'[j] = replies[j + k]
             /\ replies'[j].call \in Call \ {c}
  <2>1. j + k \in 1..Len(replies) /\ replies'[j] = replies[j + k]
    BY <1>1 DEF Released
  <2>2. replies[j + k] \in Answered
    BY <2>1 DEF MInv, WireTypeOK
  <2>3. replies'[j].call # c
    BY DEF Released
  <2> QED
    BY <2>1, <2>2, <2>3 DEF Answered
<1>3. ASSUME NEW i \in 1..Len(inbox)
      PROVE  inbox[i].call \in Call \ {c}
  <2>1. inbox[i] \in Asked
    BY DEF MInv, WireTypeOK
  <2> QED
    BY <2>1 DEF Asked, Released
<1> QED
  BY <1>1, <1>2, <1>3 DEF Moved

LEMMA EndsShape ==
  ASSUME MInv, NEW c \in Call, NEW k \in {0, 1}, Released(c, k), Finished(c)
  PROVE  Ends(c, k)
<1>1. /\ call'[c].step = "idle" /\ call'[c].backup = NoBackup
      /\ \A d \in Call \ {c} : call'[d] = call[d]
  BY DEF Finished, Idle, MInv, WireTypeOK
<1> QED
  BY <1>1, MovedShape DEF Ends, Finished

LEMMA AsksShape ==
  ASSUME MInv, NEW c \in Call, NEW k \in {0, 1}, Released(c, k),
         NEW op \in {"apply", "rollback", "audit"}, NEW fix \in Fix \cup {NoFix},
         NEW b \in Nat, NEW step, NEW held,
         Invoke(op, fix, b, c), Suspend(c, step, held)
  PROVE  Asks(c, k, [op |-> op, fix |-> fix, backup |-> b, call |-> c], step, held)
<1> DEFINE m == [op |-> op, fix |-> fix, backup |-> b, call |-> c]
<1>1. /\ call'[c].step = step /\ call'[c].backup = held
      /\ \A d \in Call \ {c} : call'[d] = call[d]
  BY DEF Suspend, MInv, WireTypeOK
<1>2. m \in Asked /\ m.call = c /\ inbox' = Append(inbox, m)
  BY DEF Asked, Invoke
<1> HIDE DEF m
<1>3. /\ Len(inbox) \in Nat /\ Len(inbox') = Len(inbox) + 1 /\ inbox'[Len(inbox')] = m
      /\ \A i \in 1..Len(inbox) : inbox'[i] = inbox[i]
      /\ \A i \in 1..Len(inbox') : i # Len(inbox') => i \in 1..Len(inbox)
  BY <1>2 DEF MInv, WireTypeOK
<1>4. Asks(c, k, m, step, held)
  BY <1>1, <1>2, <1>3, MovedShape DEF Asks
<1> QED
  BY <1>4 DEF m

AuditRequest(c) == [op |-> "audit", fix |-> NoFix, backup |-> NoBackup, call |-> c]
ApplyRequest(c) == [op |-> "apply", fix |-> active.fix, backup |-> NoBackup, call |-> c]
UndoRequest(c) == [op |-> "rollback", fix |-> NoFix, backup |-> active.backup, call |-> c]

\* The user or the connection: a dialog is opened or closed, the connection
\* changes, or a call begins.
LEMMA StepShape ==
  ASSUME PInv, Step
  PROVE  /\ UNCHANGED <<managed, overridden, backups, replies, unconfirmed, belated, unread>>
         /\ steps < MaxSteps /\ steps' = steps + 1
         /\ \/ /\ (\E id \in Previews : Prepare(id)) \/ Close \/ ConnectionChanges
               /\ UNCHANGED <<call, inbox>>
            \/ \E c \in Call :
                 /\ call[c] = Idle
                 /\ ApplySecurityFix(c) /\ active.fix \in Fix
                 /\ Asks(c, 0, ApplyRequest(c), "applying", NoBackup)
            \/ \E c \in Call :
                 /\ call[c] = Idle
                 /\ RollbackSecurityFix(c) /\ active.backup \in 1..Len(backups)
                 /\ Asks(c, 0, UndoRequest(c), "undoing", NoBackup)
            \/ \E c \in Call :
                 /\ call[c] = Idle
                 /\ LoadSecurityAudit(c)
                 /\ Asks(c, 0, AuditRequest(c), "auditing", NoBackup)
<1>1. /\ UNCHANGED <<managed, overridden, backups, replies, unconfirmed, belated, unread>>
      /\ steps < MaxSteps /\ steps' = steps + 1
      /\ NoBackup \in Nat /\ MInv
  BY DEF Step, server, PInv, NoBackup
<1>2. CASE (\E id \in Previews : Prepare(id)) \/ Close \/ ConnectionChanges
  <2>1. UNCHANGED <<call, inbox>>
    BY <1>2 DEF Prepare, Close, ConnectionChanges
  <2> QED
    BY <1>1, <1>2, <2>1
<1>3. ASSUME NEW c \in Call, call[c] = Idle, ApplySecurityFix(c)
      PROVE  active.fix \in Fix /\ Asks(c, 0, ApplyRequest(c), "applying", NoBackup)
  <2>1. /\ Invoke("apply", active.fix, NoBackup, c) /\ Suspend(c, "applying", NoBackup)
        /\ active.fix \in Fix
    BY <1>3 DEF ApplySecurityFix
  <2>2. Released(c, 0)
    BY <1>1, <1>3, IdleIsReleased
  <2> QED
    BY <1>1, <2>1, <2>2, AsksShape DEF ApplyRequest
<1>4. ASSUME NEW c \in Call, call[c] = Idle, RollbackSecurityFix(c)
      PROVE  /\ active.backup \in 1..Len(backups)
             /\ Asks(c, 0, UndoRequest(c), "undoing", NoBackup)
  <2>1. /\ Invoke("rollback", NoFix, active.backup, c) /\ Suspend(c, "undoing", NoBackup)
        /\ active.backup # NoBackup
    BY <1>4 DEF RollbackSecurityFix
  <2>2. Released(c, 0)
    BY <1>1, <1>4, IdleIsReleased
  <2>3. active.backup \in 1..Len(backups) /\ active.backup \in Nat
    BY <2>1 DEF PInv, DInv, DialogTypeOK, NoBackup, MInv, WireTypeOK
  <2> QED
    BY <1>1, <2>1, <2>2, <2>3, AsksShape DEF UndoRequest
<1>5. ASSUME NEW c \in Call, call[c] = Idle, LoadSecurityAudit(c)
      PROVE  Asks(c, 0, AuditRequest(c), "auditing", NoBackup)
  <2>1. Invoke("audit", NoFix, NoBackup, c) /\ Suspend(c, "auditing", NoBackup)
    BY <1>5 DEF LoadSecurityAudit
  <2>2. Released(c, 0)
    BY <1>1, <1>5, IdleIsReleased
  <2> QED
    BY <1>1, <2>1, <2>2, AsksShape DEF AuditRequest
<1> QED
  BY <1>1, <1>2, <1>3, <1>4, <1>5 DEF Step

\* What became of the call c that got the reply r: an apply goes on to its audit
Verifies(c, r) ==
    /\ call[c].step = "applying" /\ r.ok /\ r.backup # NoBackup
    /\ Asks(c, 1, AuditRequest(c), "verifying", r.backup)
    /\ UNCHANGED <<listed, dialog>>
\* or gives up,
GivesUpApply(c, r) ==
    /\ call[c].step \in {"applying", "verifying"} /\ Ends(c, 1)
    /\ active' = active \/ Unapplied
    /\ apply' = [apply EXCEPT !.enabled = TRUE]
    /\ unconfirmed' \/ (call[c].step = "applying" /\ ~r.ok)
    /\ result' = "error" /\ UNCHANGED <<listed, claim, rollback>>
\* or is confirmed by the audit;
Verified(c, r) ==
    /\ call[c].step = "verifying" /\ r.ok /\ Open /\ active.fix \notin r.required
    /\ Ends(c, 1)
    /\ active' = [active EXCEPT !.backup = call[c].backup, !.applied = TRUE]
    /\ claim' = "applied" /\ listed' = r.required
    /\ rollback' = [rollback EXCEPT !.shown = TRUE]
    /\ apply' = [shown |-> FALSE, enabled |-> TRUE]
\* a rollback likewise;
Rereads(c, r) ==
    /\ call[c].step = "undoing" /\ r.ok
    /\ Asks(c, 1, AuditRequest(c), "rereading", NoBackup)
    /\ UNCHANGED <<listed, dialog>>
GivesUpRollback(c, r) ==
    /\ call[c].step \in {"undoing", "rereading"} /\ Ends(c, 1)
    /\ rollback' = [rollback EXCEPT !.enabled = TRUE]
    /\ unconfirmed' \/ (call[c].step = "undoing" /\ ~r.ok)
    /\ result' = "error" /\ UNCHANGED <<listed, active, claim, apply>>
Reread(c, r) ==
    /\ call[c].step = "rereading" /\ r.ok /\ active.fix \in r.required
    /\ Ends(c, 1) /\ Unapplied /\ listed' = r.required
    /\ rollback' = [shown |-> FALSE, enabled |-> TRUE]
    /\ result' = "ok" /\ UNCHANGED <<claim, apply>>
\* an audit of the page renders, and may speak of the dialog.
Audited(c, r) ==
    /\ call[c].step = "auditing" /\ Ends(c, 1) /\ listed' = r.required
    /\ \/ UNCHANGED dialog
       \/ /\ r.ok /\ active.fix \in Fix /\ ~active.applied
          /\ SyncActiveSecurityFix(r.required)

Outcome(c, r) ==
    \/ Verifies(c, r) \/ GivesUpApply(c, r) \/ Verified(c, r)
    \/ Rereads(c, r) \/ GivesUpRollback(c, r) \/ Reread(c, r)
    \/ Audited(c, r)

LEMMA DeliverShape ==
  ASSUME PInv, Deliver
  PROVE  /\ UNCHANGED <<managed, overridden, backups, steps, abandoned, belated,
                        overlapped, unread>>
         /\ unconfirmed => unconfirmed'
         /\ unconfirmed' \in {TRUE, FALSE, unconfirmed}
         /\ \E c \in Call, r \in Answered :
              /\ r = replies[1] /\ 1 \in 1..Len(replies) /\ r.call = c
              /\ Outcome(c, r)
<1> DEFINE r == Head(replies)
           c == r.call
<1>1. /\ c \in Call /\ Released(c, 1) /\ r = replies[1] /\ 1 \in 1..Len(replies)
      /\ r \in Answered
  BY DeliveredIsReleased DEF Deliver, PInv
<1>2. /\ UNCHANGED <<managed, overridden, backups, steps, abandoned, belated,
                     overlapped, unread>>
      /\ unconfirmed' = (unconfirmed \/ Doubtful(c, r)) /\ MInv
      /\ r.backup \in Nat
  BY <1>1 DEF Deliver, server, PInv, Answered
<1>3. /\ unconfirmed => unconfirmed'
      /\ unconfirmed' \in {TRUE, FALSE, unconfirmed}
      /\ Doubtful(c, r) => unconfirmed'
  BY <1>2 DEF Doubtful
<1> HIDE DEF r, c
<1>4. ASSUME Finished(c)
      PROVE  Ends(c, 1) /\ call'[c] = Idle
  <2>1. call'[c] = Idle
    BY <1>1, <1>2, <1>4 DEF Finished, MInv, WireTypeOK
  <2> QED
    BY <1>1, <1>2, <1>4, <2>1, EndsShape
<1>5. ASSUME NEW step, NEW held, Invoke("audit", NoFix, NoBackup, c), Suspend(c, step, held)
      PROVE  Asks(c, 1, AuditRequest(c), step, held)
  <2>1. NoBackup \in Nat
    BY DEF NoBackup
  <2> QED
    BY <1>1, <1>2, <1>5, <2>1, AsksShape DEF AuditRequest
<1>6. ASSUME ApplyFails(c), active' = active \/ Unapplied,
             call[c].step \in {"applying", "verifying"}
      PROVE  GivesUpApply(c, r)
  <2>1. /\ Ends(c, 1) /\ call'[c] = Idle /\ result' = "error"
        /\ apply' = [apply EXCEPT !.enabled = TRUE]
        /\ UNCHANGED <<listed, claim, rollback>>
    BY <1>4, <1>6 DEF ApplyFails
  <2>2. unconfirmed' \/ (call[c].step = "applying" /\ ~r.ok)
    BY <1>3, <1>6, <2>1 DEF Doubtful, Working
  <2> QED
    BY <1>6, <2>1, <2>2 DEF GivesUpApply
<1>7. ASSUME RollbackFails(c), call[c].step \in {"undoing", "rereading"}
      PROVE  GivesUpRollback(c, r)
  <2>1. /\ Ends(c, 1) /\ call'[c] = Idle /\ result' = "error"
        /\ rollback' = [rollback EXCEPT !.enabled = TRUE]
        /\ UNCHANGED <<listed, active, claim, apply>>
    BY <1>4, <1>7 DEF RollbackFails
  <2>2. unconfirmed' \/ (call[c].step = "undoing" /\ ~r.ok)
    BY <1>3, <1>7, <2>1 DEF Doubtful, Working
  <2> QED
    BY <1>7, <2>1, <2>2 DEF GivesUpRollback
<1>8. ASSUME call[c].step = "applying", AfterApply(c, r)
      PROVE  Outcome(c, r)
  BY <1>5, <1>6, <1>8 DEF AfterApply, Verifies, Outcome
<1>9. ASSUME call[c].step = "verifying", AfterVerify(c, r)
      PROVE  Outcome(c, r)
  <2>1. CASE Unapplied /\ ApplyFails(c)
    BY <1>6, <1>9, <2>1 DEF Outcome
  <2>2. CASE ~(~r.ok \/ ~Open \/ active.fix \in r.required)
    <3>1. r.ok /\ Open /\ active.fix \notin r.required
      BY <2>2
    <3>2. Verified(c, r)
      BY <1>4, <1>9, <3>1 DEF AfterVerify, Verified, RenderSecurityAudit
    <3> QED
      BY <3>2 DEF Outcome
  <2> QED
    BY <1>9, <2>1, <2>2 DEF AfterVerify
<1>10. ASSUME call[c].step = "undoing", AfterRollback(c, r)
      PROVE  Outcome(c, r)
  BY <1>5, <1>7, <1>10 DEF AfterRollback, Rereads, Outcome
<1>11. ASSUME call[c].step = "rereading", AfterReread(c, r)
      PROVE  Outcome(c, r)
  <2>1. CASE RollbackFails(c)
    BY <1>7, <1>11, <2>1 DEF Outcome
  <2>2. CASE ~(~r.ok \/ active.fix \notin r.required)
    <3>1. r.ok /\ active.fix \in r.required
      BY <2>2
    <3>2. Reread(c, r)
      BY <1>4, <1>11, <3>1 DEF AfterReread, Reread, RenderSecurityAudit
    <3> QED
      BY <3>2 DEF Outcome
  <2> QED
    BY <1>11, <2>1, <2>2 DEF AfterReread
<1>12. ASSUME call[c].step = "auditing", AfterAudit(c, r)
      PROVE  Outcome(c, r)
  BY <1>4, <1>12 DEF AfterAudit, Audited, RenderSecurityAudit, Outcome
<1>13. Outcome(c, r)
  BY <1>8, <1>9, <1>10, <1>11, <1>12 DEF Deliver, r, c
<1>14. r = replies[1] /\ 1 \in 1..Len(replies) /\ r.call = c
  BY <1>1 DEF c
<1> QED
  BY <1>1, <1>2, <1>3, <1>13, <1>14

-----------------------------------------------------------------------------
(* What requests and calls say of each other, and the types *)

RequestsSay ==
    /\ \A i \in 1..Len(inbox) :
         /\ (inbox[i].op = "rollback") = (call[inbox[i].call].step = "undoing")
         /\ inbox[i].op # "rollback" => inbox[i].backup = NoBackup
    /\ \A c \in Call : call[c].step # "verifying" => call[c].backup = NoBackup

\* A suspended call has a message: it goes on one day.
Answerable ==
    \A c \in Call : call[c].step # "idle" =>
         \/ \E i \in 1..Len(inbox) : inbox[i].call = c
         \/ \E j \in 1..Len(replies) : replies[j].call = c

AInv == RequestsSay /\ Answerable

LEMMA ServedKeepsA ==
  ASSUME PInv, AInv, NEW m, NEW r, Served(m, r)
  PROVE  AInv'
<1>1. RequestsSay'
  BY DEF AInv, RequestsSay, Served
<1>2. ASSUME NEW c \in Call, call'[c].step # "idle"
      PROVE  \/ \E i \in 1..Len(inbox') : inbox'[i].call = c
             \/ \E j \in 1..Len(replies') : replies'[j].call = c
  <2>1. CASE \E i \in 1..Len(inbox) : inbox[i].call = c
    <3>1. PICK i \in 1..Len(inbox) : inbox[i].call = c
      BY <2>1
    <3>2. CASE i = 1
      <4>1. replies'[Len(replies')].call = c /\ Len(replies') \in 1..Len(replies')
        BY <3>1, <3>2 DEF Served
      <4> QED
        BY <4>1
    <3>3. CASE i # 1
      <4>1. i - 1 \in 1..Len(inbox') /\ (i - 1) + 1 = i
        BY <3>3 DEF Served
      <4>2. inbox'[i - 1] = inbox[i]
        BY <4>1 DEF Served
      <4> QED
        BY <3>1, <4>1, <4>2
    <3> QED
      BY <3>2, <3>3
  <2>2. CASE \E j \in 1..Len(replies) : replies[j].call = c
    <3>1. PICK j \in 1..Len(replies) : replies[j].call = c
      BY <2>2
    <3>2. replies'[j] = replies[j] /\ j \in 1..Len(replies')
      BY DEF Served
    <3> QED
      BY <3>1, <3>2
  <2>3. call[c].step # "idle"
    BY <1>2 DEF Served
  <2> QED
    BY <2>1, <2>2, <2>3 DEF AInv, Answerable
<1> QED
  BY <1>1, <1>2 DEF AInv, Answerable

\* The messages of the other calls stay.
LEMMA MovedKeepsMessages ==
  ASSUME NEW c, NEW k \in {0, 1}, NEW step, NEW held, Moved(c, k, step, held),
         k = 1 => replies[1].call = c,
         Answerable,
         \A i \in 1..Len(inbox) : i \in 1..Len(inbox') /\ inbox'[i] = inbox[i],
         NEW d \in Call \ {c}, call'[d].step # "idle"
  PROVE  \/ \E i \in 1..Len(inbox') : inbox'[i].call = d
         \/ \E j \in 1..Len(replies') : replies'[j].call = d
<1>1. CASE \E i \in 1..Len(inbox) : inbox[i].call = d
  BY <1>1
<1>2. CASE \E j \in 1..Len(replies) : replies[j].call = d
  <2>1. PICK j \in 1..Len(replies) : replies[j].call = d
    BY <1>2
  <2>2. j - k \in 1..Len(replies') /\ (j - k) + k = j
    <3>1. Len(replies') + k = Len(replies) /\ (k = 1 => j # 1)
      BY <2>1 DEF Moved, Released
    <3> QED
      BY <3>1 DEF Moved
  <2>3. replies'[j - k] = replies[j]
    BY <2>2 DEF Moved
  <2> QED
    BY <2>1, <2>2, <2>3
<1>3. call[d].step # "idle"
  BY DEF Moved
<1> QED
  BY <1>1, <1>2, <1>3 DEF Answerable

LEMMA EndsKeepsA ==
  ASSUME AInv, NEW c, NEW k \in {0, 1}, Ends(c, k), k = 1 => replies[1].call = c
  PROVE  AInv'
<1>1. RequestsSay'
  BY DEF AInv, RequestsSay, Ends, Moved
<1>2. ASSUME NEW d \in Call, call'[d].step # "idle"
      PROVE  \/ \E i \in 1..Len(inbox') : inbox'[i].call = d
             \/ \E j \in 1..Len(replies') : replies'[j].call = d
  <2>1. /\ Moved(c, k, "idle", NoBackup) /\ Answerable /\ d \in Call \ {c}
        /\ \A i \in 1..Len(inbox) : i \in 1..Len(inbox') /\ inbox'[i] = inbox[i]
    BY <1>2 DEF AInv, Ends, Moved
  <2> QED
    BY <1>2, <2>1, MovedKeepsMessages
<1> QED
  BY <1>1, <1>2 DEF AInv, Answerable

LEMMA AsksKeepsA ==
  ASSUME AInv, NEW c, NEW k \in {0, 1}, NEW m, NEW step, NEW held, Asks(c, k, m, step,
         held),
         k = 1 => replies[1].call = c,
         (m.op = "rollback") = (step = "undoing"),
         m.op # "rollback" => m.backup = NoBackup,
         step # "verifying" => held = NoBackup
  PROVE  AInv'
<1>1. \A i \in 1..Len(inbox) : i \in 1..Len(inbox') /\ inbox'[i] = inbox[i]
  BY DEF Asks
<1>2. RequestsSay'
  <2>1. ASSUME NEW i \in 1..Len(inbox')
        PROVE  /\ (inbox'[i].op = "rollback") = (call'[inbox'[i].call].step = "undoing")
               /\ inbox'[i].op # "rollback" => inbox'[i].backup = NoBackup
    <3>1. CASE i = Len(inbox')
      BY <3>1 DEF Asks, Moved
    <3>2. CASE i # Len(inbox')
      <4>1. i \in 1..Len(inbox) /\ inbox'[i] = inbox[i] /\ inbox[i].call \in Call \ {c}
        BY <3>2 DEF Asks, Moved
      <4>2. call'[inbox'[i].call] = call[inbox[i].call]
        BY <4>1 DEF Asks, Moved
      <4> QED
        BY <4>1, <4>2 DEF AInv, RequestsSay
    <3> QED
      BY <3>1, <3>2
  <2>2. \A d \in Call : call'[d].step # "verifying" => call'[d].backup = NoBackup
    BY DEF AInv, RequestsSay, Asks, Moved
  <2> QED
    BY <2>1, <2>2 DEF RequestsSay
<1>3. Answerable'
  <2>1. inbox'[Len(inbox')].call = c /\ Len(inbox') \in 1..Len(inbox')
    BY DEF Asks
  <2>2. ASSUME NEW d \in Call \ {c}, call'[d].step # "idle"
        PROVE  \/ \E i \in 1..Len(inbox') : inbox'[i].call = d
               \/ \E j \in 1..Len(replies') : replies'[j].call = d
    BY <1>1, <2>2, MovedKeepsMessages DEF AInv, Asks
  <2> QED
    BY <2>1, <2>2 DEF Answerable
<1> QED
  BY <1>2, <1>3 DEF AInv

LEMMA RequestFields ==
  ASSUME NEW c
  PROVE  /\ ApplyRequest(c).op = "apply" /\ ApplyRequest(c).backup = NoBackup
         /\ ApplyRequest(c).fix = active.fix
         /\ UndoRequest(c).op = "rollback" /\ UndoRequest(c).backup = active.backup
         /\ AuditRequest(c).op = "audit" /\ AuditRequest(c).backup = NoBackup
BY DEF ApplyRequest, UndoRequest, AuditRequest

LEMMA AInvIsInductive == PInv /\ AInv /\ [PanelNext]_pvars => AInv'
<1> SUFFICES ASSUME PInv, AInv, [PanelNext]_pvars PROVE AInv'
  OBVIOUS
<1>1. CASE Serve
  BY <1>1, ServeShape, ServedKeepsA
<1>2. ASSUME UNCHANGED <<call, inbox, replies>>
      PROVE  AInv'
  BY <1>2 DEF AInv, RequestsSay, Answerable
<1>3. CASE Step
  <2>1. CASE UNCHANGED <<call, inbox>>
    BY <1>2, <1>3, <2>1, StepShape
  <2>2. ASSUME NEW c \in Call, \/ Asks(c, 0, ApplyRequest(c), "applying", NoBackup)
                             \/ Asks(c, 0, UndoRequest(c), "undoing", NoBackup)
                             \/ Asks(c, 0, AuditRequest(c), "auditing", NoBackup)
        PROVE  AInv'
    BY <2>2, AsksKeepsA, RequestFields
  <2> QED
    BY <1>3, <2>1, <2>2, StepShape
<1>4. CASE Deliver
  <2>1. PICK c \in Call, r \in Answered :
              /\ r = replies[1] /\ r.call = c
              /\ Outcome(c, r)
    BY <1>4, DeliverShape
  <2>2. CASE Ends(c, 1)
    BY <2>1, <2>2, EndsKeepsA
  <2>3. CASE Asks(c, 1, AuditRequest(c), "verifying", r.backup)
    BY <2>1, <2>3, AsksKeepsA, RequestFields
  <2>4. CASE Asks(c, 1, AuditRequest(c), "rereading", NoBackup)
    BY <2>1, <2>4, AsksKeepsA, RequestFields
  <2> QED
    BY <2>1, <2>2, <2>3, <2>4
       DEF Outcome, Verifies, GivesUpApply, Verified, Rereads, GivesUpRollback, Reread,
        Audited
<1>5. CASE Late
  BY <1>2, <1>5 DEF Late, wire
<1>6. CASE UNCHANGED pvars
  BY <1>2, <1>6 DEF pvars, wire
<1> QED
  BY <1>1, <1>3, <1>4, <1>5, <1>6 DEF PanelNext

LEMMA AInvInitially == PanelInit => AInv
<1> SUFFICES ASSUME PanelInit PROVE AInv
  OBVIOUS
<1>1. \A c \in Call : call[c].step = "idle" /\ call[c].backup = NoBackup
  BY DEF PanelInit, Idle
<1>2. Len(inbox) = 0
  BY DEF PanelInit
<1> QED
  BY <1>1, <1>2 DEF AInv, RequestsSay, Answerable

\* A backup costs a click: an apply that was asked for will take at most one.
Applies(c) == \E i \in 1..Len(inbox) : inbox[i].op = "apply" /\ inbox[i].call = c
Pending(c) == IF Applies(c) THEN 1 ELSE 0
BackupsAreCounted == Len(backups) + Pending(1) + Pending(2) <= steps

LabelsTypeOK ==
    /\ online \in BOOLEAN
    /\ claim \in {"none", "ready", "applied"}
    /\ result \in {"none", "busy", "ok", "error"}
    /\ steps \in 0..MaxSteps
    /\ unconfirmed \in BOOLEAN /\ overlapped \in BOOLEAN /\ unread \in BOOLEAN

TInv == LabelsTypeOK /\ BackupsAreCounted

LEMMA NoApplyAsked ==
  ASSUME NEW c, NEW k \in {0, 1}, NEW m, NEW step, NEW held,
         \/ Ends(c, k)
         \/ Asks(c, k, m, step, held) /\ m.op # "apply",
         NEW d, Applies(d)'
  PROVE  Applies(d)
<1>1. PICK i \in 1..Len(inbox') : inbox'[i].op = "apply" /\ inbox'[i].call = d
  BY DEF Applies
<1>2. i \in 1..Len(inbox) /\ inbox[i] = inbox'[i]
  BY <1>1 DEF Ends, Asks
<1> QED
  BY <1>1, <1>2 DEF Applies

LEMMA PendingShrinks ==
  ASSUME \A d \in Call : Applies(d)' => Applies(d)
  PROVE  /\ Pending(1)' <= Pending(1) /\ Pending(2)' <= Pending(2)
         /\ Pending(1) \in {0, 1} /\ Pending(2) \in {0, 1}
         /\ Pending(1)' \in {0, 1} /\ Pending(2)' \in {0, 1}
<1>1. 1 \in Call /\ 2 \in Call
  BY DEF Call
<1> QED
  BY <1>1 DEF Pending

LEMMA StepKeepsCount ==
  ASSUME PInv, TInv, Step
  PROVE  BackupsAreCounted'
<1>1. /\ Len(backups') = Len(backups) /\ Len(backups) \in Nat
      /\ steps' = steps + 1 /\ steps \in Nat
  BY StepShape DEF PInv, MInv, WireTypeOK, TInv, LabelsTypeOK
<1>2. ASSUME \A d \in Call : Applies(d)' => Applies(d)
      PROVE  BackupsAreCounted'
  BY <1>1, <1>2, PendingShrinks DEF TInv, BackupsAreCounted
<1>3. CASE UNCHANGED <<call, inbox>>
  BY <1>2, <1>3 DEF Applies
<1>4. ASSUME NEW c \in Call, \/ Asks(c, 0, UndoRequest(c), "undoing", NoBackup)
                           \/ Asks(c, 0, AuditRequest(c), "auditing", NoBackup)
      PROVE  BackupsAreCounted'
  <2>1. UndoRequest(c).op # "apply" /\ AuditRequest(c).op # "apply"
    BY RequestFields
  <2> QED
    BY <1>2, <1>4, <2>1, NoApplyAsked
<1>5. ASSUME NEW c \in Call, Asks(c, 0, ApplyRequest(c), "applying", NoBackup)
      PROVE  BackupsAreCounted'
  <2>1. ~Applies(c)
    BY <1>5 DEF Asks, Moved, Applies
  <2>2. ASSUME NEW d \in Call \ {c}, Applies(d)'
        PROVE  Applies(d)
    <3>1. PICK i \in 1..Len(inbox') : inbox'[i].op = "apply" /\ inbox'[i].call = d
      BY <2>2 DEF Applies
    <3>2. i \in 1..Len(inbox) /\ inbox[i] = inbox'[i]
      BY <1>5, <3>1 DEF Asks
    <3> QED
      BY <3>1, <3>2 DEF Applies
  <2>3. Pending(c) = 0 /\ Pending(c)' \in {0, 1}
    BY <2>1 DEF Pending
  <2>4. \A d \in Call \ {c} : /\ Pending(d) \in {0, 1} /\ Pending(d)' \in {0, 1}
                             /\ Pending(d)' <= Pending(d)
    BY <2>2 DEF Pending
  <2>5. Pending(1)' + Pending(2)' <= Pending(1) + Pending(2) + 1
    <3>1. CASE c = 1
      <4>1. 2 \in Call \ {c} /\ Pending(1) = 0 /\ Pending(1)' \in {0, 1}
        BY <2>3, <3>1 DEF Call
      <4>2. Pending(2) \in {0, 1} /\ Pending(2)' \in {0, 1} /\ Pending(2)' <= Pending(2)
        BY <2>4, <4>1
      <4> QED
        BY <4>1, <4>2
    <3>2. CASE c = 2
      <4>1. 1 \in Call \ {c} /\ Pending(2) = 0 /\ Pending(2)' \in {0, 1}
        BY <2>3, <3>2 DEF Call
      <4>2. Pending(1) \in {0, 1} /\ Pending(1)' \in {0, 1} /\ Pending(1)' <= Pending(1)
        BY <2>4, <4>1
      <4> QED
        BY <4>1, <4>2
    <3> QED
      BY <3>1, <3>2 DEF Call
  <2>6. /\ Pending(1) \in {0, 1} /\ Pending(2) \in {0, 1}
        /\ Pending(1)' \in {0, 1} /\ Pending(2)' \in {0, 1}
    BY DEF Pending
  <2> QED
    BY <1>1, <2>5, <2>6 DEF TInv, BackupsAreCounted
<1> QED
  BY <1>3, <1>4, <1>5, StepShape

LEMMA ServeKeepsCount ==
  ASSUME PInv, TInv, Serve
  PROVE  BackupsAreCounted'
<1>1. PICK m \in Asked, r \in Answered : Served(m, r) /\ Done(m, r)
  BY ServeShape
<1>2. \A d \in Call : Applies(d)' => Applies(d)
  BY <1>1 DEF Served, Applies
<1>3. /\ Len(backups) \in Nat /\ steps' = steps /\ steps \in Nat
      /\ backups \in Seq(Taken)
  BY <1>1 DEF PInv, MInv, WireTypeOK, TInv, LabelsTypeOK, Served
<1>4. CASE UNCHANGED backups
  BY <1>2, <1>3, <1>4, PendingShrinks DEF TInv, BackupsAreCounted
<1>5. CASE /\ m.op = "apply"
           /\ backups' = Append(backups, [fix |-> m.fix, before |-> managed])
  <2>1. Applies(m.call) /\ m.call \in Call
    BY <1>1, <1>5 DEF Served, Applies, Asked
  <2>2. ~Applies(m.call)'
    <3>1. SUFFICES ASSUME NEW i \in 1..Len(inbox'), inbox'[i].call = m.call
                   PROVE  FALSE
      BY DEF Applies
    <3>2. i + 1 \in 1..Len(inbox) /\ inbox[i + 1].call = inbox[1].call /\ i + 1 # 1
      BY <1>1, <3>1 DEF Served
    <3> QED
      BY <1>1, <3>2 DEF Served, PInv, MInv, OneMessage
  <2>3. Len(backups') = Len(backups) + 1
    BY <1>3, <1>5
  <2>4. Pending(m.call)' = 0 /\ Pending(m.call) = 1
    BY <2>1, <2>2 DEF Pending
  <2>5. Pending(1)' + Pending(2)' + 1 <= Pending(1) + Pending(2)
    <3>1. /\ Pending(1)' <= Pending(1) /\ Pending(2)' <= Pending(2)
          /\ Pending(1) \in {0, 1} /\ Pending(2) \in {0, 1}
          /\ Pending(1)' \in {0, 1} /\ Pending(2)' \in {0, 1}
      BY <1>2, PendingShrinks
    <3>2. m.call = 1 \/ m.call = 2
      BY <2>1 DEF Call
    <3> QED
      BY <2>4, <3>1, <3>2
  <2>6. /\ Pending(1) \in {0, 1} /\ Pending(2) \in {0, 1}
        /\ Pending(1)' \in {0, 1} /\ Pending(2)' \in {0, 1}
    BY DEF Pending
  <2> QED
    BY <1>3, <2>3, <2>5, <2>6 DEF TInv, BackupsAreCounted
<1> QED
  BY <1>1, <1>4, <1>5 DEF Done

LEMMA DeliverKeepsCount ==
  ASSUME PInv, TInv, Deliver
  PROVE  BackupsAreCounted'
<1>1. /\ UNCHANGED <<backups, steps>>
      /\ \E c \in Call, r \in Answered :
           Outcome(c, r)
  BY DeliverShape
<1>2. \E c \in Call : \E step, held :
        \/ Ends(c, 1)
        \/ Asks(c, 1, AuditRequest(c), step, held) /\ AuditRequest(c).op # "apply"
  BY <1>1, RequestFields
     DEF Outcome, Verifies, GivesUpApply, Verified, Rereads, GivesUpRollback, Reread,
        Audited
<1>3. \A d \in Call : Applies(d)' => Applies(d)
  BY <1>2, NoApplyAsked
<1>4. Len(backups) \in Nat /\ steps \in Nat
  BY DEF PInv, MInv, WireTypeOK, TInv, LabelsTypeOK
<1> QED
  BY <1>1, <1>3, <1>4, PendingShrinks DEF TInv, BackupsAreCounted

LEMMA LabelsAreInductive == PInv /\ TInv /\ [PanelNext]_pvars => LabelsTypeOK'
<1> SUFFICES ASSUME PInv, TInv, [PanelNext]_pvars PROVE LabelsTypeOK'
  OBVIOUS
<1>1. CASE Serve
  <2>1. PICK m \in Asked, r \in Answered : Served(m, r) /\ Done(m, r)
    BY <1>1, ServeShape
  <2> QED
    BY <2>1 DEF Served, Done, TInv, LabelsTypeOK, dialog
<1>2. CASE Step
  <2>1. steps' \in 0..MaxSteps /\ UNCHANGED <<unconfirmed, unread>>
    BY <1>2, StepShape, PanelAssumption DEF TInv, LabelsTypeOK
  <2>2. /\ online' \in BOOLEAN /\ overlapped' \in BOOLEAN
        /\ claim' \in {"none", "ready", "applied"}
        /\ result' \in {"none", "busy", "ok", "error"}
    BY <1>2 DEF Step, Prepare, Close, ConnectionChanges, ApplySecurityFix,
                RollbackSecurityFix,
       LoadSecurityAudit, dialog, TInv, LabelsTypeOK
  <2> QED
    BY <2>1, <2>2 DEF LabelsTypeOK, TInv
<1>3. CASE Deliver
  <2>1. /\ UNCHANGED <<online, steps, overlapped, unread>>
        /\ unconfirmed' \in BOOLEAN
    BY <1>3, DeliverShape DEF Deliver, TInv, LabelsTypeOK
  <2>2. /\ claim' \in {"none", "ready", "applied"}
        /\ result' \in {"none", "busy", "ok", "error"}
    BY <1>3 DEF Deliver, AfterApply, AfterVerify, AfterRollback, AfterReread, AfterAudit,
       ApplyFails, RollbackFails, SyncActiveSecurityFix, dialog, TInv, LabelsTypeOK
  <2> QED
    BY <2>1, <2>2 DEF LabelsTypeOK, TInv
<1>4. CASE Late
  BY <1>4 DEF Late, dialog, TInv, LabelsTypeOK
<1>5. CASE UNCHANGED pvars
  BY <1>5 DEF pvars, dialog, history, TInv, LabelsTypeOK
<1> QED
  BY <1>1, <1>2, <1>3, <1>4, <1>5 DEF PanelNext

LEMMA TInvIsInductive == PInv /\ TInv /\ [PanelNext]_pvars => TInv'
<1> SUFFICES ASSUME PInv, TInv, [PanelNext]_pvars PROVE TInv'
  OBVIOUS
<1>1. CASE UNCHANGED pvars
  BY <1>1, LabelsAreInductive
     DEF pvars, server, wire, TInv, BackupsAreCounted, Pending, Applies
<1>2. CASE Late
  BY <1>2, LabelsAreInductive DEF Late, wire, TInv, BackupsAreCounted, Pending, Applies
<1> QED
  BY <1>1, <1>2, LabelsAreInductive, ServeKeepsCount, StepKeepsCount, DeliverKeepsCount
     DEF PanelNext, TInv

LEMMA TInvInitially == PanelInit => TInv
<1> SUFFICES ASSUME PanelInit PROVE TInv
  OBVIOUS
<1>1. Len(backups) = 0 /\ steps = 0 /\ Len(inbox) = 0
  BY DEF PanelInit
<1>2. Pending(1) = 0 /\ Pending(2) = 0
  BY <1>1 DEF Pending, Applies
<1>3. BackupsAreCounted
  BY <1>1, <1>2 DEF BackupsAreCounted
<1>4. LabelsTypeOK
  <2>1. 0 \in 0..MaxSteps
    BY PanelAssumption
  <2>2. online = FALSE /\ claim = "none" /\ result = "none" /\ steps = 0
    BY DEF PanelInit
  <2>3. ~unconfirmed /\ ~overlapped /\ ~unread /\ unconfirmed \in BOOLEAN
        /\ overlapped \in BOOLEAN /\ unread \in BOOLEAN
    BY DEF PanelInit
  <2> QED
    BY <2>1, <2>2, <2>3 DEF LabelsTypeOK
<1> QED
  BY <1>3, <1>4 DEF TInv

\* A sequence whose elements are of a narrower kind is a sequence of that kind.
LEMMA SeqOfElements ==
  ASSUME NEW S, NEW T, NEW s \in Seq(S), \A i \in 1..Len(s) : s[i] \in T
  PROVE  s \in Seq(T)
OBVIOUS

LEMMA TypesAreOK == PInv /\ LateInv /\ AInv /\ TInv => PanelTypeOK
<1> SUFFICES ASSUME PInv, LateInv, AInv, TInv PROVE PanelTypeOK
  OBVIOUS
<1>1. Len(backups) \in 0..MaxSteps
  <2>1. Len(backups) \in Nat /\ Pending(1) \in {0, 1} /\ Pending(2) \in {0, 1}
    BY DEF PInv, MInv, WireTypeOK, Pending
  <2> QED
    BY <2>1, PanelAssumption DEF TInv, BackupsAreCounted, LabelsTypeOK
<1>2. 0..Len(backups) \subseteq Backup /\ NoBackup \in Backup
  BY <1>1, PanelAssumption DEF Backup, NoBackup
<1>3. active \in [fix : Fix \cup Review \cup {NoFix}, backup : Backup, applied : BOOLEAN]
  BY <1>2 DEF PInv, DInv, DialogTypeOK
<1>4. call \in [Call -> [step : {"idle", "applying", "verifying", "undoing",
                                "rereading", "auditing"}, backup : Backup]]
  <2>1. ASSUME NEW c \in Call
        PROVE  call[c].backup \in Backup
    <3>1. CASE call[c].step = "verifying"
      BY <1>1, <1>2, <3>1 DEF PInv, MInv, VerifiedBackupExists
    <3>2. CASE call[c].step # "verifying"
      BY <1>2, <3>2 DEF AInv, RequestsSay
    <3> QED
      BY <3>1, <3>2
  <2> QED
    BY <2>1 DEF PInv, MInv, WireTypeOK
<1>5. inbox \in Seq(Request)
  <2>1. ASSUME NEW i \in 1..Len(inbox)
        PROVE  inbox[i] \in Request
    <3>1. inbox[i] \in Asked
      BY DEF PInv, MInv, WireTypeOK
    <3>2. inbox[i].backup \in Backup
      <4>1. CASE inbox[i].op = "rollback"
        BY <1>1, <1>2, <4>1 DEF PInv, MInv, MessagesAreAwaited
      <4>2. CASE inbox[i].op # "rollback"
        BY <1>2, <4>2 DEF AInv, RequestsSay
      <4> QED
        BY <4>1, <4>2
    <3> QED
      BY <3>1, <3>2 DEF Asked, Request
  <2>2. inbox \in Seq(Asked)
    BY DEF PInv, MInv, WireTypeOK
  <2> QED
    BY <2>1, <2>2, SeqOfElements
<1>6. replies \in Seq(Reply)
  <2>1. ASSUME NEW j \in 1..Len(replies)
        PROVE  replies[j] \in Reply
    <3>1. replies[j] \in Answered
      BY DEF PInv, MInv, WireTypeOK
    <3>2. replies[j].backup \in Backup
      BY <1>2 DEF PInv, MInv, MessagesAreAwaited
    <3> QED
      BY <3>1, <3>2 DEF Answered, Reply
  <2>2. replies \in Seq(Answered)
    BY DEF PInv, MInv, WireTypeOK
  <2> QED
    BY <2>1, <2>2, SeqOfElements
<1>7. /\ managed \in SUBSET Fix /\ overridden \in SUBSET Fix /\ listed \in SUBSET Fix
      /\ backups \in Seq([fix : Fix, before : SUBSET Fix]) /\ Len(backups) <= MaxSteps
  BY <1>1, PanelAssumption DEF PInv, MInv, WireTypeOK, PageTypeOK, Taken
<1>8. apply \in Button /\ rollback \in Button /\ abandoned \in BOOLEAN
  BY DEF PInv, DInv, DialogTypeOK
<1> QED
  BY <1>3, <1>4, <1>5, <1>6, <1>7, <1>8 DEF PanelTypeOK, TInv, LabelsTypeOK, LateInv

-----------------------------------------------------------------------------
(* A rollback takes one fix back *)

\* The managed file and what a backup holds differ at most in the dialog's fix.
Near(taken, b, now, fix) == taken[b].before \ {fix} = now \ {fix}

\* So it is with every backup that may still be restored.
BackupsAreNear ==
  ~abandoned /\ ~belated =>
    /\ \A i \in 1..Len(inbox) : inbox[i].op = "rollback"
            => Near(backups, inbox[i].backup, managed, active.fix)
    /\ \A i \in 1..Len(replies) :
         call[replies[i].call].step = "applying" /\ replies[i].backup # NoBackup
           => Near(backups, replies[i].backup, managed, active.fix)
    /\ \A c \in Call : call[c].step = "verifying"
            => Near(backups, call[c].backup, managed, active.fix)
    /\ active.backup # NoBackup => Near(backups, active.backup, managed, active.fix)

\* What an undisturbed command does to the managed file it does to one fix.
LEMMA CommandsTouchOneFix ==
  ASSUME PInv, BackupsAreNear, ~abandoned, ~belated, NEW m, NEW r, Served(m, r), Done(m, r)
  PROVE  /\ managed' \ {active.fix} = managed \ {active.fix}
         /\ \A b \in 1..Len(backups) : b \in 1..Len(backups') /\ backups'[b] = backups[b]
         /\ r.backup # NoBackup => backups'[r.backup].before = managed
<1>1. Len(backups) \in Nat /\ backups \in Seq(Taken)
  BY DEF PInv, MInv, WireTypeOK
<1>2. CASE UNCHANGED <<managed, backups>> /\ r.backup = NoBackup
  BY <1>2
<1>3. CASE /\ m.op = "apply" /\ managed' = managed \cup {m.fix}
           /\ backups' = Append(backups, [fix |-> m.fix, before |-> managed])
           /\ r.backup = (IF r.ok THEN Len(backups') ELSE NoBackup)
  <2>1. m.fix = active.fix
    BY <1>3 DEF Served, PInv, DInv, WorkIsOfTheDialog
  <2>2. /\ Len(backups') = Len(backups) + 1
        /\ backups'[Len(backups')].before = managed
        /\ \A b \in 1..Len(backups) : backups'[b] = backups[b]
    BY <1>1, <1>3
  <2> QED
    BY <1>1, <1>3, <2>1, <2>2
<1>4. CASE /\ m.op = "rollback" /\ managed' = backups[m.backup].before
           /\ UNCHANGED backups /\ r.backup = NoBackup
  BY <1>4 DEF Served, BackupsAreNear, Near
<1> QED
  BY <1>2, <1>3, <1>4 DEF Done

LEMMA ServeKeepsNear ==
  ASSUME PInv, BackupsAreNear, Serve
  PROVE  BackupsAreNear'
<1>1. PICK m \in Asked, r \in Answered : Served(m, r) /\ Done(m, r)
  BY ServeShape
<1>2. SUFFICES ASSUME ~abandoned', ~belated' PROVE BackupsAreNear'
  BY DEF BackupsAreNear
<1>3. ~abandoned /\ ~belated /\ UNCHANGED <<active, call>>
  BY <1>1, <1>2 DEF Served, dialog
<1>4. /\ managed' \ {active.fix} = managed \ {active.fix}
      /\ \A b \in 1..Len(backups) : b \in 1..Len(backups') /\ backups'[b] = backups[b]
      /\ r.backup # NoBackup => backups'[r.backup].before = managed
  BY <1>1, <1>3, CommandsTouchOneFix
<1>5. \A b \in 1..Len(backups) : Near(backups, b, managed, active.fix)
           => Near(backups', b, managed', active'.fix)
  BY <1>3, <1>4 DEF Near
<1>6. r.backup # NoBackup => Near(backups', r.backup, managed', active'.fix)
  BY <1>3, <1>4 DEF Near
<1>7. ASSUME NEW i \in 1..Len(inbox'), inbox'[i].op = "rollback"
      PROVE  Near(backups', inbox'[i].backup, managed', active'.fix)
  <2>1. /\ inbox[i + 1].backup \in 1..Len(backups) /\ inbox'[i] = inbox[i + 1]
        /\ Near(backups, inbox[i + 1].backup, managed, active.fix)
    BY <1>1, <1>3, <1>7 DEF Served, PInv, MInv, MessagesAreAwaited, BackupsAreNear
  <2> QED
    BY <1>5, <2>1
<1>8. ASSUME NEW j \in 1..Len(replies'),
             call'[replies'[j].call].step = "applying", replies'[j].backup # NoBackup
      PROVE  Near(backups', replies'[j].backup, managed', active'.fix)
  <2>1. CASE j = Len(replies')
    BY <1>1, <1>6, <1>8, <2>1 DEF Served
  <2>2. CASE j # Len(replies')
    <3>1. j \in 1..Len(replies) /\ replies'[j] = replies[j]
      BY <1>1, <2>2 DEF Served
    <3>2. replies[j].backup \in 0..Len(backups) /\ Len(backups) \in Nat
      BY <3>1 DEF PInv, MInv, MessagesAreAwaited, WireTypeOK
    <3>3. /\ replies[j].backup \in 1..Len(backups)
          /\ Near(backups, replies[j].backup, managed, active.fix)
      BY <1>3, <1>8, <3>1, <3>2 DEF BackupsAreNear, NoBackup
    <3> QED
      BY <1>5, <3>1, <3>3
  <2> QED
    BY <2>1, <2>2
<1>9. ASSUME NEW c \in Call, call'[c].step = "verifying"
      PROVE  Near(backups', call'[c].backup, managed', active'.fix)
  BY <1>3, <1>5, <1>9 DEF PInv, MInv, VerifiedBackupExists, BackupsAreNear
<1>10. ASSUME active'.backup # NoBackup
       PROVE  Near(backups', active'.backup, managed', active'.fix)
  <2>1. active.backup \in 1..Len(backups)
    BY <1>3, <1>10 DEF PInv, DInv, DialogTypeOK, MInv, WireTypeOK, NoBackup
  <2> QED
    BY <1>3, <1>5, <1>10, <2>1 DEF BackupsAreNear
<1> QED
  BY <1>7, <1>8, <1>9, <1>10 DEF BackupsAreNear

\* A dialog opened or closed over no work has no backups to speak of.
LEMMA FreshDialogKeepsNear ==
  ASSUME PInv, AInv, UNCHANGED <<backups, managed, call, inbox, replies>>,
         active'.backup = NoBackup,
         ~abandoned' => \A c \in Call : ~Working(c)
  PROVE  BackupsAreNear'
<1> SUFFICES ASSUME ~abandoned', ~belated' PROVE BackupsAreNear'
  BY DEF BackupsAreNear
<1>1. \A c \in Call : /\ call[c].step # "applying" /\ call[c].step # "verifying"
                      /\ call[c].step # "undoing"
  BY DEF Working
<1>2. ASSUME NEW i \in 1..Len(inbox')
      PROVE  inbox'[i].op # "rollback"
  <2>1. inbox[i] \in Asked
    BY DEF PInv, MInv, WireTypeOK
  <2>2. inbox[i].call \in Call
    BY <2>1 DEF Asked
  <2> QED
    BY <1>1, <2>2 DEF AInv, RequestsSay
<1>3. ASSUME NEW i \in 1..Len(replies')
      PROVE  call'[replies'[i].call].step # "applying"
  <2>1. replies[i] \in Answered
    BY DEF PInv, MInv, WireTypeOK
  <2>2. replies[i].call \in Call
    BY <2>1 DEF Answered
  <2> QED
    BY <1>1, <2>2
<1> QED
  BY <1>1, <1>2, <1>3 DEF BackupsAreNear

\* A call that ends or asks hands a backup on, and takes none up by itself.
LEMMA MovedKeepsNear ==
  ASSUME BackupsAreNear, UNCHANGED <<backups, managed, abandoned, belated>>,
         active'.fix = active.fix,
         NEW c, NEW k \in {0, 1}, NEW step, NEW held, Moved(c, k, step, held),
         step # "applying",
         \A i \in 1..Len(inbox') : inbox'[i].op = "rollback" =>
           \/ i \in 1..Len(inbox) /\ inbox'[i] = inbox[i]
           \/ inbox'[i].backup = active.backup /\ active.backup # NoBackup,
         step = "verifying" =>
           /\ 1 \in 1..Len(replies) /\ replies[1].call = c /\ held = replies[1].backup
           /\ call[c].step = "applying" /\ held # NoBackup,
         \/ active'.backup = active.backup
         \/ call[c].step = "verifying" /\ active'.backup = call[c].backup
  PROVE  BackupsAreNear'
<1> SUFFICES ASSUME ~abandoned', ~belated' PROVE BackupsAreNear'
  BY DEF BackupsAreNear
<1>1. /\ \A i \in 1..Len(inbox) : inbox[i].op = "rollback"
              => Near(backups, inbox[i].backup, managed, active.fix)
      /\ \A i \in 1..Len(replies) :
           call[replies[i].call].step = "applying" /\ replies[i].backup # NoBackup
             => Near(backups, replies[i].backup, managed, active.fix)
      /\ \A d \in Call : call[d].step = "verifying"
              => Near(backups, call[d].backup, managed, active.fix)
      /\ active.backup # NoBackup => Near(backups, active.backup, managed, active.fix)
  BY DEF BackupsAreNear
<1>2. \A i \in 1..Len(inbox') : inbox'[i].op = "rollback"
           => Near(backups, inbox'[i].backup, managed, active.fix)
  BY <1>1
<1>3. \A j \in 1..Len(replies') :
         call'[replies'[j].call].step = "applying" /\ replies'[j].backup # NoBackup
           => Near(backups, replies'[j].backup, managed, active.fix)
  <2> SUFFICES ASSUME NEW j \in 1..Len(replies'), replies'[j].backup # NoBackup,
                      call'[replies'[j].call].step = "applying"
               PROVE  Near(backups, replies'[j].backup, managed, active.fix)
    OBVIOUS
  <2>1. /\ j + k \in 1..Len(replies) /\ replies'[j] = replies[j + k]
        /\ replies'[j].call \in Call \ {c}
    BY DEF Moved
  <2>2. call[replies[j + k].call].step = "applying"
    BY <2>1 DEF Moved
  <2> QED
    BY <1>1, <2>1, <2>2
<1>4. \A d \in Call : call'[d].step = "verifying"
           => Near(backups, call'[d].backup, managed, active.fix)
  BY <1>1 DEF Moved
<1>5. active'.backup # NoBackup => Near(backups, active'.backup, managed, active.fix)
  BY <1>1 DEF Moved
<1>6. /\ \A i \in 1..Len(inbox') : inbox'[i].op = "rollback"
              => Near(backups', inbox'[i].backup, managed', active'.fix)
      /\ \A j \in 1..Len(replies') :
           call'[replies'[j].call].step = "applying" /\ replies'[j].backup # NoBackup
             => Near(backups', replies'[j].backup, managed', active'.fix)
      /\ \A d \in Call : call'[d].step = "verifying"
              => Near(backups', call'[d].backup, managed', active'.fix)
      /\ active'.backup # NoBackup => Near(backups', active'.backup, managed', active'.fix)
  BY <1>2, <1>3, <1>4, <1>5 DEF Near
<1> QED
  BY <1>6 DEF BackupsAreNear

LEMMA StepKeepsNear ==
  ASSUME PInv, AInv, BackupsAreNear, Step
  PROVE  BackupsAreNear'
<1>1. UNCHANGED <<managed, backups, replies, belated>>
  BY StepShape
<1>2. CASE UNCHANGED <<call, inbox>> /\ \E id \in Previews : Prepare(id)
  <2>1. /\ active'.backup = NoBackup
        /\ ~abandoned' => \A c \in Call : ~Working(c)
    BY <1>2 DEF Prepare, PInv, DInv, WorkIsOfTheDialog
  <2> QED
    BY <1>1, <1>2, <2>1, FreshDialogKeepsNear
<1>3. CASE UNCHANGED <<call, inbox>> /\ Close
  <2>1. /\ active'.backup = NoBackup
        /\ ~abandoned' => \A c \in Call : ~Working(c)
    BY <1>3 DEF Close, Closed
  <2> QED
    BY <1>1, <1>3, <2>1, FreshDialogKeepsNear
<1>4. CASE UNCHANGED <<call, inbox>> /\ ConnectionChanges
  BY <1>1, <1>4 DEF ConnectionChanges, dialog, BackupsAreNear, Near
<1>5. ASSUME NEW c \in Call, ApplySecurityFix(c),
             Asks(c, 0, ApplyRequest(c), "applying", NoBackup)
      PROVE  BackupsAreNear'
  <2>1. UNCHANGED <<active, abandoned>>
    BY <1>5 DEF ApplySecurityFix
  <2>2. SUFFICES ASSUME ~abandoned', ~belated' PROVE BackupsAreNear'
    BY DEF BackupsAreNear
  <2>3. \A i \in 1..Len(inbox') : inbox'[i].op = "rollback"
                                   => i \in 1..Len(inbox) /\ inbox'[i] = inbox[i]
    BY <1>5, RequestFields DEF Asks
  <2>4. \A j \in 1..Len(replies') : /\ replies'[j] = replies[j]
                                   /\ call'[replies'[j].call] = call[replies[j].call]
    BY <1>1, <1>5 DEF Asks, Moved
  <2>5. \A d \in Call : call'[d].step = "verifying" => call'[d] = call[d]
    BY <1>5 DEF Asks, Moved
  <2> QED
    BY <1>1, <2>1, <2>2, <2>3, <2>4, <2>5 DEF BackupsAreNear, Near
<1>6. ASSUME NEW c \in Call, RollbackSecurityFix(c), active.backup \in 1..Len(backups),
             Asks(c, 0, UndoRequest(c), "undoing", NoBackup)
      PROVE  BackupsAreNear'
  <2>1. UNCHANGED <<active, abandoned>> /\ active.backup # NoBackup
    BY <1>6 DEF RollbackSecurityFix
  <2>2. \A i \in 1..Len(inbox') :
           \/ i \in 1..Len(inbox) /\ inbox'[i] = inbox[i]
           \/ inbox'[i].backup = active.backup /\ active.backup # NoBackup
    BY <1>6, <2>1, RequestFields DEF Asks
  <2> QED
    BY <1>1, <1>6, <2>1, <2>2, MovedKeepsNear DEF Asks
<1>7. ASSUME NEW c \in Call, LoadSecurityAudit(c),
             Asks(c, 0, AuditRequest(c), "auditing", NoBackup)
      PROVE  BackupsAreNear'
  <2>1. UNCHANGED <<active, abandoned>>
    BY <1>7 DEF LoadSecurityAudit, dialog
  <2>2. \A i \in 1..Len(inbox') : inbox'[i].op = "rollback"
                                   => i \in 1..Len(inbox) /\ inbox'[i] = inbox[i]
    BY <1>7, RequestFields DEF Asks
  <2> QED
    BY <1>1, <1>7, <2>1, <2>2, MovedKeepsNear DEF Asks
<1> QED
  BY <1>2, <1>3, <1>4, <1>5, <1>6, <1>7, StepShape

LEMMA DeliverKeepsNear ==
  ASSUME PInv, BackupsAreNear, Deliver
  PROVE  BackupsAreNear'
<1>1. UNCHANGED <<managed, backups, abandoned, belated>>
  BY DeliverShape
<1>2. PICK c \in Call, r \in Answered :
              /\ r = replies[1] /\ 1 \in 1..Len(replies) /\ r.call = c
              /\ Outcome(c, r)
  BY DeliverShape
<1>3. DialogTypeOK
  BY DEF PInv, DInv
<1>4. CASE Verifies(c, r)
  <2>1. \A i \in 1..Len(inbox') : inbox'[i].op = "rollback"
                                   => i \in 1..Len(inbox) /\ inbox'[i] = inbox[i]
    BY <1>4, RequestFields DEF Asks, Verifies
  <2> QED
    BY <1>1, <1>2, <1>4, <2>1, MovedKeepsNear DEF Verifies, Asks, dialog
<1>5. CASE Rereads(c, r)
  <2>1. \A i \in 1..Len(inbox') : inbox'[i].op = "rollback"
                                   => i \in 1..Len(inbox) /\ inbox'[i] = inbox[i]
    BY <1>5, RequestFields DEF Asks, Rereads
  <2> QED
    BY <1>1, <1>2, <1>5, <2>1, MovedKeepsNear DEF Rereads, Asks, dialog
<1>6. ASSUME Ends(c, 1), active'.fix = active.fix,
             \/ active'.backup = active.backup
             \/ call[c].step = "verifying" /\ active'.backup = call[c].backup
      PROVE  BackupsAreNear'
  BY <1>1, <1>6, MovedKeepsNear DEF Ends
<1>7. CASE GivesUpApply(c, r) \/ Reread(c, r)
  BY <1>3, <1>6, <1>7 DEF GivesUpApply, Reread, Unapplied, DialogTypeOK
<1>8. CASE Verified(c, r)
  BY <1>3, <1>6, <1>8 DEF Verified, DialogTypeOK
<1>9. CASE GivesUpRollback(c, r)
  BY <1>6, <1>9 DEF GivesUpRollback
<1>10. CASE Audited(c, r)
  <2>1. active'.fix = active.fix /\ active'.backup = active.backup
    BY <1>3, <1>10 DEF Audited, SyncActiveSecurityFix, Unapplied, DialogTypeOK, dialog
  <2> QED
    BY <1>6, <1>10, <2>1 DEF Audited
<1> QED
  BY <1>2, <1>4, <1>5, <1>7, <1>8, <1>9, <1>10 DEF Outcome

LEMMA NearIsInductive == PInv /\ AInv /\ BackupsAreNear /\ [PanelNext]_pvars
           => BackupsAreNear'
<1> SUFFICES ASSUME PInv, AInv, BackupsAreNear, [PanelNext]_pvars PROVE BackupsAreNear'
  OBVIOUS
<1>1. CASE UNCHANGED pvars
  BY <1>1 DEF pvars, server, dialog, wire, history, BackupsAreNear, Near
<1>2. CASE Late
  BY <1>2 DEF Late, dialog, wire, BackupsAreNear, Near
<1> QED
  BY <1>1, <1>2, ServeKeepsNear, StepKeepsNear, DeliverKeepsNear DEF PanelNext

LEMMA NearInitially == PanelInit => BackupsAreNear
<1> SUFFICES ASSUME PanelInit PROVE BackupsAreNear
  OBVIOUS
<1>1. \A c \in Call : call[c].step = "idle"
  BY DEF PanelInit, Idle
<1>2. active.backup = NoBackup /\ Len(inbox) = 0 /\ Len(replies) = 0
  BY DEF PanelInit, Closed
<1> QED
  BY <1>1, <1>2 DEF BackupsAreNear

-----------------------------------------------------------------------------
(* Who works, and in which order the messages are *)

Applier(c) == call[c].step \in {"applying", "verifying"}
Undoer(c) == call[c].step \in {"undoing", "rereading"}

LEMMA WorkerKinds == \A c \in Call : Working(c) <=> Applier(c) \/ Undoer(c)
BY DEF Working, Applier, Undoer

\* The message of call c is not ahead of the one of call a.
NotAhead(c, a) ==
    /\ \A i, j \in 1..Len(replies) : replies[i].call = c /\ replies[j].call = a => j <= i
    /\ \A i \in 1..Len(replies), j \in 1..Len(inbox) :
         ~(replies[i].call = c /\ inbox[j].call = a)
    /\ \A i, j \in 1..Len(inbox) : inbox[i].call = c /\ inbox[j].call = a => j <= i

\* The messages of two other calls keep their order.
LEMMA MovedKeepsOrder ==
  ASSUME NEW c, NEW k \in {0, 1}, NEW step, NEW held, Moved(c, k, step, held),
         inbox' = inbox \/ \E m : Asks(c, k, m, step, held),
         NEW d \in Call \ {c}, NEW a \in Call \ {c}, NotAhead(d, a)
  PROVE  NotAhead(d, a)'
<1>1. \A j \in 1..Len(replies') : j + k \in 1..Len(replies) /\ replies'[j] = replies[j + k]
  BY DEF Moved
<1>2. \A i \in 1..Len(inbox') : inbox'[i].call # c
           => i \in 1..Len(inbox) /\ inbox'[i] = inbox[i]
  BY DEF Asks, Moved
<1>3. ASSUME NEW i \in 1..Len(replies'), NEW j \in 1..Len(replies'),
             replies'[i].call = d, replies'[j].call = a
      PROVE  j <= i
  <2>1. j + k <= i + k
    BY <1>1, <1>3 DEF NotAhead
  <2> QED
    BY <2>1
<1>4. \A i \in 1..Len(replies'), j \in 1..Len(inbox') :
         ~(replies'[i].call = d /\ inbox'[j].call = a)
  BY <1>1, <1>2 DEF NotAhead
<1>5. \A i, j \in 1..Len(inbox') : inbox'[i].call = d /\ inbox'[j].call = a => j <= i
  BY <1>2 DEF NotAhead
<1> QED
  BY <1>3, <1>4, <1>5 DEF NotAhead

\* A call that has just asked is behind every other one.
LEMMA AskerIsLast ==
  ASSUME NEW c, NEW k \in {0, 1}, NEW m, NEW step, NEW held, Asks(c, k, m, step, held),
         NEW a
  PROVE  NotAhead(c, a)'
<1>1. \A j \in 1..Len(replies') : replies'[j].call # c
  BY DEF Asks, Moved
<1>2. \A i \in 1..Len(inbox') : inbox'[i].call = c => i = Len(inbox')
  BY DEF Asks, Moved
<1>3. Len(inbox') \in Nat
  BY DEF Asks
<1> QED
  BY <1>1, <1>2, <1>3 DEF NotAhead

LEMMA ServedKeepsOrder ==
  ASSUME NEW m, NEW r, Served(m, r), NEW c, NEW a, NotAhead(c, a)
  PROVE  NotAhead(c, a)'
<1>1. ASSUME NEW i \in 1..Len(replies'), NEW j \in 1..Len(replies'),
             replies'[i].call = c, replies'[j].call = a
      PROVE  j <= i
  <2>1. CASE i = Len(replies')
    BY <2>1 DEF Served
  <2>2. CASE i # Len(replies') /\ j = Len(replies')
    BY <1>1, <2>2 DEF Served, NotAhead
  <2>3. CASE i # Len(replies') /\ j # Len(replies')
    BY <1>1, <2>3 DEF Served, NotAhead
  <2> QED
    BY <2>1, <2>2, <2>3
<1>2. ASSUME NEW i \in 1..Len(replies'), NEW j \in 1..Len(inbox'),
             replies'[i].call = c, inbox'[j].call = a
      PROVE  FALSE
  <2>1. CASE i = Len(replies')
    <3>1. j + 1 <= 1
      BY <1>2, <2>1 DEF Served, NotAhead
    <3> QED
      BY <3>1
  <2>2. CASE i # Len(replies')
    BY <1>2, <2>2 DEF Served, NotAhead
  <2> QED
    BY <2>1, <2>2
<1>3. ASSUME NEW i \in 1..Len(inbox'), NEW j \in 1..Len(inbox'),
             inbox'[i].call = c, inbox'[j].call = a
      PROVE  j <= i
  <2>1. j + 1 <= i + 1
    BY <1>3 DEF Served, NotAhead
  <2> QED
    BY <2>1
<1> QED
  BY <1>1, <1>2, <1>3 DEF NotAhead

\* A call whose reply is the next one has nobody's message before it.
LEMMA FirstIsAlone ==
  ASSUME AInv, NEW c \in Call, NEW a \in Call \ {c}, NotAhead(c, a),
         1 \in 1..Len(replies), replies[1].call = c
  PROVE  call[a].step = "idle"
<1> SUFFICES ASSUME call[a].step # "idle" PROVE FALSE
  OBVIOUS
<1>1. ~(\E i \in 1..Len(inbox) : inbox[i].call = a)
  BY DEF NotAhead
<1>2. PICK j \in 1..Len(replies) : replies[j].call = a
  BY <1>1 DEF AInv, Answerable
<1>3. j <= 1
  BY <1>2 DEF NotAhead
<1>4. j = 1
  BY <1>3
<1> QED
  BY <1>2, <1>4

-----------------------------------------------------------------------------
(* A rollback that was read again was the last call at work *)

\* The rollback button of a call that undoes is disabled: there is one such call.
OneUndoer ==
    /\ \A c \in Call : Undoer(c) => ~rollback.enabled
    /\ \A c, d \in Call : Undoer(c) /\ Undoer(d) => c = d

ClaimHidesApply == Open /\ claim = "applied" => ~apply.shown

\* In a dialog whose label says applied no apply begins: one that is under way
\* was asked for before the rollback.
AppliersComeFirst ==
    Open /\ claim = "applied" => \A c, a \in Call :
      /\ call[c].step = "undoing" /\ call[a].step = "applying" => NotAhead(c, a)
      /\ call[c].step = "rereading" => call[a].step # "applying"
      /\ call[c].step = "rereading" /\ call[a].step = "verifying" => NotAhead(c, a)

RolledBackIsQuiet ==
    Open /\ claim = "applied" /\ ShowsRollback => \A c \in Call : ~Working(c)

QuietInv == OneUndoer /\ ClaimHidesApply /\ AppliersComeFirst /\ RolledBackIsQuiet

\* The dialog stays as it is, and no call begins or goes on.
LEMMA StillKeepsQuiet ==
  ASSUME QuietInv, UNCHANGED <<dialog, call>>,
         \A c, a \in Call : NotAhead(c, a) => NotAhead(c, a)'
  PROVE  QuietInv'
<1>1. UNCHANGED <<active, claim, result, apply, rollback>>
  BY DEF dialog
<1>2. OneUndoer' /\ ClaimHidesApply' /\ RolledBackIsQuiet'
  BY <1>1 DEF QuietInv, OneUndoer, ClaimHidesApply, RolledBackIsQuiet, ShowsRollback,
     Open, Undoer, Working
<1>3. AppliersComeFirst'
  BY <1>1 DEF QuietInv, AppliersComeFirst, Open
<1> QED
  BY <1>2, <1>3 DEF QuietInv

LEMMA StepKeepsQuiet ==
  ASSUME PInv, QuietInv, Step
  PROVE  QuietInv'
<1>1. UNCHANGED replies /\ DialogTypeOK
  BY StepShape DEF PInv, DInv
<1>2. OneUndoer /\ ClaimHidesApply /\ AppliersComeFirst /\ RolledBackIsQuiet
  BY DEF QuietInv
<1>3. CASE UNCHANGED <<call, inbox>>
           /\ ((\E id \in Previews : Prepare(id)) \/ Close \/ ConnectionChanges)
  <2>1. CASE (\E id \in Previews : Prepare(id)) \/ Close
    <3>1. /\ rollback'.enabled = rollback.enabled
          /\ ~(Open' /\ claim' = "applied")
      BY <1>1, <2>1 DEF Prepare, Close, Closed, Open, DialogTypeOK, Button
    <3>2. OneUndoer'
      BY <1>2, <1>3, <3>1 DEF OneUndoer, Undoer
    <3> QED
      BY <3>1, <3>2 DEF QuietInv, ClaimHidesApply, AppliersComeFirst, RolledBackIsQuiet
  <2>2. CASE ConnectionChanges
    <3>1. UNCHANGED dialog /\ \A c, a \in Call : NotAhead(c, a) => NotAhead(c, a)'
      BY <1>1, <1>3, <2>2 DEF ConnectionChanges, NotAhead
    <3> QED
      BY <1>3, <3>1, StillKeepsQuiet
  <2> QED
    BY <1>3, <2>1, <2>2
<1>4. ASSUME NEW c \in Call, call[c] = Idle, ApplySecurityFix(c),
             Asks(c, 0, ApplyRequest(c), "applying", NoBackup)
      PROVE  QuietInv'
  <2>1. /\ UNCHANGED <<active, claim>> /\ apply.shown /\ Open
        /\ rollback'.enabled = rollback.enabled
    BY <1>1, <1>4, PanelAssumption DEF ApplySecurityFix, DialogTypeOK, Button, Open
  <2>2. ~(Open' /\ claim' = "applied")
    BY <1>2, <2>1 DEF ClaimHidesApply, Open
  <2>3. \A d \in Call : Undoer(d)' => Undoer(d)
    BY <1>4 DEF Asks, Moved, Undoer
  <2>4. OneUndoer'
    BY <1>2, <2>1, <2>3 DEF OneUndoer
  <2> QED
    BY <2>2, <2>4 DEF QuietInv, ClaimHidesApply, AppliersComeFirst, RolledBackIsQuiet
<1>5. ASSUME NEW c \in Call, call[c] = Idle, RollbackSecurityFix(c),
             Asks(c, 0, UndoRequest(c), "undoing", NoBackup)
      PROVE  QuietInv'
  <2>1. /\ UNCHANGED <<active, claim, apply>> /\ result' = "busy"
        /\ rollback.enabled /\ ~rollback'.enabled
    BY <1>1, <1>5 DEF RollbackSecurityFix, DialogTypeOK, Button
  <2>2. /\ \A d \in Call \ {c} : call'[d] = call[d]
        /\ call'[c].step = "undoing"
    BY <1>5 DEF Asks, Moved
  <2>3. \A d \in Call : ~Undoer(d)
    BY <1>2, <2>1 DEF OneUndoer
  <2>4. \A d \in Call \ {c} : ~Undoer(d)'
    BY <2>2, <2>3 DEF Undoer
  <2>5. OneUndoer'
    BY <2>1, <2>4 DEF OneUndoer
  <2>6. AppliersComeFirst'
    BY <1>5, <2>2, <2>4, AskerIsLast DEF AppliersComeFirst, Undoer
  <2>7. ClaimHidesApply' /\ RolledBackIsQuiet'
    BY <1>2, <2>1 DEF ClaimHidesApply, RolledBackIsQuiet, ShowsRollback, Open
  <2> QED
    BY <2>5, <2>6, <2>7 DEF QuietInv
<1>6. ASSUME NEW c \in Call, call[c] = Idle, LoadSecurityAudit(c),
             Asks(c, 0, AuditRequest(c), "auditing", NoBackup)
      PROVE  QuietInv'
  <2>1. UNCHANGED <<active, rollback>> /\ ~Open'
    BY <1>6 DEF LoadSecurityAudit, dialog, Open
  <2>2. \A d \in Call : Undoer(d)' => Undoer(d)
    BY <1>6 DEF Asks, Moved, Undoer
  <2>3. OneUndoer'
    BY <1>2, <2>1, <2>2 DEF OneUndoer
  <2> QED
    BY <2>1, <2>3 DEF QuietInv, ClaimHidesApply, AppliersComeFirst, RolledBackIsQuiet
<1> QED
  BY <1>3, <1>4, <1>5, <1>6, StepShape

LEMMA DeliverKeepsQuiet ==
  ASSUME PInv, AInv, QuietInv, Deliver
  PROVE  QuietInv'
<1>1. DialogTypeOK
  BY DEF PInv, DInv
<1>2. PICK c \in Call, r \in Answered :
              /\ r = replies[1] /\ 1 \in 1..Len(replies) /\ r.call = c
              /\ Outcome(c, r)
  BY DeliverShape
<1>3. OneUndoer /\ ClaimHidesApply /\ AppliersComeFirst /\ RolledBackIsQuiet
  BY DEF QuietInv
\* What the order says of the calls that have not moved.
<1>4. ASSUME NEW step, NEW held, Moved(c, 1, step, held),
             inbox' = inbox \/ \E m : Asks(c, 1, m, step, held),
             active'.fix = active.fix, claim' = claim, Open', claim' = "applied",
             NEW d \in Call \ {c}, NEW a \in Call \ {c}
      PROVE  /\ call'[d].step = "undoing" /\ call'[a].step = "applying" => NotAhead(d, a)'
             /\ call'[d].step = "rereading" => call'[a].step # "applying"
             /\ call'[d].step = "rereading" /\ call'[a].step = "verifying" => NotAhead(d, a)'
  <2>1. /\ call[d].step = "undoing" /\ call[a].step = "applying" => NotAhead(d, a)
        /\ call[d].step = "rereading" => call[a].step # "applying"
        /\ call[d].step = "rereading" /\ call[a].step = "verifying" => NotAhead(d, a)
    BY <1>3, <1>4 DEF AppliersComeFirst, Open
  <2>2. NotAhead(d, a) => NotAhead(d, a)'
    BY <1>4, MovedKeepsOrder
  <2>3. call'[d] = call[d] /\ call'[a] = call[a]
    BY <1>4 DEF Moved
  <2> QED
    BY <2>1, <2>2, <2>3
\* A call ends that leaves the label alone.
<1>5. ASSUME Ends(c, 1), active'.fix = active.fix, claim' = claim
      PROVE  AppliersComeFirst'
  <2>1. Moved(c, 1, "idle", NoBackup) /\ inbox' = inbox /\ call'[c].step = "idle"
    BY <1>5 DEF Ends, Moved
  <2> QED
    BY <1>4, <1>5, <2>1 DEF AppliersComeFirst
\* With two calls, there is no pair left when one of them has ended.
<1>6. ASSUME Ends(c, 1)
      PROVE  AppliersComeFirst'
  <2>1. call'[c].step = "idle"
    BY <1>6 DEF Ends, Moved
  <2>2. \A d, a \in Call : d # c /\ a # c => d = a
    BY DEF Call
  <2> QED
    BY <2>1, <2>2 DEF AppliersComeFirst
<1>7. ASSUME Ends(c, 1)
      PROVE  /\ \A d \in Call : Undoer(d)' => Undoer(d) /\ d # c
             /\ \A d \in Call : Working(d)' => Working(d) /\ d # c
  BY <1>7 DEF Ends, Moved, Undoer, Working
<1>8. CASE Verifies(c, r)
  <2>1. /\ UNCHANGED <<active, claim, result, apply, rollback>>
        /\ Asks(c, 1, AuditRequest(c), "verifying", r.backup)
        /\ Moved(c, 1, "verifying", r.backup)
        /\ call'[c].step = "verifying" /\ call[c].step = "applying"
    BY <1>8 DEF Verifies, dialog, Asks, Moved
  <2>2. /\ \A d \in Call : Undoer(d)' => Undoer(d) /\ d # c
        /\ \A d \in Call : Working(d)' => Working(d)
    BY <2>1 DEF Undoer, Working, Moved
  <2>3. OneUndoer' /\ ClaimHidesApply' /\ RolledBackIsQuiet'
    BY <1>3, <2>1, <2>2 DEF OneUndoer, ClaimHidesApply, RolledBackIsQuiet, ShowsRollback,
       Open
  <2>4. ASSUME Open', claim' = "applied", NEW d \in Call, call'[d].step = "rereading"
        PROVE  FALSE
    <3>1. d \in Call \ {c} /\ call[d].step = "rereading"
      BY <2>1, <2>4 DEF Moved
    <3> QED
      BY <1>3, <2>1, <2>4, <3>1 DEF AppliersComeFirst, Open
  <2>5. AppliersComeFirst'
    <3>1. ASSUME Open', claim' = "applied", NEW d \in Call, NEW a \in Call,
                 call'[d].step = "undoing", call'[a].step = "applying"
          PROVE  NotAhead(d, a)'
      BY <1>4, <2>1, <3>1
    <3> QED
      BY <2>4, <3>1 DEF AppliersComeFirst
  <2> QED
    BY <2>3, <2>5 DEF QuietInv
<1>9. CASE Rereads(c, r)
  <2>1. /\ UNCHANGED <<active, claim, result, apply, rollback>>
        /\ Asks(c, 1, AuditRequest(c), "rereading", NoBackup)
        /\ Moved(c, 1, "rereading", NoBackup)
        /\ call'[c].step = "rereading" /\ call[c].step = "undoing" /\ Undoer(c)
    BY <1>9 DEF Rereads, dialog, Asks, Moved, Undoer
  <2>2. /\ \A d \in Call : Undoer(d)' => Undoer(d)
        /\ \A d \in Call : Working(d)' => Working(d)
    BY <2>1 DEF Undoer, Working, Moved
  <2>3. OneUndoer' /\ ClaimHidesApply' /\ RolledBackIsQuiet'
    BY <1>3, <2>1, <2>2 DEF OneUndoer, ClaimHidesApply, RolledBackIsQuiet, ShowsRollback,
       Open
  <2>4. \A d \in Call : Undoer(d)' => d = c
    BY <1>3, <2>1, <2>2 DEF OneUndoer
  <2>5. ASSUME Open', claim' = "applied", NEW a \in Call, call'[a].step = "applying"
        PROVE  FALSE
    <3>1. a \in Call \ {c} /\ call[a].step = "applying"
      BY <2>1, <2>5 DEF Moved
    <3>2. NotAhead(c, a)
      BY <1>3, <2>1, <2>5, <3>1 DEF AppliersComeFirst, Open
    <3> QED
      BY <1>2, <3>1, <3>2, FirstIsAlone
  <2>6. \A a : NotAhead(c, a)'
    BY <2>1, AskerIsLast
  <2>7. AppliersComeFirst'
    BY <2>4, <2>5, <2>6 DEF AppliersComeFirst, Undoer
  <2> QED
    BY <2>3, <2>7 DEF QuietInv
<1>10. CASE GivesUpApply(c, r)
  <2>1. /\ Ends(c, 1) /\ active'.fix = active.fix /\ UNCHANGED <<claim, rollback>>
        /\ result' = "error" /\ apply'.shown = apply.shown
    BY <1>1, <1>10 DEF GivesUpApply, Unapplied, DialogTypeOK, Button
  <2> QED
    BY <1>3, <1>5, <1>7, <2>1 DEF QuietInv, OneUndoer, ClaimHidesApply, RolledBackIsQuiet,
       ShowsRollback, Open
<1>11. CASE Verified(c, r)
  <2>1. /\ Ends(c, 1) /\ active'.applied /\ ~apply'.shown
        /\ rollback'.enabled = rollback.enabled
    BY <1>1, <1>11 DEF Verified, DialogTypeOK, Button
  <2> QED
    BY <1>3, <1>6, <1>7, <2>1 DEF QuietInv, OneUndoer, ClaimHidesApply, RolledBackIsQuiet,
       ShowsRollback
\* The only call that undoes has ended.
<1>12. ASSUME Ends(c, 1), Undoer(c)
       PROVE  OneUndoer'
  BY <1>3, <1>7, <1>12 DEF OneUndoer
<1>13. CASE GivesUpRollback(c, r)
  <2>1. /\ Ends(c, 1) /\ UNCHANGED <<active, claim, apply>> /\ result' = "error"
        /\ Undoer(c)
    BY <1>13 DEF GivesUpRollback, Undoer
  <2> QED
    BY <1>3, <1>5, <1>12, <2>1 DEF QuietInv, ClaimHidesApply, RolledBackIsQuiet,
       ShowsRollback, Open
<1>14. CASE Reread(c, r)
  <2>1. /\ Ends(c, 1) /\ active'.fix = active.fix /\ UNCHANGED <<claim, apply>>
        /\ call[c].step = "rereading" /\ Undoer(c)
    BY <1>1, <1>14 DEF Reread, Unapplied, DialogTypeOK, Undoer
  <2>2. ASSUME Open', claim' = "applied", NEW d \in Call, Working(d)'
        PROVE  FALSE
    <3>1. d \in Call \ {c} /\ Working(d)
      BY <1>7, <2>1, <2>2
    <3>2. call[d].step = "verifying"
      BY <1>3, <2>1, <2>2, <3>1 DEF AppliersComeFirst, OneUndoer, Undoer, Open, Working
    <3>3. NotAhead(c, d)
      BY <1>3, <2>1, <2>2, <3>2 DEF AppliersComeFirst, Open
    <3> QED
      BY <1>2, <3>1, <3>2, <3>3, FirstIsAlone
  <2>3. RolledBackIsQuiet'
    BY <2>2 DEF RolledBackIsQuiet
  <2> QED
    BY <1>3, <1>5, <1>12, <2>1, <2>3 DEF QuietInv, ClaimHidesApply, Open
<1>15. CASE Audited(c, r)
  <2>1. Ends(c, 1)
    BY <1>15 DEF Audited
  <2>2. CASE UNCHANGED dialog
    <3>1. UNCHANGED <<active, claim, result, apply, rollback>>
      BY <2>2 DEF dialog
    <3> QED
      BY <1>3, <1>5, <1>7, <2>1, <3>1 DEF QuietInv, OneUndoer, ClaimHidesApply,
         RolledBackIsQuiet, ShowsRollback, Open
  <2>3. CASE SyncActiveSecurityFix(r.required)
    <3>1. rollback'.enabled = rollback.enabled
      <4>1. \A shown : [rollback EXCEPT !.shown = shown].enabled = rollback.enabled
        BY <1>1 DEF DialogTypeOK, Button
      <4> QED
        BY <2>3, <4>1 DEF SyncActiveSecurityFix
    <3>2. claim' = "ready" \/ (claim' = "applied" /\ active'.applied /\ ~apply'.shown)
      BY <1>1, <2>3 DEF SyncActiveSecurityFix, DialogTypeOK
    <3> QED
      BY <1>3, <1>6, <1>7, <2>1, <3>1, <3>2 DEF QuietInv, OneUndoer, ClaimHidesApply,
         RolledBackIsQuiet, ShowsRollback
  <2> QED
    BY <1>15, <2>2, <2>3 DEF Audited
<1> QED
  BY <1>2, <1>8, <1>9, <1>10, <1>11, <1>13, <1>14, <1>15 DEF Outcome

LEMMA QuietIsInductive == PInv /\ AInv /\ QuietInv /\ [PanelNext]_pvars => QuietInv'
<1> SUFFICES ASSUME PInv, AInv, QuietInv, [PanelNext]_pvars PROVE QuietInv'
  OBVIOUS
<1>1. CASE Serve
  <2>1. PICK m \in Asked, r \in Answered : Served(m, r) /\ Done(m, r)
    BY <1>1, ServeShape
  <2>2. \A c, a \in Call : NotAhead(c, a) => NotAhead(c, a)'
    BY <2>1, ServedKeepsOrder
  <2> QED
    BY <2>1, <2>2, StillKeepsQuiet DEF Served
<1>2. ASSUME UNCHANGED <<dialog, call, wire>> PROVE QuietInv'
  <2>1. \A c, a \in Call : NotAhead(c, a) => NotAhead(c, a)'
    BY <1>2 DEF NotAhead, wire
  <2> QED
    BY <1>2, <2>1, StillKeepsQuiet
<1>3. CASE Late
  BY <1>2, <1>3 DEF Late
<1>4. CASE UNCHANGED pvars
  BY <1>2, <1>4 DEF pvars
<1> QED
  BY <1>1, <1>3, <1>4, StepKeepsQuiet, DeliverKeepsQuiet DEF PanelNext

LEMMA QuietInitially == PanelInit => QuietInv
<1> SUFFICES ASSUME PanelInit PROVE QuietInv
  OBVIOUS
<1>1. (\A c \in Call : call[c].step = "idle") /\ ~Open
  BY DEF PanelInit, Idle, Open, Closed
<1> QED
  BY <1>1 DEF QuietInv, OneUndoer, ClaimHidesApply, AppliersComeFirst, RolledBackIsQuiet,
     Undoer

-----------------------------------------------------------------------------
(* What the dialog claims *)

\* A rollback that succeeded has not reached the dialog yet.
OkUndo(rs, cl, j) == rs[j].ok /\ cl[rs[j].call].step = "undoing"
UndoPending == \/ \E j \in 1..Len(replies) : OkUndo(replies, call, j)
               \/ \E c \in Call : call[c].step = "rereading"
Reads(cl, c) == cl[c].step \in {"verifying", "auditing", "rereading"}

ClaimOrUndo ==
    Open /\ claim = "applied" /\ ~ShowsRollback
      => active.fix \notin Insecure \/ UndoPending

\* What an audit that is on its way found is so, unless a rollback came after it.
AuditsTellTruth ==
    \A i \in 1..Len(replies) : replies[i].ok /\ Reads(call, replies[i].call) =>
      \/ Insecure \subseteq replies[i].required
      \/ \E j \in i + 1..Len(replies) : OkUndo(replies, call, j)

ClaimInv == ~unconfirmed /\ ~unread => ClaimOrUndo /\ AuditsTellTruth

LEMMA ServeKeepsClaim ==
  ASSUME PInv, AInv, ClaimInv, Serve
  PROVE  ClaimInv'
<1>1. PICK m \in Asked, r \in Answered : Served(m, r) /\ Done(m, r)
  BY ServeShape
<1>2. SUFFICES ASSUME ~unconfirmed', ~unread' PROVE ClaimOrUndo' /\ AuditsTellTruth'
  BY DEF ClaimInv
<1>3. ClaimOrUndo /\ AuditsTellTruth
  BY <1>1, <1>2 DEF Done, ClaimInv
<1>4. /\ Len(replies) \in Nat /\ Len(replies') = Len(replies) + 1
      /\ \A j \in 1..Len(replies) : /\ j \in 1..Len(replies') /\ replies'[j] = replies[j]
                                   /\ OkUndo(replies', call', j) = OkUndo(replies, call, j)
      /\ replies'[Len(replies')] = r /\ UNCHANGED <<dialog, call, overridden>>
  BY <1>1 DEF Served, OkUndo
<1>5. /\ (m.op = "apply") = (call[m.call].step = "applying")
      /\ (m.op = "rollback") = (call[m.call].step = "undoing")
      /\ r.call = m.call
  BY <1>1 DEF Served, PInv, MInv, MessagesAreAwaited, AInv, RequestsSay
<1>6. Insecure' \subseteq Insecure \/ OkUndo(replies', call', Len(replies'))
  <2>1. CASE UNCHANGED managed
    BY <1>4, <2>1 DEF Insecure
  <2>2. CASE managed' = managed \cup {m.fix}
    BY <1>4, <2>2 DEF Insecure
  <2>3. CASE m.op = "rollback" /\ r.ok
    BY <1>4, <1>5, <2>3 DEF OkUndo
  <2> QED
    BY <1>1, <1>2, <2>1, <2>2, <2>3 DEF Done
<1>7. UndoPending \/ OkUndo(replies', call', Len(replies')) => UndoPending'
  <2>1. Len(replies') \in 1..Len(replies')
    BY <1>4
  <2>2. ASSUME NEW j \in 1..Len(replies), OkUndo(replies, call, j) PROVE UndoPending'
    BY <1>4, <2>2 DEF UndoPending, OkUndo
  <2> QED
    BY <1>4, <2>1, <2>2 DEF UndoPending, OkUndo
<1>8. ClaimOrUndo'
  BY <1>3, <1>4, <1>6, <1>7 DEF ClaimOrUndo, ShowsRollback, Open, dialog
<1>9. ASSUME NEW i \in 1..Len(replies'), replies'[i].ok, Reads(call', replies'[i].call)
      PROVE  \/ Insecure' \subseteq replies'[i].required
             \/ \E j \in i + 1..Len(replies') : OkUndo(replies', call', j)
  <2>1. CASE i = Len(replies')
    <3>1. m.op = "audit"
      <4>1. call[m.call].step \in {"verifying", "auditing", "rereading"}
        BY <1>4, <1>5, <1>9, <2>1 DEF Reads
      <4> QED
        BY <1>5, <4>1 DEF Asked
    <3>2. r.ok /\ r.required = Insecure /\ UNCHANGED managed
      BY <1>1, <1>2, <1>4, <1>9, <2>1, <3>1 DEF Done
    <3> QED
      BY <1>4, <2>1, <3>2 DEF Insecure
  <2>2. CASE i # Len(replies')
    <3>1. i \in 1..Len(replies) /\ replies'[i] = replies[i] /\ Reads(call, replies[i].call)
      BY <1>4, <1>9, <2>2 DEF Reads
    <3>2. CASE OkUndo(replies', call', Len(replies'))
      <4>1. Len(replies') \in i + 1..Len(replies')
        BY <1>4, <3>1
      <4> QED
        BY <3>2, <4>1
    <3>3. CASE Insecure' \subseteq Insecure
      <4>1. CASE Insecure \subseteq replies[i].required
        BY <3>1, <3>3, <4>1
      <4>2. CASE \E j \in i + 1..Len(replies) : OkUndo(replies, call, j)
        <5>1. PICK j \in i + 1..Len(replies) : OkUndo(replies, call, j)
          BY <4>2
        <5>2. j \in 1..Len(replies) /\ j \in i + 1..Len(replies')
          BY <1>4, <3>1
        <5>3. OkUndo(replies', call', j)
          BY <1>4, <5>1, <5>2
        <5> QED
          BY <5>2, <5>3
      <4> QED
        BY <1>3, <1>9, <3>1, <4>1, <4>2 DEF AuditsTellTruth
    <3> QED
      BY <1>6, <3>2, <3>3
  <2> QED
    BY <2>1, <2>2
<1>10. AuditsTellTruth'
  BY <1>9 DEF AuditsTellTruth
<1> QED
  BY <1>8, <1>10

\* Replies keep their order, and what they say of their calls.
LEMMA MovedKeepsAudits ==
  ASSUME AuditsTellTruth, UNCHANGED <<managed, overridden>>,
         NEW c, NEW k \in {0, 1}, NEW step, NEW held, Moved(c, k, step, held)
  PROVE  /\ AuditsTellTruth'
         /\ \A j \in 1..Len(replies) : j - k >= 1 /\ OkUndo(replies, call, j)
               => j - k \in 1..Len(replies') /\ OkUndo(replies', call', j - k)
<1>1. /\ Len(replies') \in Nat /\ Len(replies) \in Nat /\ Len(replies') + k = Len(replies)
      /\ \A j \in 1..Len(replies') :
           /\ j + k \in 1..Len(replies) /\ replies'[j] = replies[j + k]
           /\ call'[replies'[j].call] = call[replies[j + k].call]
  BY DEF Moved, Released
<1>2. ASSUME NEW j \in 1..Len(replies), j - k >= 1, OkUndo(replies, call, j)
      PROVE  j - k \in 1..Len(replies') /\ OkUndo(replies', call', j - k)
  <2>1. j - k \in 1..Len(replies') /\ (j - k) + k = j
    BY <1>1, <1>2
  <2> QED
    BY <1>1, <1>2, <2>1 DEF OkUndo
<1>3. ASSUME NEW i \in 1..Len(replies'), replies'[i].ok, Reads(call', replies'[i].call)
      PROVE  \/ Insecure' \subseteq replies'[i].required
             \/ \E j \in i + 1..Len(replies') : OkUndo(replies', call', j)
  <2>1. /\ i + k \in 1..Len(replies) /\ replies'[i] = replies[i + k]
        /\ Reads(call, replies[i + k].call) /\ replies[i + k].ok
    BY <1>1, <1>3 DEF Reads
  <2>2. CASE Insecure \subseteq replies[i + k].required
    BY <2>1, <2>2 DEF Insecure
  <2>3. CASE \E j \in i + k + 1..Len(replies) : OkUndo(replies, call, j)
    <3>1. PICK j \in i + k + 1..Len(replies) : OkUndo(replies, call, j)
      BY <2>3
    <3>2. j \in 1..Len(replies) /\ j - k >= 1 /\ j - k \in i + 1..Len(replies')
      BY <1>1
    <3>3. OkUndo(replies', call', j - k)
      BY <1>2, <3>1, <3>2
    <3> QED
      BY <3>2, <3>3
  <2> QED
    BY <2>1, <2>2, <2>3 DEF AuditsTellTruth
<1> QED
  BY <1>2, <1>3 DEF AuditsTellTruth

LEMMA StepKeepsClaim ==
  ASSUME PInv, ClaimInv, Step
  PROVE  ClaimInv'
<1>1. UNCHANGED <<managed, overridden, replies, unconfirmed, unread>>
  BY StepShape
<1>2. SUFFICES ASSUME ~unconfirmed', ~unread' PROVE ClaimOrUndo' /\ AuditsTellTruth'
  BY DEF ClaimInv
<1>3. ClaimOrUndo /\ AuditsTellTruth /\ Insecure' = Insecure
  BY <1>1, <1>2 DEF ClaimInv, Insecure
<1>4. CASE UNCHANGED <<call, inbox>>
  <2>1. AuditsTellTruth' /\ UndoPending' = UndoPending
    BY <1>1, <1>3, <1>4 DEF AuditsTellTruth, UndoPending, OkUndo, Reads
  <2>2. CASE (\E id \in Previews : Prepare(id)) \/ Close
    BY <2>1, <2>2 DEF Prepare, Close, Closed, ClaimOrUndo, Open
  <2>3. CASE ConnectionChanges
    BY <1>3, <2>1, <2>3 DEF ConnectionChanges, dialog, ClaimOrUndo, ShowsRollback, Open
  <2>4. CASE \E c \in Call : \E m, step, held : Asks(c, 0, m, step, held)
    <3>1. Len(inbox') = Len(inbox) + 1 /\ Len(inbox) \in Nat
      BY <2>4 DEF Asks
    <3> QED
      BY <1>4, <3>1
  <2> QED
    BY <2>1, <2>2, <2>3, <2>4, StepShape
<1>5. ASSUME NEW c \in Call, NEW m, NEW step, call[c] = Idle, Asks(c, 0, m, step, NoBackup),
             \/ ApplySecurityFix(c)
             \/ RollbackSecurityFix(c)
             \/ LoadSecurityAudit(c)
      PROVE  ClaimOrUndo' /\ AuditsTellTruth'
  <2>1. /\ AuditsTellTruth'
        /\ \A j \in 1..Len(replies) : OkUndo(replies, call, j)
                => j \in 1..Len(replies') /\ OkUndo(replies', call', j)
    <3>1. Moved(c, 0, step, NoBackup)
      BY <1>5 DEF Asks
    <3>2. \A j \in 1..Len(replies) : j - 0 >= 1 /\ j - 0 = j
      OBVIOUS
    <3> QED
      BY <1>1, <1>3, <3>1, <3>2, MovedKeepsAudits
  <2>2. UndoPending => UndoPending'
    BY <1>5, <2>1 DEF UndoPending, Idle, Asks, Moved
  <2>3. UNCHANGED <<active, claim>> /\ (Open => ~ShowsRollback)
    BY <1>5 DEF ApplySecurityFix, RollbackSecurityFix, LoadSecurityAudit, dialog,
       ShowsRollback
  <2>4. ClaimOrUndo'
    BY <1>3, <2>2, <2>3 DEF ClaimOrUndo, Open
  <2> QED
    BY <2>1, <2>4
<1> QED
  BY <1>4, <1>5, StepShape

LEMMA DeliverKeepsClaim ==
  ASSUME PInv, QuietInv, ClaimInv, Deliver
  PROVE  ClaimInv'
<1>1. /\ UNCHANGED <<managed, overridden, unread>>
      /\ unconfirmed => unconfirmed'
  BY DeliverShape
<1>2. PICK c \in Call, r \in Answered :
              /\ r = replies[1] /\ 1 \in 1..Len(replies) /\ r.call = c
              /\ Outcome(c, r)
  BY DeliverShape
<1>3. SUFFICES ASSUME ~unconfirmed', ~unread' PROVE ClaimOrUndo' /\ AuditsTellTruth'
  BY DEF ClaimInv
<1>4. ClaimOrUndo /\ AuditsTellTruth /\ Insecure' = Insecure
  BY <1>1, <1>3 DEF ClaimInv, Insecure
<1>5. DialogTypeOK
  BY DEF PInv, DInv
<1>6. \E step, held : Moved(c, 1, step, held)
  BY <1>2 DEF Outcome, Verifies, GivesUpApply, Verified, Rereads, GivesUpRollback, Reread,
        Audited,
     Ends, Asks
<1>7. /\ AuditsTellTruth'
      /\ \A j \in 2..Len(replies) : OkUndo(replies, call, j) => UndoPending'
  <2>1. /\ AuditsTellTruth'
        /\ \A j \in 1..Len(replies) : j - 1 >= 1 /\ OkUndo(replies, call, j)
              => j - 1 \in 1..Len(replies') /\ OkUndo(replies', call', j - 1)
    BY <1>1, <1>4, <1>6, MovedKeepsAudits
  <2>2. \A j \in 2..Len(replies) : j \in 1..Len(replies) /\ j - 1 >= 1
    OBVIOUS
  <2> QED
    BY <2>1, <2>2 DEF UndoPending
<1>8. ASSUME call[c].step # "rereading", ~OkUndo(replies, call, 1), UndoPending
      PROVE  UndoPending'
  <2>1. ASSUME NEW j \in 1..Len(replies), OkUndo(replies, call, j)
        PROVE  UndoPending'
    <3>1. j \in 2..Len(replies)
      BY <1>2, <1>8, <2>1
    <3> QED
      BY <1>7, <2>1, <3>1
  <2>2. ASSUME NEW d \in Call, call[d].step = "rereading"
        PROVE  UndoPending'
    BY <1>6, <1>8, <2>2 DEF UndoPending, Moved
  <2> QED
    BY <1>8, <2>1, <2>2 DEF UndoPending
\* An audit that does not list the dialog's fix.
<1>9. ASSUME r.ok, Reads(call, c), active.fix \notin r.required, Open,
             active'.fix = active.fix
      PROVE  ClaimOrUndo'
  <2>1. \/ Insecure \subseteq r.required
        \/ \E j \in 1 + 1..Len(replies) : OkUndo(replies, call, j)
    BY <1>2, <1>4, <1>9 DEF AuditsTellTruth
  <2> QED
    BY <1>4, <1>7, <1>9, <2>1 DEF ClaimOrUndo
<1>10. ASSUME Verifies(c, r) PROVE ClaimOrUndo'
  BY <1>2, <1>4, <1>8, <1>10 DEF Verifies, dialog, ClaimOrUndo, ShowsRollback, Open, OkUndo
\* A dialog that shows a rollback has no call at work.
<1>11. ASSUME Working(c), Open, claim = "applied"
       PROVE  ~ShowsRollback
  BY <1>11 DEF QuietInv, RolledBackIsQuiet
<1>12. ASSUME GivesUpApply(c, r) PROVE ClaimOrUndo'
  <2>1. active'.fix = active.fix /\ UNCHANGED claim /\ Working(c)
    BY <1>5, <1>12 DEF GivesUpApply, Unapplied, DialogTypeOK, Working
  <2>2. UndoPending => UndoPending'
    BY <1>2, <1>8, <1>12 DEF GivesUpApply, OkUndo
  <2> QED
    BY <1>4, <1>11, <2>1, <2>2 DEF ClaimOrUndo, Open
<1>13. ASSUME Verified(c, r) PROVE ClaimOrUndo'
  <2>1. active'.fix = active.fix
    BY <1>5, <1>13 DEF Verified, DialogTypeOK
  <2> QED
    BY <1>9, <1>13, <2>1 DEF Verified, Reads
<1>14. ASSUME Rereads(c, r) PROVE ClaimOrUndo'
  <2>1. UndoPending'
    BY <1>14 DEF Rereads, Asks, Moved, UndoPending
  <2> QED
    BY <2>1 DEF ClaimOrUndo
<1>15. ASSUME GivesUpRollback(c, r) PROVE ClaimOrUndo'
  <2>1. call[c].step = "undoing" /\ ~r.ok
    BY <1>3, <1>15 DEF GivesUpRollback
  <2>2. UndoPending => UndoPending'
    BY <1>2, <1>8, <2>1 DEF OkUndo
  <2>3. UNCHANGED <<active, claim>> /\ Working(c)
    BY <1>15 DEF GivesUpRollback, Working
  <2> QED
    BY <1>4, <1>11, <2>2, <2>3 DEF ClaimOrUndo, Open
<1>16. ASSUME Reread(c, r) PROVE ClaimOrUndo'
  <2>1. /\ ~active'.applied /\ ~rollback'.shown /\ result' = "ok"
        /\ active'.fix = active.fix /\ UNCHANGED <<claim, apply>>
    BY <1>5, <1>16 DEF Reread, Unapplied, DialogTypeOK
  <2>2. Open' /\ claim' = "applied" => ShowsRollback'
    BY <2>1 DEF QuietInv, ClaimHidesApply, ShowsRollback, Open
  <2> QED
    BY <2>2 DEF ClaimOrUndo
<1>17. ASSUME Audited(c, r) PROVE ClaimOrUndo'
  <2>1. CASE UNCHANGED dialog
    <3>1. UndoPending => UndoPending'
      BY <1>2, <1>8, <1>17 DEF Audited, OkUndo
    <3> QED
      BY <1>4, <2>1, <3>1 DEF ClaimOrUndo, ShowsRollback, Open, dialog
  <2>2. CASE r.ok /\ active.fix \in Fix /\ SyncActiveSecurityFix(r.required)
    <3>1. CASE active.fix \in r.required
      BY <2>2, <3>1 DEF SyncActiveSecurityFix, ClaimOrUndo
    <3>2. CASE active.fix \notin r.required
      <4>1. active'.fix = active.fix /\ Open
        BY <1>5, <2>2, PanelAssumption
           DEF SyncActiveSecurityFix, Unapplied, DialogTypeOK, Open
      <4> QED
        BY <1>9, <1>17, <2>2, <3>2, <4>1 DEF Audited, Reads
    <3> QED
      BY <3>1, <3>2
  <2> QED
    BY <1>17, <2>1, <2>2 DEF Audited
<1> QED
  BY <1>2, <1>7, <1>10, <1>12, <1>13, <1>14, <1>15, <1>16, <1>17 DEF Outcome

LEMMA ClaimIsInductive ==
  PInv /\ LateInv /\ AInv /\ QuietInv /\ ClaimInv /\ [PanelNext]_pvars => ClaimInv'
<1> SUFFICES ASSUME PInv, LateInv, AInv, QuietInv, ClaimInv, [PanelNext]_pvars
             PROVE  ClaimInv'
  OBVIOUS
<1>1. CASE UNCHANGED pvars
  BY <1>1 DEF pvars, server, dialog, wire, history, ClaimInv, ClaimOrUndo, AuditsTellTruth,
     UndoPending, OkUndo, Reads, Insecure, ShowsRollback, Open
<1>2. CASE Late
  BY <1>2, LateShape DEF ClaimInv
<1> QED
  BY <1>1, <1>2, ServeKeepsClaim, StepKeepsClaim, DeliverKeepsClaim DEF PanelNext

LEMMA ClaimInitially == PanelInit => ClaimInv
BY DEF PanelInit, ClaimInv, ClaimOrUndo, AuditsTellTruth, Open, Closed

-----------------------------------------------------------------------------
(* What the dialog reports of a rollback *)

ReportOrWork ==
    Open /\ result = "ok" /\ ~active.applied
      => active.fix \in Insecure \/ \E c \in Call : Working(c)

WorkOf(calls, c) == calls[c].step \in {"applying", "verifying", "undoing", "rereading"}

\* What an audit that is on its way lists is needed, unless a call has done its
\* work since.
AuditsListTruth ==
    \A i \in 1..Len(replies) :
      \/ replies[i].required \subseteq Insecure
      \/ \E j \in i + 1..Len(replies) : WorkOf(call, replies[j].call)

ReportInv == ~belated => ReportOrWork /\ AuditsListTruth

LEMMA ServeKeepsReport ==
  ASSUME PInv, AInv, ReportInv, Serve
  PROVE  ReportInv'
<1>1. PICK m \in Asked, r \in Answered : Served(m, r) /\ Done(m, r)
  BY ServeShape
<1>2. SUFFICES ASSUME ~belated' PROVE ReportOrWork' /\ AuditsListTruth'
  BY DEF ReportInv
<1>3. ReportOrWork /\ AuditsListTruth
  BY <1>1, <1>2 DEF Served, ReportInv
<1>4. /\ Len(replies) \in Nat /\ Len(replies') = Len(replies) + 1
      /\ \A j \in 1..Len(replies) : replies'[j] = replies[j]
      /\ \A j \in 1..Len(replies') : j # Len(replies') => j \in 1..Len(replies)
      /\ replies'[Len(replies')] = r /\ r.call = m.call /\ m.call \in Call
      /\ UNCHANGED <<active, result, call, overridden>>
  <2>1. m.call \in Call
    BY DEF Asked
  <2> QED
    BY <1>1, <2>1 DEF Served, dialog
<1>5. \/ UNCHANGED managed /\ r.required \subseteq Insecure
      \/ Working(m.call) /\ r.required = {}
  <2>1. m.op # "audit" => Working(m.call)
    <3>1. 1 \in 1..Len(inbox) /\ m = inbox[1] /\ m.op \in {"apply", "rollback", "audit"}
      BY <1>1 DEF Served, Asked
    <3>2. /\ (m.op = "apply") = (call[m.call].step = "applying")
          /\ (m.op = "rollback") = (call[m.call].step = "undoing")
      BY <3>1 DEF PInv, MInv, MessagesAreAwaited, AInv, RequestsSay
    <3> QED
      BY <3>1, <3>2 DEF Working, WorkOf
  <2> QED
    BY <1>1, <2>1 DEF Done
<1>6. ReportOrWork'
  BY <1>3, <1>4, <1>5 DEF ReportOrWork, Insecure, Open, Working, WorkOf
<1>7. ASSUME NEW i \in 1..Len(replies')
      PROVE  \/ replies'[i].required \subseteq Insecure'
             \/ \E j \in i + 1..Len(replies') : WorkOf(call', replies'[j].call)
  <2>1. CASE i = Len(replies')
    BY <1>4, <1>5, <2>1 DEF Insecure
  <2>2. CASE i # Len(replies')
    <3>1. i \in 1..Len(replies) /\ replies'[i] = replies[i]
      BY <1>4, <2>2
    <3>2. CASE Working(m.call)
      <4>1. Len(replies') \in i + 1..Len(replies')
        BY <1>4, <3>1
      <4>2. WorkOf(call', replies'[Len(replies')].call)
        BY <1>4, <3>2 DEF Working, WorkOf
      <4> QED
        BY <4>1, <4>2
    <3>3. CASE UNCHANGED managed
      <4>1. CASE replies[i].required \subseteq Insecure
        BY <1>4, <3>1, <3>3, <4>1 DEF Insecure
      <4>2. CASE \E j \in i + 1..Len(replies) : WorkOf(call, replies[j].call)
        <5>1. PICK j \in i + 1..Len(replies) : WorkOf(call, replies[j].call)
          BY <4>2
        <5>2. j \in 1..Len(replies) /\ j \in i + 1..Len(replies')
          BY <1>4, <3>1
        <5>3. WorkOf(call', replies'[j].call)
          BY <1>4, <5>1, <5>2 DEF Working, WorkOf
        <5> QED
          BY <5>2, <5>3
      <4> QED
        BY <1>3, <3>1, <4>1, <4>2 DEF AuditsListTruth
    <3> QED
      BY <1>5, <3>2, <3>3
  <2> QED
    BY <2>1, <2>2
<1> QED
  BY <1>6, <1>7 DEF AuditsListTruth

\* The replies that are left keep their order, and their calls go on working.
LEMMA MovedKeepsLists ==
  ASSUME AuditsListTruth, UNCHANGED <<managed, overridden>>,
         NEW c, NEW k \in {0, 1}, NEW step, NEW held, Moved(c, k, step, held)
  PROVE  /\ AuditsListTruth'
         /\ \A j \in 1..Len(replies) : j - k >= 1 /\ WorkOf(call, replies[j].call)
              => \E d \in Call : Working(d)'
<1>1. /\ Len(replies') \in Nat /\ Len(replies) \in Nat /\ Len(replies') + k = Len(replies)
      /\ \A j \in 1..Len(replies') :
           /\ j + k \in 1..Len(replies) /\ replies'[j] = replies[j + k]
           /\ replies'[j].call \in Call
           /\ call'[replies'[j].call] = call[replies[j + k].call]
  BY DEF Moved, Released
<1>2. ASSUME NEW j \in 1..Len(replies), j - k >= 1, WorkOf(call, replies[j].call)
      PROVE  /\ j - k \in 1..Len(replies') /\ replies'[j - k].call \in Call
             /\ WorkOf(call', replies'[j - k].call)
  <2>1. j - k \in 1..Len(replies') /\ (j - k) + k = j
    BY <1>1, <1>2
  <2> QED
    BY <1>1, <1>2, <2>1 DEF Working, WorkOf
<1>3. ASSUME NEW i \in 1..Len(replies')
      PROVE  \/ replies'[i].required \subseteq Insecure'
             \/ \E j \in i + 1..Len(replies') : WorkOf(call', replies'[j].call)
  <2>1. i + k \in 1..Len(replies) /\ replies'[i] = replies[i + k]
    BY <1>1
  <2>2. CASE replies[i + k].required \subseteq Insecure
    BY <2>1, <2>2 DEF Insecure
  <2>3. CASE \E j \in i + k + 1..Len(replies) : WorkOf(call, replies[j].call)
    <3>1. PICK j \in i + k + 1..Len(replies) : WorkOf(call, replies[j].call)
      BY <2>3
    <3>2. j \in 1..Len(replies) /\ j - k >= 1 /\ j - k \in i + 1..Len(replies')
      BY <1>1
    <3>3. WorkOf(call', replies'[j - k].call)
      BY <1>2, <3>1, <3>2
    <3> QED
      BY <3>2, <3>3
  <2> QED
    BY <2>1, <2>2, <2>3 DEF AuditsListTruth
<1>4. AuditsListTruth'
  BY <1>3 DEF AuditsListTruth
<1>5. ASSUME NEW j \in 1..Len(replies), j - k >= 1, WorkOf(call, replies[j].call)
      PROVE  \E d \in Call : Working(d)'
  <2>1. WorkOf(call', replies'[j - k].call) /\ replies'[j - k].call \in Call
    BY <1>2, <1>5
  <2> QED
    BY <2>1 DEF Working, WorkOf
<1> QED
  BY <1>4, <1>5

LEMMA StepKeepsReport ==
  ASSUME PInv, ReportInv, Step
  PROVE  ReportInv'
<1>1. UNCHANGED <<managed, overridden, replies, belated>>
  BY StepShape
<1>2. SUFFICES ASSUME ~belated' PROVE ReportOrWork' /\ AuditsListTruth'
  BY DEF ReportInv
<1>3. ReportOrWork /\ AuditsListTruth /\ Insecure' = Insecure
  BY <1>1, <1>2 DEF ReportInv, Insecure
<1>4. CASE UNCHANGED <<call, inbox>>
           /\ ((\E id \in Previews : Prepare(id)) \/ Close \/ ConnectionChanges)
  <2>1. AuditsListTruth'
    BY <1>1, <1>3, <1>4 DEF AuditsListTruth, Working, WorkOf
  <2>2. CASE (\E id \in Previews : Prepare(id)) \/ Close
    BY <2>1, <2>2 DEF Prepare, Close, Closed, ReportOrWork, Open
  <2>3. CASE ConnectionChanges
    BY <1>3, <1>4, <2>1, <2>3 DEF ConnectionChanges, dialog, ReportOrWork, Open, Working, WorkOf
  <2> QED
    BY <1>4, <2>2, <2>3
<1>5. ASSUME NEW c \in Call, NEW m, NEW step, Asks(c, 0, m, step, NoBackup),
             \/ ApplySecurityFix(c)
             \/ RollbackSecurityFix(c)
             \/ LoadSecurityAudit(c)
      PROVE  ReportOrWork' /\ AuditsListTruth'
  <2>1. Moved(c, 0, step, NoBackup)
    BY <1>5 DEF Asks
  <2>2. AuditsListTruth'
    BY <1>1, <1>3, <2>1, MovedKeepsLists
  <2>3. ~(Open' /\ result' = "ok")
    BY <1>5 DEF ApplySecurityFix, RollbackSecurityFix, LoadSecurityAudit, dialog, Open
  <2> QED
    BY <2>2, <2>3 DEF ReportOrWork, Working, WorkOf
<1> QED
  BY <1>4, <1>5, StepShape

LEMMA DeliverKeepsReport ==
  ASSUME PInv, ReportInv, Deliver
  PROVE  ReportInv'
<1>1. UNCHANGED <<managed, overridden, belated>> /\ DialogTypeOK
  BY DeliverShape DEF PInv, DInv
<1>2. PICK c \in Call, r \in Answered :
              /\ r = replies[1] /\ 1 \in 1..Len(replies) /\ r.call = c
              /\ Outcome(c, r)
  BY DeliverShape
<1>3. SUFFICES ASSUME ~belated' PROVE ReportOrWork' /\ AuditsListTruth'
  BY DEF ReportInv
<1>4. ReportOrWork /\ AuditsListTruth /\ Insecure' = Insecure
  BY <1>1, <1>3 DEF ReportInv, Insecure
<1>5. \E step, held : Moved(c, 1, step, held)
  BY <1>2 DEF Outcome, Verifies, GivesUpApply, Verified, Rereads, GivesUpRollback, Reread,
     Audited, Ends, Asks
<1>6. /\ AuditsListTruth'
      /\ \A j \in 1..Len(replies) : j - 1 >= 1 /\ WorkOf(call, replies[j].call)
           => \E d \in Call : Working(d)'
  BY <1>1, <1>4, <1>5, MovedKeepsLists
\* The audit that was delivered lists the fix of the dialog.
<1>7. ASSUME active.fix \in r.required, active'.fix = active.fix
      PROVE  ReportOrWork'
  <2>1. \/ r.required \subseteq Insecure
        \/ \E j \in 1 + 1..Len(replies) : WorkOf(call, replies[j].call)
    BY <1>2, <1>4 DEF AuditsListTruth
  <2>2. \A j \in 1 + 1..Len(replies) : j \in 1..Len(replies) /\ j - 1 >= 1
    OBVIOUS
  <2> QED
    BY <1>4, <1>6, <1>7, <2>1, <2>2 DEF ReportOrWork, Working, WorkOf
<1>8. CASE Verifies(c, r) \/ Rereads(c, r)
  <2>1. Working(c)'
    BY <1>8 DEF Verifies, Rereads, Asks, Moved, Working, WorkOf
  <2> QED
    BY <1>6, <2>1 DEF ReportOrWork, Working, WorkOf
<1>9. CASE GivesUpApply(c, r) \/ GivesUpRollback(c, r)
  <2>1. result' = "error"
    BY <1>9 DEF GivesUpApply, GivesUpRollback
  <2> QED
    BY <1>6, <2>1 DEF ReportOrWork, Working, WorkOf
<1>10. CASE Verified(c, r)
  <2>1. active'.applied
    BY <1>1, <1>10 DEF Verified, DialogTypeOK
  <2> QED
    BY <1>6, <2>1 DEF ReportOrWork, Working, WorkOf
<1>11. CASE Reread(c, r)
  <2>1. active'.fix = active.fix /\ active.fix \in r.required
    BY <1>1, <1>11 DEF Reread, Unapplied, DialogTypeOK
  <2> QED
    BY <1>6, <1>7, <2>1
<1>12. CASE Audited(c, r)
  <2>1. CASE UNCHANGED dialog
    <3>1. \A d \in Call : Working(d) => Working(d)'
      BY <1>12 DEF Audited, Ends, Moved, Working, WorkOf
    <3> QED
      BY <1>4, <1>6, <2>1, <3>1 DEF ReportOrWork, Open, dialog
  <2>2. CASE SyncActiveSecurityFix(r.required)
    <3>1. CASE active.fix \in r.required
      <4>1. active'.fix = active.fix
        BY <1>1, <2>2, <3>1 DEF SyncActiveSecurityFix, Unapplied, DialogTypeOK
      <4> QED
        BY <1>6, <1>7, <3>1, <4>1
    <3>2. CASE active.fix \notin r.required
      <4>1. active'.applied
        BY <1>1, <2>2, <3>2 DEF SyncActiveSecurityFix, DialogTypeOK
      <4> QED
        BY <1>6, <4>1 DEF ReportOrWork, Working, WorkOf
    <3> QED
      BY <3>1, <3>2
  <2> QED
    BY <1>12, <2>1, <2>2 DEF Audited
<1> QED
  BY <1>2, <1>8, <1>9, <1>10, <1>11, <1>12 DEF Outcome

LEMMA ReportIsInductive ==
  PInv /\ LateInv /\ AInv /\ ReportInv /\ [PanelNext]_pvars => ReportInv'
<1> SUFFICES ASSUME PInv, LateInv, AInv, ReportInv, [PanelNext]_pvars PROVE ReportInv'
  OBVIOUS
<1>1. ASSUME ~belated' => ~belated /\ UNCHANGED managed,
             UNCHANGED <<overridden, dialog, call, wire>>
      PROVE  ReportInv'
  BY <1>1 DEF dialog, wire, ReportInv, ReportOrWork, AuditsListTruth, Insecure, Open,
     Working
<1>2. CASE Late
  BY <1>1, <1>2, LateShape DEF wire
<1>3. CASE UNCHANGED pvars
  BY <1>1, <1>3 DEF pvars, server, history
<1> QED
  BY <1>2, <1>3, ServeKeepsReport, StepKeepsReport, DeliverKeepsReport DEF PanelNext

LEMMA ReportInitially == PanelInit => ReportInv
BY DEF PanelInit, ReportInv, ReportOrWork, AuditsListTruth, Open, Closed

-----------------------------------------------------------------------------
(* One worker at a time *)

\* No failure was shown for what was done, every setting could be read, and no
\* apply was asked for during another call.
Reliable == ~unconfirmed /\ ~overlapped /\ ~unread

OneWorker == \A c, d \in Call : Working(c) /\ Working(d) => c = d

\* A call that works keeps the rollback button from starting another one.
WorkersHoldRollback ==
    /\ \A c \in Call : Applier(c) => ~rollback.shown /\ active.backup = NoBackup
    /\ \A c \in Call : Undoer(c) => ~rollback.enabled

\* A dialog with a backup does not apply again; an audit that is still under way
\* then was asked for before, and finds the dialog applied.
BackupHidesApply ==
    active.backup # NoBackup =>
      ~apply.shown /\ \A a \in Call : call[a].step = "auditing" => active.applied

\* An audit under way in a dialog with a backup is answered before its rollback.
AuditsComeFirst ==
    active.backup # NoBackup =>
      \A c, a \in Call : Undoer(c) /\ call[a].step = "auditing" => NotAhead(c, a)

WorkInv ==
    Reliable => OneWorker /\ WorkersHoldRollback /\ BackupHidesApply /\ AuditsComeFirst

LEMMA ServeKeepsWork ==
  ASSUME PInv, WorkInv, Serve
  PROVE  WorkInv'
<1>1. PICK m \in Asked, r \in Answered : Served(m, r) /\ Done(m, r)
  BY ServeShape
<1>2. SUFFICES ASSUME Reliable'
               PROVE  /\ OneWorker' /\ WorkersHoldRollback'
                      /\ BackupHidesApply' /\ AuditsComeFirst'
  BY DEF WorkInv
<1>3. OneWorker /\ WorkersHoldRollback /\ BackupHidesApply /\ AuditsComeFirst
  BY <1>1, <1>2 DEF Reliable, Served, Done, WorkInv
<1>4. UNCHANGED <<call, active, apply, rollback>>
  BY <1>1 DEF Served, dialog
<1>5. OneWorker' /\ WorkersHoldRollback' /\ BackupHidesApply'
  BY <1>3, <1>4 DEF OneWorker, WorkersHoldRollback, BackupHidesApply, Working, Applier,
                    Undoer
<1>6. AuditsComeFirst'
  BY <1>1, <1>3, <1>4, ServedKeepsOrder DEF AuditsComeFirst, Undoer
<1> QED
  BY <1>5, <1>6

LEMMA StepKeepsWork ==
  ASSUME PInv, WorkInv, Step
  PROVE  WorkInv'
<1>1. UNCHANGED <<replies, unconfirmed, unread>> /\ DialogTypeOK
  BY StepShape DEF PInv, DInv
<1>2. SUFFICES ASSUME Reliable'
               PROVE  /\ OneWorker' /\ WorkersHoldRollback'
                      /\ BackupHidesApply' /\ AuditsComeFirst'
  BY DEF WorkInv
<1>3. CASE UNCHANGED <<call, inbox>>
           /\ ((\E id \in Previews : Prepare(id)) \/ Close \/ ConnectionChanges)
  <2>1. OneWorker /\ WorkersHoldRollback /\ BackupHidesApply /\ AuditsComeFirst
    BY <1>1, <1>2, <1>3 DEF Reliable, WorkInv, Prepare, Close, ConnectionChanges
  <2>2. OneWorker'
    BY <1>3, <2>1 DEF OneWorker, Working
  <2>3. CASE (\E id \in Previews : Prepare(id)) \/ Close
    <3>1. /\ active'.backup = NoBackup /\ (rollback'.shown => rollback.shown)
          /\ rollback'.enabled = rollback.enabled
      BY <1>1, <2>3 DEF Prepare, Close, Closed, DialogTypeOK, Button
    <3> QED
      BY <1>3, <2>1, <2>2, <3>1
         DEF WorkersHoldRollback, BackupHidesApply, AuditsComeFirst, Applier, Undoer
  <2>4. CASE ConnectionChanges
    <3>1. UNCHANGED <<active, apply, rollback>>
      BY <2>4 DEF ConnectionChanges, dialog
    <3> QED
      BY <1>1, <1>3, <2>1, <2>2, <3>1
         DEF WorkersHoldRollback, BackupHidesApply, AuditsComeFirst, Applier, Undoer,
             NotAhead
  <2> QED
    BY <1>3, <2>3, <2>4
<1>4. ASSUME NEW c \in Call, call[c] = Idle, ApplySecurityFix(c),
             Asks(c, 0, ApplyRequest(c), "applying", NoBackup)
      PROVE  OneWorker' /\ WorkersHoldRollback' /\ BackupHidesApply' /\ AuditsComeFirst'
  <2>1. /\ \A d \in Call : ~Working(d)
        /\ OneWorker /\ WorkersHoldRollback /\ BackupHidesApply /\ AuditsComeFirst
    BY <1>1, <1>2, <1>4 DEF ApplySecurityFix, Reliable, WorkInv
  <2>2. /\ \A d \in Call \ {c} : call'[d] = call[d]
        /\ call'[c].step = "applying"
    BY <1>4 DEF Asks, Moved
  <2>3. /\ active.backup = NoBackup /\ UNCHANGED active /\ ~rollback'.shown
        /\ apply'.shown = apply.shown
    BY <1>1, <1>4, <2>1 DEF ApplySecurityFix, BackupHidesApply, DialogTypeOK, Button
  <2>4. \A d \in Call \ {c} : ~Working(d)' /\ ~Undoer(d)'
    BY <2>1, <2>2 DEF Working, Undoer
  <2>5. OneWorker'
    BY <2>4 DEF OneWorker
  <2>6. WorkersHoldRollback'
    BY <2>2, <2>3, <2>4 DEF WorkersHoldRollback, Undoer
  <2> QED
    BY <2>3, <2>5, <2>6 DEF BackupHidesApply, AuditsComeFirst
<1>5. ASSUME NEW c \in Call, call[c] = Idle, RollbackSecurityFix(c),
             Asks(c, 0, UndoRequest(c), "undoing", NoBackup)
      PROVE  OneWorker' /\ WorkersHoldRollback' /\ BackupHidesApply' /\ AuditsComeFirst'
  <2>1. OneWorker /\ WorkersHoldRollback /\ BackupHidesApply /\ AuditsComeFirst
    BY <1>1, <1>2, <1>5 DEF RollbackSecurityFix, Reliable, WorkInv
  <2>2. \A d \in Call : ~Working(d)
    BY <1>5, <2>1, WorkerKinds DEF RollbackSecurityFix, WorkersHoldRollback
  <2>3. /\ \A d \in Call \ {c} : call'[d] = call[d]
        /\ call'[c].step = "undoing"
    BY <1>5 DEF Asks, Moved
  <2>4. UNCHANGED <<active, apply>> /\ ~rollback'.enabled
    BY <1>1, <1>5 DEF RollbackSecurityFix, DialogTypeOK, Button
  <2>5. \A d \in Call \ {c} : ~Working(d)' /\ ~Undoer(d)' /\ ~Applier(d)'
    BY <2>2, <2>3 DEF Working, Undoer, Applier
  <2>6. ~Applier(c)' /\ call'[c].step # "auditing"
    BY <2>3 DEF Applier
  <2>7. OneWorker'
    BY <2>5 DEF OneWorker
  <2>8. WorkersHoldRollback'
    BY <2>4, <2>5, <2>6 DEF WorkersHoldRollback
  <2>9. BackupHidesApply'
    BY <2>1, <2>3, <2>4 DEF BackupHidesApply
  <2>10. AuditsComeFirst'
    BY <1>5, <2>5, AskerIsLast DEF AuditsComeFirst
  <2> QED
    BY <2>7, <2>8, <2>9, <2>10
<1>6. ASSUME NEW c \in Call, call[c] = Idle, LoadSecurityAudit(c),
             Asks(c, 0, AuditRequest(c), "auditing", NoBackup)
      PROVE  OneWorker' /\ WorkersHoldRollback' /\ BackupHidesApply' /\ AuditsComeFirst'
  <2>1. OneWorker /\ WorkersHoldRollback /\ BackupHidesApply /\ AuditsComeFirst
    BY <1>1, <1>2, <1>6 DEF LoadSecurityAudit, Reliable, WorkInv
  <2>2. /\ \A d \in Call \ {c} : call'[d] = call[d]
        /\ call'[c].step = "auditing"
    BY <1>6 DEF Asks, Moved
  <2>3. UNCHANGED <<active, apply, rollback>> /\ active.backup = NoBackup
    BY <1>1, <1>6 DEF LoadSecurityAudit, dialog, DialogTypeOK
  <2>4. /\ \A d \in Call : Working(d)' => Working(d)
        /\ \A d \in Call : Applier(d)' => Applier(d)
        /\ \A d \in Call : Undoer(d)' => Undoer(d)
    BY <2>2 DEF Working, Undoer, Applier
  <2> QED
    BY <2>1, <2>3, <2>4
       DEF OneWorker, WorkersHoldRollback, BackupHidesApply, AuditsComeFirst
<1> QED
  BY <1>3, <1>4, <1>5, <1>6, StepShape

LEMMA DeliverKeepsWork ==
  ASSUME PInv, AInv, WorkInv, Deliver
  PROVE  WorkInv'
<1>1. /\ UNCHANGED <<overlapped, unread>> /\ DialogTypeOK
      /\ unconfirmed => unconfirmed'
  BY DeliverShape DEF PInv, DInv
<1>2. PICK c \in Call, r \in Answered :
              /\ r = replies[1] /\ 1 \in 1..Len(replies) /\ r.call = c
              /\ Outcome(c, r)
  BY DeliverShape
<1>3. SUFFICES ASSUME Reliable'
               PROVE  /\ OneWorker' /\ WorkersHoldRollback'
                      /\ BackupHidesApply' /\ AuditsComeFirst'
  BY DEF WorkInv
<1>4. OneWorker /\ WorkersHoldRollback /\ BackupHidesApply /\ AuditsComeFirst
  BY <1>1, <1>3 DEF Reliable, WorkInv
\* The worker has ended: what is left to show is about the dialog.
<1>5. ASSUME Ends(c, 1), Working(c), BackupHidesApply'
      PROVE  OneWorker' /\ WorkersHoldRollback' /\ BackupHidesApply' /\ AuditsComeFirst'
  <2>1. \A d \in Call : ~Working(d)' /\ ~Applier(d)' /\ ~Undoer(d)'
    BY <1>4, <1>5 DEF Ends, Moved, OneWorker, Working, Applier, Undoer
  <2> QED
    BY <1>5, <2>1 DEF OneWorker, WorkersHoldRollback, AuditsComeFirst
<1>6. CASE Verifies(c, r)
  <2>1. /\ UNCHANGED <<active, apply, rollback>>
        /\ \A d \in Call \ {c} : call'[d] = call[d]
        /\ call'[c].step = "verifying" /\ Applier(c)
    BY <1>6 DEF Verifies, dialog, Asks, Moved, Applier
  <2>2. /\ \A d \in Call : Working(d)' => Working(d)
        /\ \A d \in Call : Applier(d)' => Applier(d)
        /\ \A d \in Call : Undoer(d)' => Undoer(d)
        /\ \A d \in Call : call'[d].step = "auditing" => call[d].step = "auditing"
    BY <2>1 DEF Working, Undoer, Applier
  <2>3. active.backup = NoBackup
    BY <1>4, <2>1 DEF WorkersHoldRollback
  <2> QED
    BY <1>4, <2>1, <2>2, <2>3
       DEF OneWorker, WorkersHoldRollback, BackupHidesApply, AuditsComeFirst
<1>7. CASE GivesUpApply(c, r)
  <2>1. Applier(c) /\ active'.backup = active.backup
    BY <1>1, <1>7 DEF GivesUpApply, Applier, Unapplied, DialogTypeOK
  <2>2. active'.backup = NoBackup
    BY <1>4, <2>1 DEF WorkersHoldRollback
  <2> QED
    BY <1>5, <1>7, <2>1, <2>2, WorkerKinds DEF GivesUpApply, BackupHidesApply
<1>8. CASE Verified(c, r)
  <2>1. Working(c) /\ active'.applied /\ ~apply'.shown
    BY <1>1, <1>8 DEF Verified, Working, DialogTypeOK
  <2> QED
    BY <1>5, <1>8, <2>1 DEF Verified, BackupHidesApply
<1>9. CASE Rereads(c, r)
  <2>1. /\ UNCHANGED <<active, apply, rollback>>
        /\ \A d \in Call \ {c} : call'[d] = call[d]
        /\ call'[c].step = "rereading" /\ Working(c)
    BY <1>9 DEF Rereads, dialog, Asks, Moved, Working
  <2>2. /\ \A d \in Call : Working(d)' => Working(d)
        /\ \A d \in Call : Applier(d)' => Applier(d)
        /\ \A d \in Call : Undoer(d)' => Undoer(d)
        /\ \A d \in Call : call'[d].step = "auditing" => call[d].step = "auditing"
    BY <1>9, <2>1 DEF Working, Undoer, Applier, Rereads
  <2>3. OneWorker' /\ WorkersHoldRollback' /\ BackupHidesApply'
    BY <1>4, <2>1, <2>2 DEF OneWorker, WorkersHoldRollback, BackupHidesApply
  <2>4. \A d \in Call : Undoer(d)' => d = c
    BY <1>4, <2>1, <2>2, WorkerKinds DEF OneWorker
  <2>5. AuditsComeFirst'
    BY <1>9, <2>4, AskerIsLast DEF AuditsComeFirst, Rereads
  <2> QED
    BY <2>3, <2>5
<1>10. CASE GivesUpRollback(c, r)
  <2>1. /\ Working(c) /\ UNCHANGED <<active, apply>>
        /\ \A d \in Call : call'[d].step = "auditing" => call[d].step = "auditing"
    BY <1>10 DEF GivesUpRollback, Working, Ends, Moved
  <2>2. BackupHidesApply'
    BY <1>4, <2>1 DEF BackupHidesApply
  <2> QED
    BY <1>5, <1>10, <2>1, <2>2 DEF GivesUpRollback
<1>11. CASE Reread(c, r)
  <2>1. /\ Working(c) /\ Undoer(c) /\ UNCHANGED apply /\ active'.backup = active.backup
        /\ \A d \in Call : call'[d].step = "auditing" => call[d].step = "auditing" /\ d # c
    BY <1>1, <1>11 DEF Reread, Working, Undoer, Ends, Moved, Unapplied, DialogTypeOK
  <2>2. ASSUME NEW a \in Call, call[a].step = "auditing", a # c, active.backup # NoBackup
        PROVE  FALSE
    <3>1. NotAhead(c, a)
      BY <1>4, <2>1, <2>2 DEF AuditsComeFirst
    <3>2. ~(\E i \in 1..Len(inbox) : inbox[i].call = a)
      BY <1>2, <3>1 DEF NotAhead
    <3>3. PICK j \in 1..Len(replies) : replies[j].call = a
      BY <2>2, <3>2 DEF AInv, Answerable
    <3>4. j <= 1
      BY <1>2, <3>1, <3>3 DEF NotAhead
    <3>5. j = 1
      BY <3>4
    <3> QED
      BY <1>2, <2>2, <3>3, <3>5
  <2>3. BackupHidesApply'
    BY <1>4, <2>1, <2>2 DEF BackupHidesApply
  <2> QED
    BY <1>5, <1>11, <2>1, <2>3 DEF Reread
<1>12. CASE Audited(c, r)
  <2>1. /\ \A d \in Call \ {c} : call'[d] = call[d]
        /\ call'[c].step = "idle" /\ call[c].step = "auditing"
    BY <1>12 DEF Audited, Ends, Moved
  <2>2. /\ \A d \in Call : Working(d)' => Working(d)
        /\ \A d \in Call : Applier(d)' => Applier(d)
        /\ \A d \in Call : Undoer(d)' => Undoer(d) /\ d # c
        /\ \A d \in Call : call'[d].step = "auditing" => call[d].step = "auditing" /\ d # c
    BY <2>1 DEF Working, Undoer, Applier
  <2>3. OneWorker'
    BY <1>4, <2>2 DEF OneWorker
  <2>4. CASE UNCHANGED dialog
    <3>1. UNCHANGED <<active, apply, rollback>>
      BY <2>4 DEF dialog
    <3>2. WorkersHoldRollback' /\ BackupHidesApply'
      BY <1>4, <2>2, <3>1 DEF WorkersHoldRollback, BackupHidesApply
    <3>3. AuditsComeFirst'
      <4>1. \A d, a \in Call \ {c} : NotAhead(d, a) => NotAhead(d, a)'
        BY <1>12, MovedKeepsOrder DEF Audited, Ends
      <4> QED
        BY <1>4, <2>2, <3>1, <4>1 DEF AuditsComeFirst
    <3> QED
      BY <2>3, <3>2, <3>3
  <2>5. CASE ~active.applied /\ SyncActiveSecurityFix(r.required)
    <3>1. active.backup = NoBackup
      BY <1>4, <2>1, <2>5 DEF BackupHidesApply
    <3>2. active'.backup = NoBackup
      BY <1>1, <2>5, <3>1 DEF SyncActiveSecurityFix, Unapplied, DialogTypeOK
    <3>3. rollback' = [rollback EXCEPT !.shown = FALSE]
      BY <2>5, <3>1 DEF SyncActiveSecurityFix
    <3>4. ~rollback'.shown /\ rollback'.enabled = rollback.enabled
      BY <1>1, <3>3 DEF DialogTypeOK, Button
    <3>5. WorkersHoldRollback'
      BY <1>4, <2>2, <3>2, <3>4 DEF WorkersHoldRollback
    <3> QED
      BY <2>3, <3>2, <3>5 DEF BackupHidesApply, AuditsComeFirst
  <2> QED
    BY <1>12, <2>4, <2>5 DEF Audited
<1> QED
  BY <1>2, <1>6, <1>7, <1>8, <1>9, <1>10, <1>11, <1>12 DEF Outcome

LEMMA WorkIsInductive == PInv /\ AInv /\ WorkInv /\ [PanelNext]_pvars => WorkInv'
<1> SUFFICES ASSUME PInv, AInv, WorkInv, [PanelNext]_pvars PROVE WorkInv'
  OBVIOUS
<1>1. CASE UNCHANGED pvars
  BY <1>1 DEF pvars, server, dialog, wire, history, WorkInv, Reliable, OneWorker,
     WorkersHoldRollback, BackupHidesApply, AuditsComeFirst, NotAhead, Working,
        Applier, Undoer
<1>2. CASE Late
  BY <1>2 DEF Late, dialog, wire, WorkInv, Reliable, OneWorker, WorkersHoldRollback,
     BackupHidesApply, AuditsComeFirst, NotAhead, Working, Applier, Undoer
<1> QED
  BY <1>1, <1>2, ServeKeepsWork, StepKeepsWork, DeliverKeepsWork DEF PanelNext

LEMMA WorkInitially == PanelInit => WorkInv
<1> SUFFICES ASSUME PanelInit PROVE WorkInv
  OBVIOUS
<1>1. \A c \in Call : call[c].step = "idle"
  BY DEF PanelInit, Idle
<1>2. active.backup = NoBackup
  BY DEF PanelInit, Closed
<1> QED
  BY <1>1, <1>2 DEF WorkInv, OneWorker, WorkersHoldRollback, BackupHidesApply,
                    AuditsComeFirst,
     Working, Applier, Undoer

-----------------------------------------------------------------------------
(* The backup offered takes the fix of the dialog back *)

\* An apply that took backup b has not told its dialog yet.
InPlay(b) == \/ \E j \in 1..Len(replies) : replies[j].backup = b
             \/ \E c \in Call : call[c].step = "verifying" /\ call[c].backup = b

\* An apply that takes its backup now could be taken back: either f is not in
\* effect, or the apply that put it there is still under way and took its backup
\* before that.
Fresh(f) ==
    /\ f \in managed \ overridden => \E b \in 1..Len(backups) : InPlay(b)
    /\ \A b \in 1..Len(backups) : InPlay(b) => f \notin backups[b].before \ overridden

\* Only the reply of an apply that succeeded names a backup.
BackupsAreReports ==
    \A i \in 1..Len(replies) : replies[i].backup # NoBackup =>
      replies[i].ok /\ call[replies[i].call].step = "applying"

\* What may be restored holds nothing the server lacks: a rollback only removes.
BackupsAreOlder ==
    /\ \A b \in 1..Len(backups) : InPlay(b) \/ b = active.backup
                                    => backups[b].before \subseteq managed
    /\ \A i \in 1..Len(inbox) : inbox[i].op = "rollback" =>
         /\ backups[inbox[i].backup].before \subseteq managed
         /\ active.backup \in {NoBackup, inbox[i].backup}

\* The page and the dialog offer to apply what is fresh.
ListedIsFresh == \A f \in listed : Fresh(f)
DialogIsFresh == Open /\ (apply.shown \/ \E c \in Call : Applier(c)) => Fresh(active.fix)

\* What an audit on its way lists is fresh once the replies behind it are seen.
AuditsAreFresh ==
    \A i \in 1..Len(replies) : \A f \in replies[i].required :
      /\ f \in managed \ overridden
           => \E j \in i + 1..Len(replies) : replies[j].backup # NoBackup
      /\ \A b \in 1..Len(backups) : InPlay(b) => f \notin backups[b].before \ overridden

OfferUndoes ==
    Open /\ active.backup # NoBackup => active.fix \notin backups[active.backup].before

Offers == /\ BackupsAreOlder /\ ListedIsFresh /\ DialogIsFresh
          /\ AuditsAreFresh /\ OfferUndoes

OfferInv == BackupsAreReports /\ (Reliable => Offers)

LEMMA ReportsAreInductive ==
  PInv /\ BackupsAreReports /\ [PanelNext]_pvars => BackupsAreReports'
<1> SUFFICES ASSUME PInv, BackupsAreReports, [PanelNext]_pvars PROVE BackupsAreReports'
  OBVIOUS
<1>1. ASSUME NEW m \in Asked, NEW r \in Answered, Served(m, r), Done(m, r),
             NEW i \in 1..Len(replies'), replies'[i].backup # NoBackup
      PROVE  replies'[i].ok /\ call'[replies'[i].call].step = "applying"
  <2>1. CASE i = Len(replies')
    <3>1. replies'[i] = r /\ m.op = "apply" /\ r.ok
      BY <1>1, <2>1 DEF Served, Done
    <3>2. call[m.call].step = "applying" /\ r.call = m.call /\ call' = call
      BY <1>1, <3>1 DEF Served, PInv, MInv, MessagesAreAwaited
    <3> QED
      BY <3>1, <3>2
  <2>2. CASE i # Len(replies')
    <3>1. i \in 1..Len(replies) /\ replies'[i] = replies[i] /\ call' = call
      BY <1>1, <2>2 DEF Served
    <3> QED
      BY <1>1, <3>1 DEF BackupsAreReports
  <2> QED
    BY <2>1, <2>2
<1>2. ASSUME NEW c, NEW k \in {0, 1}, NEW step, NEW held, Moved(c, k, step, held)
      PROVE  BackupsAreReports'
  <2>1. \A j \in 1..Len(replies') :
          /\ j + k \in 1..Len(replies) /\ replies'[j] = replies[j + k]
          /\ call'[replies'[j].call] = call[replies[j + k].call]
    BY <1>2 DEF Moved
  <2> QED
    BY <2>1 DEF BackupsAreReports
<1>3. CASE UNCHANGED <<call, replies>>
  BY <1>3 DEF BackupsAreReports
<1>4. CASE Serve
  BY <1>1, <1>4, ServeShape DEF BackupsAreReports
<1>5. CASE Step
  <2>1. CASE UNCHANGED call
    BY <1>3, <1>5, <2>1, StepShape
  <2>2. CASE \E c \in Call : \E m, step : Asks(c, 0, m, step, NoBackup)
    BY <1>2, <2>2 DEF Asks
  <2> QED
    BY <1>5, <2>1, <2>2, StepShape
<1>6. CASE Deliver
  <2>1. PICK c, r : Outcome(c, r)
    BY <1>6, DeliverShape
  <2>2. \E step, held : Moved(c, 1, step, held)
    BY <2>1 DEF Outcome, Verifies, GivesUpApply, Verified, Rereads, GivesUpRollback,
       Reread, Audited, Ends, Asks
  <2> QED
    BY <1>2, <2>2
<1>7. CASE Late
  BY <1>3, <1>7 DEF Late, wire
<1> QED
  BY <1>3, <1>4, <1>5, <1>6, <1>7 DEF PanelNext, pvars, wire

\* While one call works, no other one has a message that tells of work.
LEMMA OnlyWorker ==
  ASSUME PInv, AInv, BackupsAreReports, OneWorker, NEW w \in Call, Working(w)
  PROVE  /\ \A d \in Call : Working(d) => d = w
         /\ \A j \in 1..Len(replies) : replies[j].backup # NoBackup =>
              replies[j].call = w /\ call[w].step = "applying"
         /\ \A i \in 1..Len(inbox) : inbox[i].op = "rollback" =>
              inbox[i].call = w /\ call[w].step = "undoing"
<1>1. \A d \in Call : Working(d) => d = w
  BY DEF OneWorker
<1>2. ASSUME NEW j \in 1..Len(replies), replies[j].backup # NoBackup
      PROVE  replies[j].call = w /\ call[w].step = "applying"
  <2>1. replies[j].call \in Call /\ call[replies[j].call].step = "applying"
    <3>1. replies[j] \in Answered
      BY DEF PInv, MInv, WireTypeOK
    <3> QED
      BY <1>2, <3>1 DEF Answered, BackupsAreReports
  <2> QED
    BY <1>1, <2>1 DEF Working
<1>3. ASSUME NEW i \in 1..Len(inbox), inbox[i].op = "rollback"
      PROVE  inbox[i].call = w /\ call[w].step = "undoing"
  <2>1. inbox[i].call \in Call /\ call[inbox[i].call].step = "undoing"
    <3>1. inbox[i] \in Asked
      BY DEF PInv, MInv, WireTypeOK
    <3> QED
      BY <1>3, <3>1 DEF Asked, AInv, RequestsSay
  <2> QED
    BY <1>1, <2>1 DEF Working
<1> QED
  BY <1>1, <1>2, <1>3

\* So nothing is in play while a call undoes, or awaits the apply it asked for.
LEMMA NoneInPlay ==
  ASSUME PInv, AInv, BackupsAreReports, OneWorker, NEW w \in Call, Working(w),
         call[w].step # "verifying",
         \A j \in 1..Len(replies) : replies[j].call = w => replies[j].backup = NoBackup,
         NEW b \in 1..Len(backups)
  PROVE  ~InPlay(b)
<1>1. b # NoBackup
  BY DEF NoBackup
<1>2. \A j \in 1..Len(replies) : replies[j].backup # b
  BY <1>1, OnlyWorker
<1>3. \A d \in Call : call[d].step # "verifying"
  BY OnlyWorker DEF Working
<1> QED
  BY <1>2, <1>3 DEF InPlay

\* A call that moves takes no backup in play unless its reply brought one, and
\* drops one only when it verified it.
LEMMA MovedKeepsPlay ==
  ASSUME NEW c, NEW k \in {0, 1}, NEW step, NEW held, Moved(c, k, step, held),
         step = "verifying" => k = 1 /\ held = replies[1].backup,
         NEW b, b # NoBackup
  PROVE  /\ InPlay(b)' => InPlay(b)
         /\ (/\ call[c].step # "verifying"
             /\ k = 1 => replies[1].backup = NoBackup \/ step = "verifying")
              => (InPlay(b) => InPlay(b)')
<1>1. /\ Len(replies') \in Nat /\ Len(replies) \in Nat /\ Len(replies') + k = Len(replies)
      /\ \A j \in 1..Len(replies') :
           j + k \in 1..Len(replies) /\ replies'[j] = replies[j + k]
      /\ c \in Call /\ call'[c].step = step /\ call'[c].backup = held
      /\ \A d \in Call \ {c} : call'[d] = call[d]
  BY DEF Moved, Released
<1>2. ASSUME InPlay(b)' PROVE InPlay(b)
  <2>1. CASE \E j \in 1..Len(replies') : replies'[j].backup = b
    BY <1>1, <2>1 DEF InPlay
  <2>2. ASSUME NEW d \in Call, call'[d].step = "verifying", call'[d].backup = b
        PROVE  InPlay(b)
    <3>1. CASE d = c
      <4>1. k = 1 /\ replies[1].backup = b /\ 1 \in 1..Len(replies)
        BY <1>1, <2>2, <3>1
      <4> QED
        BY <4>1 DEF InPlay
    <3>2. CASE d # c
      BY <1>1, <2>2, <3>2 DEF InPlay
    <3> QED
      BY <3>1, <3>2
  <2> QED
    BY <1>2, <2>1, <2>2 DEF InPlay
<1>3. ASSUME call[c].step # "verifying",
             k = 1 => replies[1].backup = NoBackup \/ step = "verifying",
             InPlay(b)
      PROVE  InPlay(b)'
  <2>1. ASSUME NEW j \in 1..Len(replies), replies[j].backup = b
        PROVE  InPlay(b)'
    <3>1. CASE k = 1 /\ j = 1
      BY <1>1, <1>3, <2>1, <3>1 DEF InPlay
    <3>2. CASE ~(k = 1 /\ j = 1)
      <4>1. j - k \in 1..Len(replies') /\ (j - k) + k = j
        BY <1>1, <3>2
      <4>2. replies'[j - k] = replies[j]
        BY <1>1, <4>1
      <4> QED
        BY <2>1, <4>1, <4>2 DEF InPlay
    <3> QED
      BY <3>1, <3>2
  <2>2. ASSUME NEW d \in Call, call[d].step = "verifying", call[d].backup = b
        PROVE  InPlay(b)'
    BY <1>1, <1>3, <2>2 DEF InPlay
  <2> QED
    BY <1>3, <2>1, <2>2 DEF InPlay
<1> QED
  BY <1>2, <1>3

LEMMA MovedKeepsFresh ==
  ASSUME AuditsAreFresh, UNCHANGED <<managed, overridden, backups>>,
         NEW c, NEW k \in {0, 1}, NEW step, NEW held, Moved(c, k, step, held),
         \A b \in 1..Len(backups) : InPlay(b)' => InPlay(b)
  PROVE  AuditsAreFresh'
<1>1. /\ Len(replies') \in Nat /\ Len(replies) \in Nat /\ Len(replies') + k = Len(replies)
      /\ \A j \in 1..Len(replies') :
           j + k \in 1..Len(replies) /\ replies'[j] = replies[j + k]
  BY DEF Moved, Released
<1>2. ASSUME NEW i \in 1..Len(replies'), NEW f \in replies'[i].required
      PROVE  /\ f \in managed \ overridden
                  => \E j \in i + 1..Len(replies') : replies'[j].backup # NoBackup
             /\ \A b \in 1..Len(backups) :
                  InPlay(b)' => f \notin backups[b].before \ overridden
  <2>1. i + k \in 1..Len(replies) /\ f \in replies[i + k].required
    BY <1>1, <1>2
  <2>2. ASSUME f \in managed \ overridden
        PROVE  \E j \in i + 1..Len(replies') : replies'[j].backup # NoBackup
    <3>1. PICK j \in i + k + 1..Len(replies) : replies[j].backup # NoBackup
      BY <2>1, <2>2 DEF AuditsAreFresh
    <3>2. j - k \in i + 1..Len(replies') /\ j - k \in 1..Len(replies') /\ (j - k) + k = j
      BY <1>1, <1>2
    <3>3. replies'[j - k] = replies[j]
      BY <1>1, <3>2
    <3> QED
      BY <3>1, <3>2, <3>3
  <2> QED
    BY <2>1, <2>2 DEF AuditsAreFresh
<1> QED
  BY <1>2 DEF AuditsAreFresh

\* A step that leaves the server and what is in play as they are, and shows
\* nothing but what is fresh.
LEMMA QuietKeepsOffers ==
  ASSUME Offers, AuditsAreFresh', UNCHANGED <<managed, overridden, backups>>,
         \A b \in 1..Len(backups) : InPlay(b)' <=> InPlay(b),
         active'.fix = active.fix, active'.backup = active.backup,
         \A i \in 1..Len(inbox') : inbox'[i].op = "rollback" =>
           \/ i \in 1..Len(inbox) /\ inbox'[i] = inbox[i]
           \/ inbox'[i].backup = active.backup /\ active.backup \in 1..Len(backups),
         \A f \in listed' : f \in listed \/ Fresh(f)',
         Open' /\ (apply'.shown \/ \E c \in Call : Applier(c)') =>
           apply.shown \/ (\E c \in Call : Applier(c)) \/ active'.fix \in listed'
  PROVE  Offers'
<1>1. ASSUME NEW f, Fresh(f) PROVE Fresh(f)'
  BY <1>1 DEF Fresh
<1>2. ListedIsFresh'
  BY <1>1 DEF Offers, ListedIsFresh
<1>3. DialogIsFresh'
  <2> SUFFICES ASSUME Open', apply'.shown \/ \E c \in Call : Applier(c)'
               PROVE  Fresh(active.fix)'
    BY DEF DialogIsFresh
  <2>1. CASE apply.shown \/ \E c \in Call : Applier(c)
    <3>1. Fresh(active.fix)
      BY <2>1 DEF Offers, DialogIsFresh, Open
    <3> QED
      BY <3>1 DEF Fresh
  <2>2. CASE active'.fix \in listed'
    BY <1>2, <2>2 DEF ListedIsFresh, Fresh
  <2> QED
    BY <2>1, <2>2
<1>4. BackupsAreOlder'
  BY DEF Offers, BackupsAreOlder
<1>5. OfferUndoes'
  BY DEF Offers, OfferUndoes, Open
<1> QED
  BY <1>2, <1>3, <1>4, <1>5 DEF Offers

LEMMA ServeKeepsOffers ==
  ASSUME PInv, AInv, WorkInv, OfferInv, Serve
  PROVE  Reliable' => Offers'
<1>1. PICK m \in Asked, r \in Answered : Served(m, r) /\ Done(m, r)
  BY ServeShape
<1>2. SUFFICES ASSUME Reliable' PROVE Offers'
  OBVIOUS
<1>3. /\ OneWorker /\ WorkersHoldRollback /\ Offers /\ BackupsAreReports
      /\ ~unconfirmed' /\ ~unread'
  BY <1>1, <1>2 DEF Reliable, Served, Done, WorkInv, OfferInv
<1>4. /\ UNCHANGED <<call, listed, overridden, active, apply, rollback>>
      /\ Len(replies) \in Nat /\ Len(replies') = Len(replies) + 1
      /\ \A j \in 1..Len(replies) : j \in 1..Len(replies') /\ replies'[j] = replies[j]
      /\ \A j \in 1..Len(replies') : j # Len(replies') => j \in 1..Len(replies)
      /\ replies'[Len(replies')] = r /\ Len(replies') \in 1..Len(replies')
  BY <1>1 DEF Served, dialog
<1>5. /\ \A i \in 1..Len(inbox') : i + 1 \in 1..Len(inbox) /\ inbox'[i] = inbox[i + 1]
      /\ m = inbox[1] /\ 1 \in 1..Len(inbox) /\ m.call \in Call /\ r.call = m.call
      /\ Len(backups) \in Nat /\ backups \in Seq(Taken)
      /\ Len(inbox) \in Nat
  <2>1. /\ \A i \in 1..Len(inbox') : i + 1 \in 1..Len(inbox) /\ inbox'[i] = inbox[i + 1]
        /\ m = inbox[1] /\ 1 \in 1..Len(inbox) /\ r.call = m.call
    BY <1>1 DEF Served
  <2>2. m.call \in Call
    BY DEF Asked
  <2>3. Len(backups) \in Nat /\ backups \in Seq(Taken) /\ Len(inbox) \in Nat
    BY DEF PInv, MInv, WireTypeOK
  <2> QED
    BY <2>1, <2>2, <2>3
\* What the page shows stays fresh if what was fresh does.
<1>6. ASSUME \A f : Fresh(f) => Fresh(f)'
      PROVE  ListedIsFresh' /\ DialogIsFresh'
  <2>1. ListedIsFresh'
    BY <1>3, <1>4, <1>6 DEF Offers, ListedIsFresh
  <2>2. Fresh(active.fix) => Fresh(active.fix)'
    BY <1>4, <1>6 DEF Fresh
  <2>3. DialogIsFresh'
    BY <1>3, <1>4, <2>2 DEF Offers, DialogIsFresh, Open, Applier
  <2> QED
    BY <2>1, <2>3
<1>7. ASSUME UNCHANGED <<managed, backups>>, r.backup = NoBackup,
             \A f \in r.required : f \in Insecure
      PROVE  Offers'
  <2>1. \A b \in 1..Len(backups) : InPlay(b)' <=> InPlay(b)
    BY <1>4, <1>7 DEF InPlay, NoBackup
  <2>2. \A f : Fresh(f) => Fresh(f)'
    BY <1>4, <1>7, <2>1 DEF Fresh
  <2>3. BackupsAreOlder'
    BY <1>3, <1>4, <1>5, <1>7, <2>1 DEF Offers, BackupsAreOlder
  <2>4. ASSUME NEW i \in 1..Len(replies'), NEW f \in replies'[i].required
        PROVE  /\ f \in managed' \ overridden'
                    => \E j \in i + 1..Len(replies') : replies'[j].backup # NoBackup
               /\ \A b \in 1..Len(backups') :
                    InPlay(b)' => f \notin backups'[b].before \ overridden'
    <3>1. CASE i = Len(replies')
      <4>1. f \notin managed \ overridden
        BY <1>4, <1>7, <2>4, <3>1 DEF Insecure
      <4>2. \A b \in 1..Len(backups) : InPlay(b) => backups[b].before \subseteq managed
        BY <1>3 DEF Offers, BackupsAreOlder
      <4> QED
        BY <1>4, <1>7, <2>1, <4>1, <4>2
    <3>2. CASE i # Len(replies')
      <4>1. i \in 1..Len(replies) /\ f \in replies[i].required
        BY <1>4, <2>4, <3>2
      <4>2. /\ f \in managed \ overridden
                 => \E j \in i + 1..Len(replies) : replies[j].backup # NoBackup
            /\ \A b \in 1..Len(backups) :
                 InPlay(b) => f \notin backups[b].before \ overridden
        BY <1>3, <4>1 DEF Offers, AuditsAreFresh
      <4>3. \A j \in i + 1..Len(replies) : /\ j \in 1..Len(replies)
                                          /\ j \in i + 1..Len(replies')
        BY <1>4, <4>1
      <4> QED
        BY <1>4, <1>7, <2>1, <4>2, <4>3
    <3> QED
      BY <3>1, <3>2
  <2>5. AuditsAreFresh'
    BY <2>4 DEF AuditsAreFresh
  <2>6. OfferUndoes'
    BY <1>3, <1>4, <1>7 DEF Offers, OfferUndoes, Open
  <2> QED
    BY <1>6, <2>2, <2>3, <2>5, <2>6 DEF Offers
\* An apply or a rollback that changed the file was the only call at work.
<1>8. ASSUME m.op \in {"apply", "rollback"}
      PROVE  /\ Working(m.call) /\ call[m.call].step \in {"applying", "undoing"}
             /\ (call[m.call].step = "applying") = (m.op = "apply")
             /\ \A b \in 1..Len(backups) : ~InPlay(b)
             /\ \A i \in 1..Len(inbox') : inbox'[i].op # "rollback"
             /\ \A j \in 1..Len(replies) : replies[j].backup = NoBackup
  <2>1. /\ call[m.call].step \in {"applying", "undoing"}
        /\ (call[m.call].step = "applying") = (m.op = "apply")
    BY <1>5, <1>8 DEF PInv, MInv, MessagesAreAwaited, AInv, RequestsSay
  <2>2. Working(m.call)
    BY <2>1 DEF Working
  <2>3. \A j \in 1..Len(replies) : replies[j].call # m.call
    BY <1>5 DEF PInv, MInv, OneMessage
  <2>4. \A j \in 1..Len(replies) : replies[j].backup = NoBackup
    BY <1>3, <1>5, <2>2, <2>3, OnlyWorker
  <2>5. \A b \in 1..Len(backups) : ~InPlay(b)
    BY <1>3, <1>5, <2>1, <2>2, <2>4, NoneInPlay
  <2>6. ASSUME NEW i \in 1..Len(inbox'), inbox'[i].op = "rollback"
        PROVE  FALSE
    <3>1. inbox[i + 1].call = m.call /\ i + 1 \in 1..Len(inbox) /\ i + 1 # 1
      BY <1>3, <1>5, <2>2, <2>6, OnlyWorker
    <3> QED
      BY <1>5, <3>1 DEF PInv, MInv, OneMessage
  <2> QED
    BY <2>1, <2>2, <2>4, <2>5, <2>6
\* What is listed or fresh is not in effect then.
<1>9. ASSUME \A b \in 1..Len(backups) : ~InPlay(b),
             \A j \in 1..Len(replies) : replies[j].backup = NoBackup
      PROVE  /\ \A f : Fresh(f) => f \notin managed \ overridden
             /\ \A i \in 1..Len(replies) : \A f \in replies[i].required :
                  f \notin managed \ overridden
  <2>1. \A f : Fresh(f) => f \notin managed \ overridden
    BY <1>9 DEF Fresh
  <2>2. ASSUME NEW i \in 1..Len(replies), NEW f \in replies[i].required,
               f \in managed \ overridden
        PROVE  FALSE
    <3>1. PICK j \in i + 1..Len(replies) : replies[j].backup # NoBackup
      BY <1>3, <2>2 DEF Offers, AuditsAreFresh
    <3> QED
      BY <1>4, <1>9, <3>1
  <2> QED
    BY <2>1, <2>2
<1>10. ASSUME m.op = "apply", managed' = managed \cup {m.fix},
              backups' = Append(backups, [fix |-> m.fix, before |-> managed]),
              r.backup = Len(backups'), r.required = {}
       PROVE  Offers'
  <2>1. /\ Len(backups') = Len(backups) + 1 /\ backups'[Len(backups')].before = managed
        /\ \A b \in 1..Len(backups) : backups'[b] = backups[b]
        /\ \A b \in 1..Len(backups') : b # Len(backups') => b \in 1..Len(backups)
        /\ Len(backups') \in 1..Len(backups') /\ Len(backups') # NoBackup
    BY <1>5, <1>10 DEF NoBackup
  <2>2. \A b \in 1..Len(backups) : b # NoBackup /\ b # Len(backups')
    BY <1>5, <2>1 DEF NoBackup
  <2>4. \A b \in 1..Len(backups) : ~InPlay(b)'
    <3>1. ASSUME NEW b \in 1..Len(backups), InPlay(b)'
          PROVE  InPlay(b)
      BY <1>4, <1>10, <2>2, <3>1 DEF InPlay
    <3> QED
      BY <1>8, <1>10, <3>1
  <2>5. \A b \in 1..Len(backups') : InPlay(b)' => b = Len(backups')
    BY <2>1, <2>4
  <2>6. \A b : b = Len(backups') => InPlay(b)'
    BY <1>4, <1>10 DEF InPlay
  <2>7. /\ \A f : Fresh(f) => f \notin managed \ overridden
        /\ \A i \in 1..Len(replies) : \A f \in replies[i].required :
             f \notin managed \ overridden
    BY <1>8, <1>9, <1>10
  <2>8. ASSUME NEW f, Fresh(f)
        PROVE  Fresh(f)'
    <3>1. \E b \in 1..Len(backups') : InPlay(b)'
      BY <2>1, <2>6
    <3>2. \A b \in 1..Len(backups') : InPlay(b)'
               => f \notin backups'[b].before \ overridden'
      BY <1>4, <2>1, <2>5, <2>7, <2>8
    <3> QED
      BY <3>1, <3>2 DEF Fresh
  <2>9. active.backup = NoBackup
    <3>1. Applier(m.call)
      BY <1>8, <1>10 DEF Applier
    <3> QED
      BY <1>3, <1>5, <3>1 DEF WorkersHoldRollback
  <2>10. BackupsAreOlder'
    <3>1. ASSUME NEW b \in 1..Len(backups'), InPlay(b)' \/ b = active'.backup
          PROVE  backups'[b].before \subseteq managed'
      <4>1. b # active'.backup
        BY <1>4, <2>1, <2>2, <2>9
      <4> QED
        BY <1>10, <2>1, <2>5, <3>1, <4>1
    <3> QED
      BY <1>8, <1>10, <3>1 DEF BackupsAreOlder
  <2>11. ASSUME NEW i \in 1..Len(replies'), NEW f \in replies'[i].required
         PROVE  /\ f \in managed' \ overridden'
                     => \E j \in i + 1..Len(replies') : replies'[j].backup # NoBackup
                /\ \A b \in 1..Len(backups') :
                     InPlay(b)' => f \notin backups'[b].before \ overridden'
    <3>1. i \in 1..Len(replies) /\ f \in replies[i].required
      BY <1>4, <1>10, <2>11
    <3>2. Len(replies') \in i + 1..Len(replies')
      BY <1>4, <3>1
    <3>3. replies'[Len(replies')].backup # NoBackup
      BY <1>4, <1>10, <2>1
    <3>4. f \notin managed \ overridden
      BY <2>7, <3>1
    <3> QED
      BY <1>4, <2>1, <2>5, <3>2, <3>3, <3>4
  <2>12. AuditsAreFresh'
    BY <2>11 DEF AuditsAreFresh
  <2>13. OfferUndoes'
    BY <1>4, <2>9 DEF OfferUndoes
  <2> QED
    BY <1>6, <2>8, <2>10, <2>12, <2>13 DEF Offers
<1>11. ASSUME m.op = "rollback", managed' = backups[m.backup].before, UNCHANGED backups,
              r.backup = NoBackup, r.required = {}
       PROVE  Offers'
  <2>1. \A b \in 1..Len(backups) : ~InPlay(b)'
    <3>1. \A b \in 1..Len(backups) : InPlay(b)' => InPlay(b)
      BY <1>4, <1>11 DEF InPlay, NoBackup
    <3> QED
      BY <1>8, <1>11, <3>1
  <2>2. managed' \subseteq managed /\ active.backup \in {NoBackup, m.backup}
    BY <1>3, <1>5, <1>11 DEF Offers, BackupsAreOlder
  <2>3. /\ \A f : Fresh(f) => f \notin managed \ overridden
        /\ \A i \in 1..Len(replies) : \A f \in replies[i].required :
             f \notin managed \ overridden
    BY <1>8, <1>9, <1>11
  <2>4. \A f : Fresh(f) => Fresh(f)'
    BY <1>4, <1>11, <2>1, <2>2, <2>3 DEF Fresh
  <2>5. BackupsAreOlder'
    BY <1>4, <1>8, <1>11, <2>1, <2>2 DEF BackupsAreOlder, NoBackup
  <2>6. AuditsAreFresh'
    BY <1>4, <1>11, <2>1, <2>2, <2>3 DEF AuditsAreFresh
  <2>7. OfferUndoes'
    BY <1>3, <1>4, <1>11 DEF Offers, OfferUndoes, Open
  <2> QED
    BY <1>6, <2>4, <2>5, <2>6, <2>7 DEF Offers
<1> QED
  BY <1>1, <1>3, <1>7, <1>10, <1>11 DEF Done

LEMMA StepKeepsOffers ==
  ASSUME PInv, AInv, WorkInv, OfferInv, Step
  PROVE  Reliable' => Offers'
<1>1. UNCHANGED <<managed, overridden, backups, replies, unconfirmed, unread>>
      /\ DialogTypeOK /\ Len(backups) \in Nat /\ backups \in Seq(Taken)
      /\ managed \in SUBSET Fix
  BY StepShape DEF PInv, DInv, MInv, WireTypeOK
<1>2. SUFFICES ASSUME Reliable' PROVE Offers'
  OBVIOUS
<1>3. OneWorker /\ WorkersHoldRollback /\ Offers
  <2>1. overlapped => overlapped'
    BY StepShape DEF Prepare, Close, ConnectionChanges, ApplySecurityFix,
       RollbackSecurityFix, LoadSecurityAudit
  <2> QED
    BY <1>1, <1>2, <2>1 DEF Reliable, WorkInv, OfferInv
<1>4. CASE UNCHANGED <<call, inbox>>
           /\ ((\E id \in Previews : Prepare(id)) \/ Close \/ ConnectionChanges)
  <2>1. \A b : InPlay(b)' <=> InPlay(b)
    BY <1>1, <1>4 DEF InPlay
  <2>2. AuditsAreFresh' /\ \A f : Fresh(f)' <=> Fresh(f)
    BY <1>1, <1>3, <2>1 DEF Offers, AuditsAreFresh, Fresh
  <2>3. ASSUME active'.backup = NoBackup, listed' \subseteq listed,
               Open' => active'.fix \in Previews
        PROVE  Offers'
    <3>1. BackupsAreOlder'
      BY <1>1, <1>3, <1>4, <2>1, <2>3 DEF Offers, BackupsAreOlder, NoBackup
    <3>2. ListedIsFresh'
      BY <1>3, <2>2, <2>3 DEF Offers, ListedIsFresh
    <3>3. ASSUME Open' PROVE Fresh(active.fix)'
      <4>1. CASE active'.fix \in listed
        <5>1. PICK f \in listed : f = active'.fix
          BY <4>1
        <5>2. Fresh(f)'
          BY <1>3, <2>2 DEF Offers, ListedIsFresh
        <5> QED
          BY <5>1, <5>2 DEF Fresh
      <4>2. CASE active'.fix \in Review
        <5>1. active'.fix \notin managed
          BY <1>1, <4>2, PanelAssumption
        <5>2. \A b \in 1..Len(backups) : active'.fix \notin backups[b].before
          <6>1. ASSUME NEW b \in 1..Len(backups) PROVE backups[b].before \in SUBSET Fix
            <7>1. backups[b] \in Taken
              BY <1>1
            <7> QED
              BY <7>1 DEF Taken
          <6> QED
            BY <4>2, <6>1, PanelAssumption
        <5> QED
          BY <1>1, <5>1, <5>2 DEF Fresh
      <4> QED
        BY <2>3, <3>3, <4>1, <4>2 DEF Previews
    <3>4. DialogIsFresh'
      BY <3>3 DEF DialogIsFresh
    <3> QED
      BY <2>2, <2>3, <3>1, <3>2, <3>4 DEF Offers, OfferUndoes
  <2>4. CASE \E id \in Previews : Prepare(id)
    <3>1. PICK id \in Previews : Prepare(id)
      BY <2>4
    <3> QED
      BY <2>3, <3>1 DEF Prepare
  <2>5. CASE Close
    BY <2>3, <2>5 DEF Close, Closed, Open
  <2>6. CASE ConnectionChanges
    <3>1. UNCHANGED <<active, apply>> /\ listed' \subseteq listed
      BY <2>6 DEF ConnectionChanges, ClearSecurityAuditDisplay, dialog
    <3> QED
      BY <1>1, <1>3, <1>4, <2>1, <2>2, <3>1, QuietKeepsOffers DEF Applier
  <2> QED
    BY <1>4, <2>4, <2>5, <2>6
<1>5. ASSUME NEW c \in Call, NEW m, NEW step, call[c] = Idle, Asks(c, 0, m, step, NoBackup),
             step # "verifying", UNCHANGED <<active, listed>>, apply'.shown = apply.shown,
             m.op = "rollback"
                  => m.backup = active.backup /\ active.backup \in 1..Len(backups),
             step = "applying" => apply.shown
      PROVE  Offers'
  <2>1. Moved(c, 0, step, NoBackup) /\ call[c].step = "idle"
    BY <1>5 DEF Asks, Idle
  <2>2. \A b \in 1..Len(backups) : b # NoBackup
    BY DEF NoBackup
  <2>3. \A b \in 1..Len(backups) : InPlay(b)' <=> InPlay(b)
    BY <1>5, <2>1, <2>2, MovedKeepsPlay
  <2>4. AuditsAreFresh'
    BY <1>1, <1>3, <2>1, <2>3, MovedKeepsFresh DEF Offers
  <2>5. \A i \in 1..Len(inbox') : inbox'[i].op = "rollback" =>
           \/ i \in 1..Len(inbox) /\ inbox'[i] = inbox[i]
           \/ inbox'[i].backup = active.backup /\ active.backup \in 1..Len(backups)
    BY <1>5 DEF Asks
  <2>6. ASSUME Open', apply'.shown \/ \E d \in Call : Applier(d)'
        PROVE  apply.shown \/ \E d \in Call : Applier(d)
    BY <1>5, <2>1, <2>6 DEF Moved, Applier
  <2> QED
    BY <1>1, <1>3, <1>5, <2>3, <2>4, <2>5, <2>6, QuietKeepsOffers
<1>6. ASSUME NEW c \in Call, call[c] = Idle, ApplySecurityFix(c),
             Asks(c, 0, ApplyRequest(c), "applying", NoBackup)
      PROVE  Offers'
  <2>1. /\ UNCHANGED <<active, listed>> /\ apply'.shown = apply.shown /\ apply.shown
        /\ ApplyRequest(c).op # "rollback"
    BY <1>1, <1>6, RequestFields DEF ApplySecurityFix, DialogTypeOK, Button
  <2> QED
    BY <1>5, <1>6, <2>1
<1>7. ASSUME NEW c \in Call, call[c] = Idle, RollbackSecurityFix(c),
             active.backup \in 1..Len(backups),
             Asks(c, 0, UndoRequest(c), "undoing", NoBackup)
      PROVE  Offers'
  <2>1. UNCHANGED <<active, listed, apply>> /\ UndoRequest(c).backup = active.backup
    BY <1>7, RequestFields DEF RollbackSecurityFix
  <2> QED
    BY <1>5, <1>7, <2>1
<1>8. ASSUME NEW c \in Call, call[c] = Idle, LoadSecurityAudit(c),
             Asks(c, 0, AuditRequest(c), "auditing", NoBackup)
      PROVE  Offers'
  <2>1. UNCHANGED <<active, listed, apply>> /\ AuditRequest(c).op # "rollback"
    BY <1>8, RequestFields DEF LoadSecurityAudit, dialog
  <2> QED
    BY <1>5, <1>8, <2>1
<1> QED
  BY <1>4, <1>6, <1>7, <1>8, StepShape

LEMMA DeliverKeepsOffers ==
  ASSUME PInv, AInv, ClaimInv, WorkInv, OfferInv, Deliver
  PROVE  Reliable' => Offers'
<1>1. /\ UNCHANGED <<managed, overridden, backups, overlapped, unread>>
      /\ unconfirmed => unconfirmed'
      /\ DialogTypeOK /\ Len(backups) \in Nat
  <2>1. DialogTypeOK /\ Len(backups) \in Nat
    BY DEF PInv, DInv, MInv, WireTypeOK
  <2> QED
    BY <2>1, DeliverShape
<1>2. PICK c \in Call, r \in Answered :
              /\ r = replies[1] /\ 1 \in 1..Len(replies) /\ r.call = c
              /\ Outcome(c, r)
  BY DeliverShape
<1>3. SUFFICES ASSUME Reliable' PROVE Offers'
  OBVIOUS
<1>4. /\ OneWorker /\ WorkersHoldRollback /\ Offers /\ BackupsAreReports
      /\ AuditsTellTruth /\ ~unconfirmed'
  BY <1>1, <1>3 DEF Reliable, WorkInv, OfferInv, ClaimInv
<1>5. \A b \in 1..Len(backups) : b # NoBackup
  BY DEF NoBackup
<1>6. r.backup # NoBackup => r.ok /\ call[c].step = "applying"
  BY <1>2, <1>4 DEF BackupsAreReports
<1>7. \A j \in 1..Len(replies) : replies[j].backup # NoBackup
                                   => replies[j].backup \in 1..Len(backups)
  BY <1>1 DEF PInv, MInv, MessagesAreAwaited, NoBackup
\* The step is quiet unless an apply is verified.
<1>8. ASSUME NEW step, NEW held, Moved(c, 1, step, held), call[c].step # "verifying",
             \/ step = "verifying" /\ held = r.backup
             \/ step # "verifying" /\ r.backup = NoBackup
      PROVE  AuditsAreFresh' /\ \A b \in 1..Len(backups) : InPlay(b)' <=> InPlay(b)
  <2>1. \A b \in 1..Len(backups) : InPlay(b)' <=> InPlay(b)
    BY <1>2, <1>5, <1>8, MovedKeepsPlay
  <2> QED
    BY <1>1, <1>4, <1>8, <2>1, MovedKeepsFresh DEF Offers
\* What the audit delivered lists is fresh.
<1>9. ASSUME \A b \in 1..Len(backups) : InPlay(b)' <=> InPlay(b),
             NEW f \in r.required
      PROVE  Fresh(f)'
  <2>1. /\ f \in managed \ overridden
             => \E j \in 1 + 1..Len(replies) : replies[j].backup # NoBackup
        /\ \A b \in 1..Len(backups) : InPlay(b) => f \notin backups[b].before \ overridden
    BY <1>2, <1>4, <1>9 DEF Offers, AuditsAreFresh
  <2>2. ASSUME f \in managed \ overridden
        PROVE  \E b \in 1..Len(backups) : InPlay(b)
    <3>1. PICK j \in 1 + 1..Len(replies) : replies[j].backup # NoBackup
      BY <2>1, <2>2
    <3>2. j \in 1..Len(replies)
      OBVIOUS
    <3> QED
      BY <1>7, <3>1, <3>2 DEF InPlay
  <2> QED
    BY <1>1, <1>9, <2>1, <2>2 DEF Fresh
<1>10. ASSUME Verifies(c, r) PROVE Offers'
  <2>1. /\ Moved(c, 1, "verifying", r.backup) /\ call[c].step = "applying"
        /\ UNCHANGED <<listed, active, apply>>
        /\ \A i \in 1..Len(inbox') : inbox'[i].op = "rollback"
                                       => i \in 1..Len(inbox) /\ inbox'[i] = inbox[i]
    BY <1>10, RequestFields DEF Verifies, Asks, dialog
  <2>2. (\E d \in Call : Applier(d)') => \E d \in Call : Applier(d)
    BY <2>1 DEF Applier
  <2> QED
    BY <1>1, <1>4, <1>8, <2>1, <2>2, QuietKeepsOffers
<1>11. ASSUME Rereads(c, r) PROVE Offers'
  <2>1. /\ Moved(c, 1, "rereading", NoBackup) /\ call[c].step = "undoing"
        /\ UNCHANGED <<listed, active, apply>>
        /\ \A i \in 1..Len(inbox') : inbox'[i].op = "rollback"
                                       => i \in 1..Len(inbox) /\ inbox'[i] = inbox[i]
    BY <1>11, RequestFields DEF Rereads, Asks, dialog
  <2>2. (\E d \in Call : Applier(d)') => \E d \in Call : Applier(d)
    BY <2>1 DEF Applier, Moved
  <2> QED
    BY <1>1, <1>4, <1>6, <1>8, <2>1, <2>2, QuietKeepsOffers
<1>12. ASSUME Ends(c, 1), r.backup = NoBackup, call[c].step # "verifying",
              active'.fix = active.fix, active'.backup = active.backup,
              listed' = listed \/ listed' = r.required,
              \/ apply'.shown = apply.shown
              \/ ~apply'.shown
              \/ active.fix \in listed'
       PROVE  Offers'
  <2>1. Moved(c, 1, "idle", NoBackup) /\ inbox' = inbox
    BY <1>12 DEF Ends
  <2>2. AuditsAreFresh' /\ \A b \in 1..Len(backups) : InPlay(b)' <=> InPlay(b)
    BY <1>8, <1>12, <2>1
  <2>3. (\E d \in Call : Applier(d)') => \E d \in Call : Applier(d)
    BY <2>1 DEF Applier, Moved
  <2>4. \A f \in listed' : f \in listed \/ Fresh(f)'
    BY <1>9, <1>12, <2>2
  <2> QED
    BY <1>1, <1>4, <1>12, <2>1, <2>2, <2>3, <2>4, QuietKeepsOffers
<1>13. ASSUME GivesUpApply(c, r) PROVE Offers'
  <2>1. call[c].step = "applying" /\ ~r.ok
    BY <1>4, <1>13 DEF GivesUpApply
  <2>2. /\ active'.fix = active.fix /\ active'.backup = active.backup
        /\ apply'.shown = apply.shown
    BY <1>1, <1>13 DEF GivesUpApply, Unapplied, DialogTypeOK, Button
  <2> QED
    BY <1>6, <1>12, <1>13, <2>1, <2>2 DEF GivesUpApply
<1>14. ASSUME GivesUpRollback(c, r) PROVE Offers'
  BY <1>6, <1>12, <1>14 DEF GivesUpRollback
<1>15. ASSUME Reread(c, r) PROVE Offers'
  <2>1. active'.fix = active.fix /\ active'.backup = active.backup
    BY <1>1, <1>15 DEF Reread, Unapplied, DialogTypeOK
  <2> QED
    BY <1>6, <1>12, <1>15, <2>1 DEF Reread
<1>16. ASSUME Audited(c, r) PROVE Offers'
  <2>1. /\ active'.fix = active.fix /\ active'.backup = active.backup
        /\ apply'.shown = apply.shown \/ ~apply'.shown \/ active.fix \in r.required
    BY <1>1, <1>16 DEF Audited, SyncActiveSecurityFix, Unapplied, DialogTypeOK, dialog
  <2> QED
    BY <1>6, <1>12, <1>16, <2>1 DEF Audited
\* The apply verified was the only call at work; its backup goes to the dialog.
<1>17. ASSUME Verified(c, r) PROVE Offers'
  <2> DEFINE b0 == call[c].backup
  <2>1. /\ Working(c) /\ Applier(c) /\ call[c].step = "verifying"
        /\ r.ok /\ Open /\ active.fix \notin r.required
        /\ Moved(c, 1, "idle", NoBackup) /\ inbox' = inbox /\ listed' = r.required
        /\ active'.fix = active.fix /\ active'.backup = b0 /\ ~apply'.shown
        /\ b0 \in 1..Len(backups)
    BY <1>1, <1>17 DEF Verified, Working, Applier, Ends, DialogTypeOK, PInv, MInv,
       VerifiedBackupExists
  <2>2. InPlay(b0)
    BY <2>1 DEF InPlay
  <2>3. /\ \A d \in Call : Working(d) => d = c
        /\ \A j \in 1..Len(replies) : replies[j].backup = NoBackup
        /\ \A i \in 1..Len(inbox) : inbox[i].op # "rollback"
    BY <1>4, <2>1, OnlyWorker
  <2>4. \A b \in 1..Len(backups) : ~InPlay(b)'
    <3>1. \A j \in 1..Len(replies') : replies'[j].backup = NoBackup
      BY <2>1, <2>3 DEF Moved
    <3>2. \A d \in Call : call'[d].step # "verifying" /\ ~Applier(d)'
      BY <2>1, <2>3 DEF Moved, Working, Applier
    <3> QED
      BY <1>5, <3>1, <3>2 DEF InPlay
  <2>5. \A d \in Call : ~Applier(d)'
    BY <2>1, <2>3 DEF Moved, Working, Applier
  <2>6. AuditsAreFresh'
    BY <1>1, <1>4, <2>1, <2>4, MovedKeepsFresh DEF Offers
  <2>7. BackupsAreOlder'
    <3>1. backups[b0].before \subseteq managed
      BY <1>4, <2>1, <2>2 DEF Offers, BackupsAreOlder
    <3> QED
      BY <1>1, <2>1, <2>3, <2>4, <3>1 DEF BackupsAreOlder
  <2>8. ListedIsFresh'
    <3>1. ASSUME NEW f \in r.required PROVE f \notin managed \ overridden
      <4>1. f \in managed \ overridden
              => \E j \in 1 + 1..Len(replies) : replies[j].backup # NoBackup
        BY <1>2, <1>4, <3>1 DEF Offers, AuditsAreFresh
      <4>2. \A j \in 1 + 1..Len(replies) : j \in 1..Len(replies)
        OBVIOUS
      <4> QED
        BY <2>3, <4>1, <4>2
    <3> QED
      BY <1>1, <2>1, <2>4, <3>1 DEF ListedIsFresh, Fresh
  <2>9. DialogIsFresh'
    BY <2>1, <2>5 DEF DialogIsFresh
  <2>10. active.fix \notin backups[b0].before
    <3>1. active.fix \notin backups[b0].before \ overridden
      BY <1>4, <2>1, <2>2 DEF Offers, DialogIsFresh, Fresh
    <3>2. active.fix \notin overridden
      <4>1. \/ Insecure \subseteq r.required
            \/ \E j \in 1 + 1..Len(replies) : OkUndo(replies, call, j)
        BY <1>2, <1>4, <2>1 DEF AuditsTellTruth, Reads
      <4>2. ASSUME NEW j \in 1 + 1..Len(replies), OkUndo(replies, call, j) PROVE FALSE
        <5>1. j \in 1..Len(replies)
          OBVIOUS
        <5>2. replies[j].call \in Call
          <6>1. replies[j] \in Answered
            BY <5>1 DEF PInv, MInv, WireTypeOK
          <6> QED
            BY <6>1 DEF Answered
        <5>3. Working(replies[j].call) /\ replies[j].call # c
          BY <2>1, <4>2 DEF OkUndo, Working
        <5> QED
          BY <2>3, <5>2, <5>3
      <4>3. Insecure \subseteq r.required
        BY <4>1, <4>2
      <4> QED
        BY <2>1, <4>3 DEF Insecure
    <3> QED
      BY <3>1, <3>2
  <2>11. OfferUndoes'
    BY <1>1, <2>1, <2>10 DEF OfferUndoes
  <2> QED
    BY <2>6, <2>7, <2>8, <2>9, <2>11 DEF Offers
<1> QED
  BY <1>2, <1>10, <1>11, <1>13, <1>14, <1>15, <1>16, <1>17 DEF Outcome

LEMMA OffersAreInductive ==
  PInv /\ LateInv /\ AInv /\ ClaimInv /\ WorkInv /\ OfferInv /\ [PanelNext]_pvars
    => OfferInv'
<1> SUFFICES ASSUME PInv, LateInv, AInv, ClaimInv, WorkInv, OfferInv, [PanelNext]_pvars
             PROVE  OfferInv'
  OBVIOUS
<1>1. CASE UNCHANGED pvars
  <2>1. /\ UNCHANGED <<managed, overridden, backups, listed, active, apply, call, inbox>>
        /\ UNCHANGED <<replies, unconfirmed, overlapped, unread>>
    BY <1>1 DEF pvars, server, dialog, wire, history
  <2>2. \A b : InPlay(b)' <=> InPlay(b)
    BY <2>1 DEF InPlay
  <2>3. BackupsAreReports' /\ (Reliable' => Reliable)
    BY <2>1 DEF OfferInv, BackupsAreReports, Reliable
  <2>4. ASSUME Offers PROVE Offers'
    <3>1. AuditsAreFresh'
      BY <2>1, <2>2, <2>4 DEF Offers, AuditsAreFresh
    <3> QED
      BY <2>1, <2>2, <2>4, <3>1, QuietKeepsOffers DEF Applier
  <2> QED
    BY <2>3, <2>4 DEF OfferInv
<1>2. CASE PanelNext
  <2>1. BackupsAreReports'
    BY ReportsAreInductive DEF OfferInv
  <2>2. Late => ~Reliable'
    BY LateShape DEF Reliable
  <2> QED
    BY <1>2, <2>1, <2>2, ServeKeepsOffers, StepKeepsOffers, DeliverKeepsOffers
       DEF PanelNext, OfferInv
<1> QED
  BY <1>1, <1>2

LEMMA OffersInitially == PanelInit => OfferInv
<1> SUFFICES ASSUME PanelInit PROVE OfferInv
  OBVIOUS
<1>1. Len(replies) = 0 /\ Len(inbox) = 0 /\ Len(backups) = 0 /\ listed = {} /\ ~Open
  BY DEF PanelInit, Open, Closed
<1> QED
  BY <1>1 DEF OfferInv, BackupsAreReports, Offers, BackupsAreOlder, ListedIsFresh,
     DialogIsFresh, AuditsAreFresh, OfferUndoes

-----------------------------------------------------------------------------
(* The theorems about types, rollbacks, claims and offers *)

DialogInv ==
    /\ PInv /\ LateInv /\ AInv /\ TInv /\ BackupsAreNear
    /\ QuietInv /\ ClaimInv /\ ReportInv /\ WorkInv /\ OfferInv

LEMMA DialogInvHolds == PanelSpec => []DialogInv
<1>1. PanelInit => DialogInv
  BY PanelInitEstablishes, LateInitially, AInvInitially, TInvInitially, NearInitially,
     QuietInitially, ClaimInitially, ReportInitially, WorkInitially, OffersInitially
     DEF DialogInv
<1>2. DialogInv /\ [PanelNext]_pvars => DialogInv'
  BY PInvIsInductive, LateInvIsInductive, AInvIsInductive, TInvIsInductive,
     NearIsInductive, QuietIsInductive, ClaimIsInductive, ReportIsInductive,
     WorkIsInductive, OffersAreInductive
     DEF DialogInv
<1> QED
  BY <1>1, <1>2, PTL DEF PanelSpec

\* The variables keep their types, and no backup is taken without a click of its
\* own (main.ts 2124-2434, lib.rs 1656-1717).
THEOREM PanelTypeCorrect == PanelSpec => []PanelTypeOK
<1>1. DialogInv => PanelTypeOK
  BY TypesAreOK DEF DialogInv
<1> QED
  BY <1>1, DialogInvHolds, PTL

\* A rollback takes back at most one fix, although it restores the whole file
\* the helper owns, unless a dialog was closed over its own call or the helper of
\* a command that was given up has changed the file (main.ts 2314-2348, lib.rs
\* 451-461 and 1694-1717).
THEOREM RollbackTouchesOneFix == PanelSpec => RollbackUndoesOneFix
<1>1. DialogInv /\ [PanelNext]_pvars
        => [~abandoned /\ ~belated' => \A f, g \in managed \ managed' : f = g]_pvars
  <2> SUFFICES ASSUME DialogInv, PanelNext, ~abandoned, ~belated',
                      NEW f \in managed \ managed', NEW g \in managed \ managed'
               PROVE  f = g
    OBVIOUS
  <2>1. CASE Serve
    <3>1. ~belated
      BY <2>1 DEF Serve
    <3>2. managed' \ {active.fix} = managed \ {active.fix}
      BY <2>1, <3>1, ServeShape, CommandsTouchOneFix DEF DialogInv
    <3> QED
      BY <3>2
  <2>2. CASE Late
    BY <2>2, LateShape DEF DialogInv
  <2>3. CASE Step \/ Deliver
    <3>1. UNCHANGED managed
      BY <2>3 DEF Step, Deliver, server
    <3> QED
      BY <3>1
  <2> QED
    BY <2>1, <2>2, <2>3 DEF PanelNext
<1> QED
  BY <1>1, DialogInvHolds, PTL DEF PanelSpec, RollbackUndoesOneFix

\* Once nothing is under way, a dialog whose label says the fix is applied is
\* right about the server's effective settings.  Excluded are a dialog that shows
\* a rollback, whose label is the one of before, a failure shown for what a helper
\* did or may still do, and an audit that could not read a setting (main.ts
\* 2285-2308, 2331-2341, 2421-2434).
THEOREM ClaimsAreTrue == PanelSpec => []ClaimIsTrue
<1>1. DialogInv => ClaimIsTrue
  <2> SUFFICES ASSUME DialogInv, Settled, Open, claim = "applied",
                      ~ShowsRollback, ~unconfirmed, ~unread
               PROVE  active.fix \notin Insecure
    BY DEF ClaimIsTrue
  <2>1. Len(inbox) = 0 /\ Len(replies) = 0
    BY DEF Settled
  <2>2. \A c \in Call : call[c].step = "idle"
    BY <2>1 DEF DialogInv, AInv, Answerable
  <2>3. ~UndoPending
    BY <2>1, <2>2 DEF UndoPending
  <2> QED
    BY <2>3 DEF DialogInv, ClaimInv, ClaimOrUndo
<1> QED
  BY <1>1, DialogInvHolds, PTL

\* Once nothing is under way, a dialog whose result says that its fix was taken
\* back is right: the fix is needed again, whatever the backup restored held, unless
\* the helper of a command that was given up has changed the file (main.ts
\* 2327-2341).
THEOREM RollbackReportsAreTrue == PanelSpec => []RollbackReportIsTrue
<1>1. DialogInv => RollbackReportIsTrue
  <2> SUFFICES ASSUME DialogInv, Settled, Open, result = "ok", ~active.applied, ~belated
               PROVE  active.fix \in Insecure
    BY DEF RollbackReportIsTrue
  <2>1. Len(inbox) = 0 /\ Len(replies) = 0
    BY DEF Settled
  <2>2. \A c \in Call : ~Working(c)
    BY <2>1 DEF DialogInv, AInv, Answerable, Working
  <2> QED
    BY <2>2 DEF DialogInv, ReportInv, ReportOrWork
<1> QED
  BY <1>1, DialogInvHolds, PTL

\* The backup a dialog offers was taken before its fix was in the file: restoring
\* it takes the fix back.  A second apply of the same fix would break it, and that
\* takes a failure shown for a success, an unread setting or an audit that enabled
\* the apply button during an apply (main.ts 2267-2312, 2357-2386).
THEOREM RestoringUndoesTheFix == PanelSpec => []OfferedBackupUndoesFix
<1>1. DialogInv => OfferedBackupUndoesFix
  BY DEF DialogInv, PInv, DInv, OfferedRollbackHasBackup, OfferInv, Reliable, Offers,
     OfferUndoes, OfferedBackupUndoesFix
<1> QED
  BY <1>1, DialogInvHolds, PTL

=============================================================================
