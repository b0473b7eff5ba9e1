---------------------- MODULE EngineeringDelivery_proofs ----------------------
(***************************************************************************)
(* Theorems about EngineeringDelivery, for every set of request ids and    *)
(* digests and every attempt, round and crash bound.                       *)
(***************************************************************************)
EXTENDS EngineeringDelivery, FiniteSetTheorems, TLAPS

-----------------------------------------------------------------------------
(***************************************************************************)
(* Updates of the records keep them in their types.                        *)
(***************************************************************************)

LEMMA RunUpdate ==
  ASSUME NEW r \in RunRecord, NEW s \in RunStatus, NEW b \in BOOLEAN
  PROVE  /\ [status |-> s, approved |-> b] \in RunRecord
         /\ [r EXCEPT !.status = s] \in RunRecord
         /\ r.status \in RunStatus
  BY DEF RunRecord

LEMMA TaskUpdate ==
  ASSUME NEW t \in TaskRecord, NEW s \in TaskStatus
  PROVE  /\ [t EXCEPT !.status = s] \in TaskRecord
         /\ t.status \in TaskStatus /\ t.attempts \in 0..MaxAttempts
  BY DEF TaskRecord

LEMMA DeliveryUpdate ==
  ASSUME NEW x \in DeliveryRecord, NEW s \in DeliveryState
  PROVE  /\ [x EXCEPT !.state = s] \in DeliveryRecord
         /\ [x EXCEPT !.state = s, !.rounds = @ + 1] \in DeliveryRecord
         /\ [x EXCEPT !.expired = TRUE] \in DeliveryRecord
<1>1. [x EXCEPT !.state = s] \in DeliveryRecord
  BY DEF DeliveryRecord
<1>2. x.rounds + 1 \in Nat
  BY DEF DeliveryRecord
<1>3. [x EXCEPT !.state = s, !.rounds = x.rounds + 1] \in DeliveryRecord
  BY <1>2 DEF DeliveryRecord
<1>4. [x EXCEPT !.expired = TRUE] \in DeliveryRecord
  BY DEF DeliveryRecord
<1> QED BY <1>1, <1>3, <1>4

LEMMA DriverUpdate ==
  ASSUME NEW x \in DriverRecord, NEW q \in DriverPC
  PROVE  /\ [x EXCEPT !.pc = q] \in DriverRecord
         /\ [x EXCEPT !.pc = q, !.cancel = FALSE] \in DriverRecord
         /\ [x EXCEPT !.cancel = TRUE] \in DriverRecord
  BY DEF DriverRecord

LEMMA FreshDriver ==
  /\ NoDriver \in DriverRecord
  /\ NewDriver("initial") \in DriverRecord /\ NewDriver("repair") \in DriverRecord
  BY DEF DriverRecord, DriverPC, DriverKind, NoDriver, NewDriver

\* The operators several actions share.
LEMMA CancelType ==
  ASSUME TypeOK
  PROVE  /\ CancelTask => task' \in TaskRecord
         /\ CancelDriver => driver' \in DriverRecord
<1>1. [task EXCEPT !.status = "cancelled"] \in TaskRecord
  BY TaskUpdate, LimitsAssumption DEF TypeOK, TaskStatus
<1>2. [driver EXCEPT !.cancel = TRUE] \in DriverRecord
  BY DriverUpdate DEF TypeOK, DriverPC
<1> QED BY <1>1, <1>2 DEF CancelTask, CancelDriver, TypeOK

LEMMA ReceiptType ==
  ASSUME TypeOK, NEW req \in Requests, NEW action \in Actions, NEW v \in Versions
  PROVE  /\ Receipt(req, action, v) => receipts' \in [Requests -> Digests \cup {NoReceipt}]
         /\ TakesEffect(req) => effects' \in [Requests -> Nat]
<1>1. [action |-> action, version |-> v] \in Digests
  BY DEF Digests
<1> QED BY <1>1 DEF Receipt, TakesEffect, TypeOK

LEMMA QueueRepairType ==
  ASSUME TypeOK, QueueRepair
  PROVE  d' \in DeliveryRecord /\ run' \in RunRecord
  BY DeliveryUpdate, RunUpdate DEF QueueRepair, TypeOK, DeliveryState, RunStatus

LEMMA AttemptFailureType ==
  ASSUME TypeOK
  PROVE  AttemptFailure \in TaskRecord
<1>1. [task EXCEPT !.status = "blocked"] \in TaskRecord /\ [task EXCEPT !.status = "failed"] \in TaskRecord
  BY TaskUpdate, LimitsAssumption DEF TypeOK, TaskStatus
<1>2. [task EXCEPT !.status = IF task.attempts < MaxAttempts THEN "blocked" ELSE "failed"] \in TaskRecord
  <2>1. CASE task.attempts < MaxAttempts
    BY <1>1, <2>1
  <2>2. CASE ~(task.attempts < MaxAttempts)
    BY <1>1, <2>2
  <2> QED BY <2>1, <2>2
<1> QED BY <1>2 DEF AttemptFailure, TypeOK

LEMMA DriverAtType ==
  ASSUME TypeOK, NEW q \in DriverPC
  PROVE  DriverAt(q) => driver' \in DriverRecord
  BY DriverUpdate DEF DriverAt, TypeOK

LEMMA DownType ==
  ASSUME TypeOK, Down
  PROVE  crashes' \in 0..MaxCrashes /\ server' = "down" /\ driver' \in DriverRecord
<1>1. driver' \in DriverRecord
  BY FreshDriver DEF Down
<1>2. crashes' \in 0..MaxCrashes
  BY LimitsAssumption DEF Down, TypeOK
<1> QED BY <1>1, <1>2 DEF Down

LEMMA DecideTypeOK == TypeOK /\ Decide => TypeOK'
<1> SUFFICES ASSUME TypeOK,
                    NEW actor \in Principals, NEW req \in Requests,
                    \/ \E v \in Versions :
                         \/ Approve(actor, req, v)
                         \/ Reject(actor, req, v)
                         \/ Cancel(actor, req, v)
                         \/ Feedback(actor, req, v)
                         \/ TornFeedback(actor, req, v)
                         \/ TornCancel(actor, req, v)
                    \/ \E revision \in 0..MaxAttempts :
                         \/ Interrupt(actor, req, revision)
                         \/ TornInterrupt(actor, req, revision)
             PROVE  TypeOK'
  BY DEF Decide
<1>1. ASSUME NEW v \in Versions, Approve(actor, req, v) PROVE TypeOK'
  <2>1. run' \in RunRecord
    BY <1>1, RunUpdate DEF Approve, RunStatus, TypeOK
  <2>2. d' \in DeliveryRecord
    BY <1>1, DeliveryUpdate DEF Approve, DeliveryState, TypeOK
  <2>3. receipts' \in [Requests -> Digests \cup {NoReceipt}] /\ effects' \in [Requests -> Nat]
    BY <1>1, ReceiptType DEF Approve, Actions
  <2>4. approvals' \in SUBSET Versions
    BY <1>1 DEF Approve, TypeOK
  <2> QED BY <1>1, <2>1, <2>2, <2>3, <2>4 DEF Approve, TypeOK, store, history
<1>2. ASSUME NEW v \in Versions, Reject(actor, req, v) PROVE TypeOK'
  <2>1. run' \in RunRecord
    BY <1>2, RunUpdate DEF Reject, RunStatus, TypeOK
  <2>2. d' \in DeliveryRecord
    BY <1>2, DeliveryUpdate DEF Reject, DeliveryState, TypeOK
  <2>3. task' \in TaskRecord
    BY <1>2, CancelType DEF Reject
  <2>4. receipts' \in [Requests -> Digests \cup {NoReceipt}] /\ effects' \in [Requests -> Nat]
    BY <1>2, ReceiptType DEF Reject, Actions
  <2> QED BY <1>2, <2>1, <2>2, <2>3, <2>4 DEF Reject, TypeOK, store, history
<1>3. ASSUME NEW v \in Versions, Cancel(actor, req, v) PROVE TypeOK'
  <2>1. run' \in RunRecord
    BY <1>3, RunUpdate DEF Cancel, RunStatus, TypeOK
  <2>2. d' \in DeliveryRecord
    BY <1>3, DeliveryUpdate DEF Cancel, DeliveryState, TypeOK
  <2>3. task' \in TaskRecord
    BY <1>3, CancelType DEF Cancel
  <2>4. driver' \in DriverRecord
    BY <1>3, CancelType DEF Cancel
  <2>5. receipts' \in [Requests -> Digests \cup {NoReceipt}] /\ effects' \in [Requests -> Nat]
    BY <1>3, ReceiptType DEF Cancel, Actions
  <2> QED BY <1>3, <2>1, <2>2, <2>3, <2>4, <2>5 DEF Cancel, TypeOK, store, history
<1>4. ASSUME NEW v \in Versions, Feedback(actor, req, v) PROVE TypeOK'
  <2>1. d' \in DeliveryRecord /\ run' \in RunRecord
    BY <1>4, QueueRepairType DEF Feedback
  <2>2. task' \in TaskRecord
    BY <1>4, TaskUpdate, LimitsAssumption DEF Feedback, TaskStatus, TypeOK
  <2>3. driver' \in DriverRecord
    BY <1>4, FreshDriver DEF Feedback
  <2>4. receipts' \in [Requests -> Digests \cup {NoReceipt}] /\ effects' \in [Requests -> Nat]
    BY <1>4, ReceiptType DEF Feedback, Actions
  <2> QED BY <1>4, <2>1, <2>2, <2>3, <2>4 DEF Feedback, TypeOK, store, history
<1>5. ASSUME NEW v \in Versions, TornFeedback(actor, req, v) PROVE TypeOK'
  <2>1. d' \in DeliveryRecord /\ run' \in RunRecord
    BY <1>5, QueueRepairType DEF TornFeedback
  <2>2. task' \in TaskRecord
    BY <1>5, TaskUpdate, LimitsAssumption DEF TornFeedback, TaskStatus, TypeOK
  <2>3. effects' \in [Requests -> Nat]
    BY <1>5, ReceiptType DEF TornFeedback, Actions
  <2>4. crashes' \in 0..MaxCrashes /\ server' = "down" /\ driver' \in DriverRecord
    BY <1>5, DownType DEF TornFeedback
  <2> QED BY <1>5, <2>1, <2>2, <2>3, <2>4 DEF TornFeedback, TypeOK, store, history
<1>6. ASSUME NEW v \in Versions, TornCancel(actor, req, v) PROVE TypeOK'
  <2>1. task' \in TaskRecord
    BY <1>6, CancelType DEF TornCancel
  <2>2. effects' \in [Requests -> Nat]
    BY <1>6, ReceiptType DEF TornCancel, Actions
  <2>3. crashes' \in 0..MaxCrashes /\ server' = "down" /\ driver' \in DriverRecord
    BY <1>6, DownType DEF TornCancel
  <2> QED BY <1>6, <2>1, <2>2, <2>3 DEF TornCancel, TypeOK, store, history
<1>7. ASSUME NEW revision \in 0..MaxAttempts, Interrupt(actor, req, revision) PROVE TypeOK'
  <2>1. run' \in RunRecord
    BY <1>7, RunUpdate DEF Interrupt, RunStatus, TypeOK
  <2>2. d' \in DeliveryRecord
    BY <1>7, DeliveryUpdate DEF Interrupt, DeliveryState, TypeOK
  <2>3. cancelReceipts' \in [Requests -> Nat \cup {NoReceipt}]
    BY <1>7 DEF Interrupt, TypeOK
  <2>4. task' \in TaskRecord
    BY <1>7, CancelType DEF Interrupt
  <2>5. driver' \in DriverRecord
    BY <1>7, CancelType DEF Interrupt
  <2> QED BY <1>7, <2>1, <2>2, <2>3, <2>4, <2>5 DEF Interrupt, TypeOK, store, history
<1>8. ASSUME NEW revision \in 0..MaxAttempts, TornInterrupt(actor, req, revision) PROVE TypeOK'
  <2>1. task' \in TaskRecord
    BY <1>8, CancelType DEF TornInterrupt
  <2>2. crashes' \in 0..MaxCrashes /\ server' = "down" /\ driver' \in DriverRecord
    BY <1>8, DownType DEF TornInterrupt
  <2> QED BY <1>8, <2>1, <2>2 DEF TornInterrupt, TypeOK, store, history
<1> QED
  BY <1>1, <1>2, <1>3, <1>4, <1>5, <1>6, <1>7, <1>8

LEMMA WorkTypeOK == TypeOK /\ Work => TypeOK'
<1> SUFFICES ASSUME TypeOK, Work PROVE TypeOK'
  OBVIOUS
<1>1. CASE Begin
  <2>1. driver' \in DriverRecord
    BY <1>1, DriverAtType, FreshDriver DEF Begin, DriverPC
  <2> QED BY <1>1, <2>1 DEF Begin, TypeOK, store, history
<1>2. CASE CancelledBeforeStart
  <2>1. driver' \in DriverRecord
    BY <1>2, FreshDriver DEF CancelledBeforeStart
  <2> QED BY <1>2, <2>1 DEF CancelledBeforeStart, TypeOK, store, history
<1>3. CASE StartRun
  <2>1. run' \in RunRecord
    BY <1>3, RunUpdate DEF StartRun, RunStatus, TypeOK
  <2>2. driver' \in DriverRecord
    BY <1>3, DriverAtType DEF StartRun, DriverPC
  <2> QED BY <1>3, <2>1, <2>2 DEF StartRun, TypeOK, store, history
<1>4. CASE MarkReady
  <2>1. task' \in TaskRecord
    BY <1>4, TaskUpdate, LimitsAssumption DEF MarkReady, TaskStatus, TypeOK
  <2> QED BY <1>4, <2>1 DEF MarkReady, TypeOK, store, history
<1>5. CASE PrepareRetry
  <2>1. task' \in TaskRecord
    BY <1>5, TaskUpdate, LimitsAssumption DEF PrepareRetry, TaskStatus, TypeOK
  <2> QED BY <1>5, <2>1 DEF PrepareRetry, TypeOK, store, history
<1>6. CASE ClaimAndDispatch
  <2>1. task' \in TaskRecord
    <3>1. CASE task.attempts < MaxAttempts
      <4>1. task.attempts + 1 \in 0..MaxAttempts
        BY <3>1, TaskUpdate, LimitsAssumption DEF TypeOK, TaskRecord
      <4>2. task' = [status |-> "running", attempts |-> task.attempts + 1]
        BY <1>6, <3>1 DEF ClaimAndDispatch
      <4> QED BY <4>1, <4>2 DEF TaskRecord, TaskStatus
    <3>2. CASE ~(task.attempts < MaxAttempts)
      BY <1>6, <3>2, TaskUpdate DEF ClaimAndDispatch, TaskStatus, TypeOK
    <3> QED BY <3>1, <3>2
  <2>2. driver' \in DriverRecord
    BY <1>6, DriverAtType DEF ClaimAndDispatch, DriverPC, TypeOK
  <2> QED BY <1>6, <2>1, <2>2 DEF ClaimAndDispatch, TypeOK, store, history
<1>7. ASSUME NEW p \in Patches, ModelPasses(p) PROVE TypeOK'
  <2>1. results' \in [Attempts -> Patches \cup {NoPatch}]
    BY <1>7 DEF ModelPasses, TypeOK
  <2>2. driver' \in DriverRecord
    BY <1>7, DriverUpdate DEF ModelPasses, DriverPC, TypeOK
  <2> QED BY <1>7, <2>1, <2>2 DEF ModelPasses, TypeOK, store, history
<1>8. CASE ModelFails
  <2>1. task' \in TaskRecord
    BY <1>8, AttemptFailureType DEF ModelFails
  <2>2. driver' \in DriverRecord
    BY <1>8, DriverUpdate DEF ModelFails, DriverPC, TypeOK
  <2> QED BY <1>8, <2>1, <2>2 DEF ModelFails, TypeOK, store, history
<1>9. CASE ModelCancelled
  <2>1. driver' \in DriverRecord
    BY <1>9, DriverUpdate, FreshDriver DEF ModelCancelled, DriverPC, TypeOK
  <2> QED BY <1>9, <2>1 DEF ModelCancelled, TypeOK, store, history
<1>10. CASE CompleteTask
  <2>1. task' \in TaskRecord
    BY <1>10, TaskUpdate, AttemptFailureType, LimitsAssumption DEF CompleteTask, TaskStatus, TypeOK
  <2>2. driver' \in DriverRecord
    BY <1>10, DriverAtType DEF CompleteTask, DriverPC
  <2> QED BY <1>10, <2>1, <2>2 DEF CompleteTask, TypeOK, store, history
<1>11. CASE FailRun
  <2>1. run' \in RunRecord
    BY <1>11, RunUpdate DEF FailRun, RunStatus, TypeOK
  <2>2. driver' \in DriverRecord
    BY <1>11, DriverAtType DEF FailRun, DriverPC
  <2> QED BY <1>11, <2>1, <2>2 DEF FailRun, TypeOK, store, history
<1>12. ASSUME NEW a \in Attempts, Offer(a) PROVE TypeOK'
  <2>1. run' \in RunRecord
    BY <1>12, RunUpdate DEF Offer, RunStatus, TypeOK
  <2>2. d' \in DeliveryRecord
    <3>1. d.revision + 1 \in Nat /\ d.rounds \in Nat
      BY DEF TypeOK, DeliveryRecord
    <3>2. results[a] \in Patches \cup {NoPatch} /\ a \in 0..MaxAttempts
      BY DEF TypeOK, Attempts
    <3>3. d' = [state |-> "pending", revision |-> d.revision + 1, patch |-> results[a],
                artifact |-> a, rounds |-> d.rounds, expired |-> FALSE]
      BY <1>12 DEF Offer
    <3> QED BY <3>1, <3>2, <3>3 DEF DeliveryRecord, DeliveryState
  <2>3. driver' \in DriverRecord
    BY <1>12, DriverAtType DEF Offer, DriverPC
  <2> QED BY <1>12, <2>1, <2>2, <2>3 DEF Offer, TypeOK, store, history
<1>13. ASSUME NEW a \in Attempts, NoProgress(a) PROVE TypeOK'
  <2>1. run' \in RunRecord
    BY <1>13, RunUpdate DEF NoProgress, RunStatus, TypeOK
  <2>2. d' \in DeliveryRecord
    BY <1>13, DeliveryUpdate DEF NoProgress, DeliveryState, TypeOK
  <2>3. driver' \in DriverRecord
    BY <1>13, DriverAtType DEF NoProgress, DriverPC
  <2> QED BY <1>13, <2>1, <2>2, <2>3 DEF NoProgress, TypeOK, store, history
<1>14. CASE PrepareConflict
  <2>1. driver' \in DriverRecord
    BY <1>14, DriverAtType DEF PrepareConflict, DriverPC
  <2> QED BY <1>14, <2>1 DEF PrepareConflict, TypeOK, store, history
<1>15. CASE Epilogue
  <2>1. d' \in DeliveryRecord
    BY <1>15, DeliveryUpdate DEF Epilogue, DeliveryState, TypeOK
  <2>2. driver' \in DriverRecord
    BY <1>15, FreshDriver DEF Epilogue
  <2> QED BY <1>15, <2>1, <2>2 DEF Epilogue, TypeOK, store, history
<1>16. CASE StopFailedRun
  <2>1. run' \in RunRecord
    BY <1>16, RunUpdate DEF StopFailedRun, RunStatus, TypeOK
  <2>2. driver' \in DriverRecord
    BY <1>16, DriverAtType DEF StopFailedRun, DriverPC
  <2> QED BY <1>16, <2>1, <2>2 DEF StopFailedRun, TypeOK, store, history
<1>17. CASE JobFailed
  <2>1. driver' \in DriverRecord
    BY <1>17, FreshDriver DEF JobFailed
  <2> QED BY <1>17, <2>1 DEF JobFailed, TypeOK, store, history
<1>18. CASE MarkRepairFailed
  <2>1. d' \in DeliveryRecord
    BY <1>18, DeliveryUpdate DEF MarkRepairFailed, DeliveryState, TypeOK
  <2>2. driver' \in DriverRecord
    BY <1>18, DriverAtType DEF MarkRepairFailed, DriverPC
  <2> QED BY <1>18, <2>1, <2>2 DEF MarkRepairFailed, TypeOK, store, history
<1>19. CASE FailRepairRun
  <2>1. run' \in RunRecord
    BY <1>19, RunUpdate DEF FailRepairRun, RunStatus, TypeOK
  <2>2. driver' \in DriverRecord
    BY <1>19, FreshDriver DEF FailRepairRun
  <2> QED BY <1>19, <2>1, <2>2 DEF FailRepairRun, TypeOK, store, history
<1> QED
  BY <1>1, <1>2, <1>3, <1>4, <1>5, <1>6, <1>7, <1>8, <1>9, <1>10, <1>11, <1>12, <1>13, <1>14, <1>15, <1>16, <1>17, <1>18, <1>19 DEF Work

LEMMA RestTypeOK == TypeOK /\ (ExportSome \/ Environment \/ Recover) => TypeOK'
<1> SUFFICES ASSUME TypeOK, ExportSome \/ Environment \/ Recover PROVE TypeOK'
  OBVIOUS
<1>1. ASSUME NEW actor \in Principals, Export(actor) PROVE TypeOK'
  <2>1. [revision |-> d.revision, patch |-> results[d.artifact]]
          \in [revision : Nat, patch : Patches \cup {NoPatch}]
    BY <1>1 DEF Export, ResultIntact, TypeOK, DeliveryRecord
  <2> QED BY <1>1, <2>1 DEF Export, TypeOK, store, history
<1>2. CASE Expire
  <2>1. d' \in DeliveryRecord
    BY <1>2, DeliveryUpdate DEF Expire, DeliveryState, TypeOK
  <2> QED BY <1>2, <2>1 DEF Expire, TypeOK, store, history
<1>3. ASSUME NEW a \in Attempts, Damage(a) PROVE TypeOK'
  <2>1. damaged' \in SUBSET Attempts
    BY <1>3 DEF Damage, TypeOK
  <2> QED BY <1>3, <2>1 DEF Damage, TypeOK, store, history
<1>4. CASE Crash
  <2>1. crashes' \in 0..MaxCrashes /\ server' = "down" /\ driver' \in DriverRecord
    BY <1>4, DownType DEF Crash
  <2> QED BY <1>4, <2>1 DEF Crash, TypeOK, store, history
<1>5. CASE Shutdown
  <2>1. driver' \in DriverRecord
    BY <1>5, CancelType DEF Shutdown
  <2> QED BY <1>5, <2>1 DEF Shutdown, TypeOK, store, history
<1>6. CASE Stopped
  BY <1>6 DEF Stopped, TypeOK, store, history
<1>7. CASE RecoverRun
  <2>1. run' \in RunRecord
    BY <1>7, RunUpdate DEF RecoverRun, RunStatus, TypeOK
  <2> QED BY <1>7, <2>1 DEF RecoverRun, TypeOK, store, history
<1>8. CASE RecoverRow
  BY <1>8 DEF RecoverRow, TypeOK, store, history
<1>9. CASE RecoverRepair
  <2>1. d' \in DeliveryRecord
    BY <1>9, DeliveryUpdate DEF RecoverRepair, DeliveryState, TypeOK
  <2> QED BY <1>9, <2>1 DEF RecoverRepair, TypeOK, store, history
<1>10. CASE RecoverRepairRun
  <2>1. run' \in RunRecord
    BY <1>10, RunUpdate DEF RecoverRepairRun, RunStatus, TypeOK
  <2> QED BY <1>10, <2>1 DEF RecoverRepairRun, TypeOK, store, history
<1> QED
  BY <1>1, <1>2, <1>3, <1>4, <1>5, <1>6, <1>7, <1>8, <1>9, <1>10 DEF ExportSome, Environment, Recover

LEMMA InitTypeOK == Init => TypeOK
<1> SUFFICES ASSUME Init PROVE TypeOK
  OBVIOUS
<1> USE LimitsAssumption DEF Init
<1>1. run \in RunRecord
  BY DEF RunRecord, RunStatus
<1>2. task \in TaskRecord
  BY DEF TaskRecord, TaskStatus
<1>3. d \in DeliveryRecord
  BY DEF DeliveryRecord, DeliveryState, NoDelivery
<1>4. driver \in DriverRecord
  BY DEF DriverRecord, DriverPC, DriverKind, NewDriver
<1> QED BY <1>1, <1>2, <1>3, <1>4 DEF TypeOK, Attempts

LEMMA NextTypeOK == TypeOK /\ [Next]_vars => TypeOK'
<1> SUFFICES ASSUME TypeOK, [Next]_vars PROVE TypeOK'
  OBVIOUS
<1>1. CASE Next
  BY <1>1, DecideTypeOK, WorkTypeOK, RestTypeOK DEF Next
<1>2. CASE UNCHANGED vars
  BY <1>2 DEF vars, store, history, TypeOK
<1> QED BY <1>1, <1>2

\* Every reachable state is well typed: statuses, the delivery record, receipts,
\* the driver and the restart stay in their domains and attempt_count never
\* passes the budget.
THEOREM TypeCorrect == Spec => []TypeOK
<1> QED BY InitTypeOK, NextTypeOK, PTL DEF Spec

-----------------------------------------------------------------------------
(***************************************************************************)
(* The inductive invariant.                                                *)
(***************************************************************************)

LEMMA RunFields ==
  ASSUME NEW r \in RunRecord, NEW s
  PROVE  [r EXCEPT !.status = s].status = s /\ [r EXCEPT !.status = s].approved = r.approved
  BY DEF RunRecord
LEMMA TaskFields ==
  ASSUME NEW r \in TaskRecord, NEW s
  PROVE  [r EXCEPT !.status = s].status = s
  BY DEF TaskRecord
LEMMA DriverFields ==
  ASSUME NEW x \in DriverRecord, NEW q
  PROVE  /\ [x EXCEPT !.pc = q].pc = q
         /\ [x EXCEPT !.pc = q, !.cancel = FALSE].pc = q
         /\ [x EXCEPT !.cancel = TRUE].pc = x.pc
  BY DEF DriverRecord
LEMMA DeliveryFields ==
  ASSUME NEW x \in DeliveryRecord, NEW s
  PROVE  /\ [x EXCEPT !.state = s].state = s
         /\ [x EXCEPT !.state = s].revision = x.revision
         /\ [x EXCEPT !.state = s].patch = x.patch
         /\ [x EXCEPT !.state = s, !.rounds = @ + 1].state = s
         /\ [x EXCEPT !.expired = TRUE].state = x.state
         /\ [x EXCEPT !.expired = TRUE].revision = x.revision
         /\ [x EXCEPT !.expired = TRUE].patch = x.patch
  BY DEF DeliveryRecord

LEMMA Stay ==
  ASSUME ReleaseInv, run.status # "completed", run'.status # "completed", run'.approved = FALSE,
         UNCHANGED <<approvals, exported>>
  PROVE  ReleaseInv'
  BY DEF ReleaseInv, Displayed

LEMMA Keep ==
  ASSUME ReleaseInv, UNCHANGED <<run, approvals, exported>>,
         run.status = "completed" => UNCHANGED d
  PROVE  ReleaseInv'
  BY DEF ReleaseInv, Displayed

LEMMA DecideDriverInv ==
  ASSUME TypeOK, DriverInv, Decide
  PROVE  DriverInv'
<1> SUFFICES ASSUME NEW actor \in Principals, NEW req \in Requests,
                    \/ \E v \in Versions :
                         \/ Approve(actor, req, v)
                         \/ Reject(actor, req, v)
                         \/ Cancel(actor, req, v)
                         \/ Feedback(actor, req, v)
                         \/ TornFeedback(actor, req, v)
                         \/ TornCancel(actor, req, v)
                    \/ \E revision \in 0..MaxAttempts :
                         \/ Interrupt(actor, req, revision)
                         \/ TornInterrupt(actor, req, revision)
             PROVE  DriverInv'
  BY DEF Decide
<1> USE DEF Admit, Handling, Busy, CancelTask, CancelDriver, QueueRepair, InterruptAllowed, Down, NoDriver, NewDriver, history, RunTerminal, TaskTerminal
<1>1. ASSUME NEW v \in Versions, Approve(actor, req, v) PROVE DriverInv'
  BY <1>1, RunFields, TaskFields, DriverFields DEF Approve, TypeOK, DriverInv
<1>2. ASSUME NEW v \in Versions, Reject(actor, req, v) PROVE DriverInv'
  BY <1>2, RunFields, TaskFields, DriverFields DEF Reject, TypeOK, DriverInv
<1>3. ASSUME NEW v \in Versions, Cancel(actor, req, v) PROVE DriverInv'
  BY <1>3, RunFields, TaskFields, DriverFields DEF Cancel, TypeOK, DriverInv
<1>4. ASSUME NEW v \in Versions, Feedback(actor, req, v) PROVE DriverInv'
  BY <1>4, RunFields, TaskFields, DriverFields DEF Feedback, TypeOK, DriverInv
<1>5. ASSUME NEW v \in Versions, TornFeedback(actor, req, v) PROVE DriverInv'
  BY <1>5, RunFields, TaskFields, DriverFields DEF TornFeedback, TypeOK, DriverInv
<1>6. ASSUME NEW v \in Versions, TornCancel(actor, req, v) PROVE DriverInv'
  BY <1>6, RunFields, TaskFields, DriverFields DEF TornCancel, TypeOK, DriverInv
<1>7. ASSUME NEW revision \in 0..MaxAttempts, Interrupt(actor, req, revision) PROVE DriverInv'
  BY <1>7, RunFields, TaskFields, DriverFields DEF Interrupt, TypeOK, DriverInv
<1>8. ASSUME NEW revision \in 0..MaxAttempts, TornInterrupt(actor, req, revision) PROVE DriverInv'
  BY <1>8, RunFields, TaskFields, DriverFields DEF TornInterrupt, TypeOK, DriverInv
<1> QED
  BY <1>1, <1>2, <1>3, <1>4, <1>5, <1>6, <1>7, <1>8

LEMMA WorkDriverInv ==
  ASSUME TypeOK, DriverInv, Work
  PROVE  DriverInv'
<1> USE DEF DriverAt, NoDriver, AttemptFailure, Preparing, CanPrepare, store, history, RunTerminal
<1>1. CASE Begin
  <2>1. [driver EXCEPT !.pc = "start"].pc = "start" /\ NoDriver.pc = "none"
    BY DriverFields DEF TypeOK, NoDriver
  <2>2. driver' \in {NoDriver, [driver EXCEPT !.pc = "start"]} /\ driver.pc = "queued"
    BY <1>1 DEF Begin
  <2>3. UNCHANGED <<run, task, d, server>>
    BY <1>1 DEF Begin
  <2> QED BY <2>1, <2>2, <2>3 DEF DriverInv
<1>2. CASE CancelledBeforeStart
  BY <1>2, RunFields, TaskFields, DriverFields DEF CancelledBeforeStart, TypeOK, DriverInv
<1>3. CASE StartRun
  <2>1. driver.pc = "start" /\ UNCHANGED <<task, d, server>>
    BY <1>3 DEF StartRun
  <2>2. CASE run.status \in {"queued", "running"}
    <3>1. run' = [run EXCEPT !.status = "running"] /\ driver' = [driver EXCEPT !.pc = "cycle"]
      BY <1>3, <2>2 DEF StartRun
    <3>2. run'.status = "running" /\ driver'.pc = "cycle"
      BY <3>1, RunFields, DriverFields DEF TypeOK
    <3> QED BY <2>1, <2>2, <3>2 DEF DriverInv
  <2>3. CASE ~(run.status \in {"queued", "running"})
    <3>1. run' = run /\ driver' = [driver EXCEPT !.pc = "epilogue"]
      BY <1>3, <2>3 DEF StartRun
    <3>2. driver'.pc = "epilogue"
      BY <3>1, DriverFields DEF TypeOK
    <3> QED BY <2>1, <2>3, <3>1, <3>2 DEF DriverInv
  <2> QED BY <2>2, <2>3
<1>4. CASE MarkReady
  BY <1>4, RunFields, TaskFields, DriverFields DEF MarkReady, TypeOK, DriverInv
<1>5. CASE PrepareRetry
  BY <1>5, RunFields, TaskFields, DriverFields DEF PrepareRetry, TypeOK, DriverInv
<1>6. CASE ClaimAndDispatch
  <2>1. [driver EXCEPT !.pc = "model"].pc = "model" /\ [task EXCEPT !.status = "failed"].status = "failed"
    BY DriverFields, TaskFields DEF TypeOK
  <2>2. driver.pc = "cycle" /\ UNCHANGED <<run, server>>
    BY <1>6 DEF ClaimAndDispatch
  <2>3. CASE task.attempts < MaxAttempts
    <3>1. driver' = [driver EXCEPT !.pc = "model"] /\ task'.status = "running"
      BY <1>6, <2>3 DEF ClaimAndDispatch
    <3> QED BY <2>1, <2>2, <3>1 DEF DriverInv
  <2>4. CASE ~(task.attempts < MaxAttempts)
    <3>1. driver' = driver /\ task' = [task EXCEPT !.status = "failed"]
      BY <1>6, <2>4 DEF ClaimAndDispatch
    <3> QED BY <2>1, <2>2, <3>1 DEF DriverInv
  <2> QED BY <2>3, <2>4
<1>7. ASSUME NEW p \in Patches, ModelPasses(p) PROVE DriverInv'
  BY <1>7, RunFields, TaskFields, DriverFields DEF ModelPasses, TypeOK, DriverInv
<1>8. CASE ModelFails
  BY <1>8, RunFields, TaskFields, DriverFields DEF ModelFails, TypeOK, DriverInv
<1>9. CASE ModelCancelled
  BY <1>9, RunFields, TaskFields, DriverFields DEF ModelCancelled, TypeOK, DriverInv
<1>10. CASE CompleteTask
  BY <1>10, RunFields, TaskFields, DriverFields DEF CompleteTask, TypeOK, DriverInv
<1>11. CASE FailRun
  BY <1>11, RunFields, TaskFields, DriverFields DEF FailRun, TypeOK, DriverInv
<1>12. ASSUME NEW a \in Attempts, Offer(a) PROVE DriverInv'
  BY <1>12, RunFields, TaskFields, DriverFields DEF Offer, TypeOK, DriverInv
<1>13. ASSUME NEW a \in Attempts, NoProgress(a) PROVE DriverInv'
  BY <1>13, RunFields, TaskFields, DriverFields DEF NoProgress, TypeOK, DriverInv
<1>14. CASE PrepareConflict
  BY <1>14, RunFields, TaskFields, DriverFields DEF PrepareConflict, TypeOK, DriverInv
<1>15. CASE Epilogue
  BY <1>15, RunFields, TaskFields, DriverFields DEF Epilogue, TypeOK, DriverInv
<1>16. CASE StopFailedRun
  BY <1>16, RunFields, TaskFields, DriverFields DEF StopFailedRun, TypeOK, DriverInv
<1>17. CASE JobFailed
  BY <1>17, RunFields, TaskFields, DriverFields DEF JobFailed, TypeOK, DriverInv
<1>18. CASE MarkRepairFailed
  BY <1>18, RunFields, TaskFields, DriverFields DEF MarkRepairFailed, TypeOK, DriverInv
<1>19. CASE FailRepairRun
  BY <1>19, RunFields, TaskFields, DriverFields DEF FailRepairRun, TypeOK, DriverInv
<1> QED
  BY <1>1, <1>2, <1>3, <1>4, <1>5, <1>6, <1>7, <1>8, <1>9, <1>10, <1>11, <1>12, <1>13, <1>14, <1>15, <1>16, <1>17, <1>18, <1>19 DEF Work

LEMMA RestDriverInv ==
  ASSUME TypeOK, DriverInv, ExportSome \/ Environment \/ Recover
  PROVE  DriverInv'
<1> USE DEF Handling, Busy, Down, NoDriver, CancelDriver, store, history, RunTerminal
<1>1. ASSUME NEW actor \in Principals, Export(actor) PROVE DriverInv'
  BY <1>1, RunFields, TaskFields, DriverFields DEF Export, TypeOK, DriverInv
<1>2. CASE Expire
  BY <1>2, RunFields, TaskFields, DriverFields DEF Expire, TypeOK, DriverInv
<1>3. ASSUME NEW a \in Attempts, Damage(a) PROVE DriverInv'
  BY <1>3, RunFields, TaskFields, DriverFields DEF Damage, TypeOK, DriverInv
<1>4. CASE Crash
  BY <1>4, RunFields, TaskFields, DriverFields DEF Crash, TypeOK, DriverInv
<1>5. CASE Shutdown
  BY <1>5, RunFields, TaskFields, DriverFields DEF Shutdown, TypeOK, DriverInv
<1>6. CASE Stopped
  BY <1>6, RunFields, TaskFields, DriverFields DEF Stopped, TypeOK, DriverInv
<1>7. CASE RecoverRun
  BY <1>7, RunFields, TaskFields, DriverFields DEF RecoverRun, TypeOK, DriverInv
<1>8. CASE RecoverRow
  BY <1>8, RunFields, TaskFields, DriverFields DEF RecoverRow, TypeOK, DriverInv
<1>9. CASE RecoverRepair
  BY <1>9, RunFields, TaskFields, DriverFields DEF RecoverRepair, TypeOK, DriverInv
<1>10. CASE RecoverRepairRun
  BY <1>10, RunFields, TaskFields, DriverFields DEF RecoverRepairRun, TypeOK, DriverInv
<1> QED
  BY <1>1, <1>2, <1>3, <1>4, <1>5, <1>6, <1>7, <1>8, <1>9, <1>10 DEF ExportSome, Environment, Recover

LEMMA DecideReleaseInv ==
  ASSUME TypeOK, DriverInv, ReleaseInv, Decide
  PROVE  ReleaseInv'
<1> SUFFICES ASSUME NEW actor \in Principals, NEW req \in Requests,
                    \/ \E v \in Versions :
                         \/ Approve(actor, req, v)
                         \/ Reject(actor, req, v)
                         \/ Cancel(actor, req, v)
                         \/ Feedback(actor, req, v)
                         \/ TornFeedback(actor, req, v)
                         \/ TornCancel(actor, req, v)
                    \/ \E revision \in 0..MaxAttempts :
                         \/ Interrupt(actor, req, revision)
                         \/ TornInterrupt(actor, req, revision)
             PROVE  ReleaseInv'
  BY DEF Decide
<1> USE DEF Admit, Handling, Busy, CancelTask, CancelDriver, QueueRepair, InterruptAllowed, Down, NoDriver, NewDriver, history, RunTerminal, TaskTerminal
<1>1. ASSUME NEW v \in Versions, Approve(actor, req, v) PROVE ReleaseInv'
  <2>1. run.status = "waiting_approval" /\ v = Displayed
    BY <1>1 DEF Approve
  <2>2. Displayed' = Displayed /\ d'.state = "approved"
    BY <1>1, DeliveryFields DEF Approve, Displayed, TypeOK
  <2>3. run'.status = "completed" /\ run'.approved = TRUE
    BY <1>1 DEF Approve
  <2>4. approvals' = {Displayed'} /\ exported' \subseteq approvals'
    BY <1>1, <2>1, <2>2 DEF Approve, ReleaseInv
  <2> QED BY <2>2, <2>3, <2>4 DEF ReleaseInv
<1>2. ASSUME NEW v \in Versions, Reject(actor, req, v) PROVE ReleaseInv'
  BY <1>2, Keep, Stay, RunFields DEF Reject, TypeOK, ReleaseInv
<1>3. ASSUME NEW v \in Versions, Cancel(actor, req, v) PROVE ReleaseInv'
  BY <1>3, Keep, Stay, RunFields DEF Cancel, TypeOK, ReleaseInv
<1>4. ASSUME NEW v \in Versions, Feedback(actor, req, v) PROVE ReleaseInv'
  BY <1>4, Keep, Stay, RunFields DEF Feedback, TypeOK, ReleaseInv
<1>5. ASSUME NEW v \in Versions, TornFeedback(actor, req, v) PROVE ReleaseInv'
  BY <1>5, Keep, Stay, RunFields DEF TornFeedback, TypeOK, ReleaseInv
<1>6. ASSUME NEW v \in Versions, TornCancel(actor, req, v) PROVE ReleaseInv'
  BY <1>6, Keep, Stay, RunFields DEF TornCancel, TypeOK, ReleaseInv
<1>7. ASSUME NEW revision \in 0..MaxAttempts, Interrupt(actor, req, revision) PROVE ReleaseInv'
  BY <1>7, Keep, Stay, RunFields DEF Interrupt, TypeOK, ReleaseInv
<1>8. ASSUME NEW revision \in 0..MaxAttempts, TornInterrupt(actor, req, revision) PROVE ReleaseInv'
  BY <1>8, Keep, Stay, RunFields DEF TornInterrupt, TypeOK, ReleaseInv
<1> QED
  BY <1>1, <1>2, <1>3, <1>4, <1>5, <1>6, <1>7, <1>8

LEMMA WorkReleaseInv ==
  ASSUME TypeOK, DriverInv, ReleaseInv, Work
  PROVE  ReleaseInv'
<1> USE DEF DriverAt, NoDriver, AttemptFailure, Preparing, CanPrepare, store, history, RunTerminal
<1>1. CASE Begin
  BY <1>1, Keep, Stay, RunFields DEF Begin, TypeOK, ReleaseInv
<1>2. CASE CancelledBeforeStart
  BY <1>2, Keep, Stay, RunFields DEF CancelledBeforeStart, TypeOK, ReleaseInv
<1>3. CASE StartRun
  <2>1. UNCHANGED <<d, approvals, exported>>
    BY <1>3 DEF StartRun
  <2>2. CASE run.status \in {"queued", "running"}
    <3>1. run' = [run EXCEPT !.status = "running"] /\ run \in RunRecord
      BY <1>3, <2>2 DEF StartRun, TypeOK
    <3>2. run'.status = "running" /\ run'.approved = run.approved
      BY <3>1, RunFields
    <3> QED BY <2>1, <2>2, <3>2, Stay DEF ReleaseInv
  <2>3. CASE ~(run.status \in {"queued", "running"})
    <3>1. run' = run
      BY <1>3, <2>3 DEF StartRun
    <3> QED BY <2>1, <3>1, Keep
  <2> QED BY <2>2, <2>3
<1>4. CASE MarkReady
  BY <1>4, Keep, Stay, RunFields DEF MarkReady, TypeOK, ReleaseInv
<1>5. CASE PrepareRetry
  BY <1>5, Keep, Stay, RunFields DEF PrepareRetry, TypeOK, ReleaseInv
<1>6. CASE ClaimAndDispatch
  BY <1>6, Keep, Stay, RunFields DEF ClaimAndDispatch, TypeOK, ReleaseInv
<1>7. ASSUME NEW p \in Patches, ModelPasses(p) PROVE ReleaseInv'
  BY <1>7, Keep, Stay, RunFields DEF ModelPasses, TypeOK, ReleaseInv
<1>8. CASE ModelFails
  BY <1>8, Keep, Stay, RunFields DEF ModelFails, TypeOK, ReleaseInv
<1>9. CASE ModelCancelled
  BY <1>9, Keep, Stay, RunFields DEF ModelCancelled, TypeOK, ReleaseInv
<1>10. CASE CompleteTask
  BY <1>10, Keep, Stay, RunFields DEF CompleteTask, TypeOK, ReleaseInv
<1>11. CASE FailRun
  BY <1>11, Keep, Stay, RunFields DEF FailRun, TypeOK, ReleaseInv
<1>12. ASSUME NEW a \in Attempts, Offer(a) PROVE ReleaseInv'
  BY <1>12, Keep, Stay, RunFields DEF Offer, TypeOK, ReleaseInv
<1>13. ASSUME NEW a \in Attempts, NoProgress(a) PROVE ReleaseInv'
  BY <1>13, Keep, Stay, RunFields DEF NoProgress, TypeOK, ReleaseInv
<1>14. CASE PrepareConflict
  BY <1>14, Keep, Stay, RunFields DEF PrepareConflict, TypeOK, ReleaseInv
<1>15. CASE Epilogue
  BY <1>15, Keep, Stay, RunFields DEF Epilogue, TypeOK, ReleaseInv
<1>16. CASE StopFailedRun
  BY <1>16, Keep, Stay, RunFields DEF StopFailedRun, TypeOK, ReleaseInv
<1>17. CASE JobFailed
  BY <1>17, Keep, Stay, RunFields DEF JobFailed, TypeOK, ReleaseInv
<1>18. CASE MarkRepairFailed
  BY <1>18, Keep, Stay, RunFields DEF MarkRepairFailed, TypeOK, ReleaseInv
<1>19. CASE FailRepairRun
  BY <1>19, Keep, Stay, RunFields DEF FailRepairRun, TypeOK, ReleaseInv
<1> QED
  BY <1>1, <1>2, <1>3, <1>4, <1>5, <1>6, <1>7, <1>8, <1>9, <1>10, <1>11, <1>12, <1>13, <1>14, <1>15, <1>16, <1>17, <1>18, <1>19 DEF Work

LEMMA RestReleaseInv ==
  ASSUME TypeOK, DriverInv, ReleaseInv, ExportSome \/ Environment \/ Recover
  PROVE  ReleaseInv'
<1> USE DEF Handling, Busy, Down, NoDriver, CancelDriver, store, history, RunTerminal
<1>1. ASSUME NEW actor \in Principals, Export(actor) PROVE ReleaseInv'
  <2>1. [revision |-> d.revision, patch |-> results[d.artifact]] = Displayed
    BY <1>1 DEF Export, ResultIntact, Displayed
  <2>2. run.status = "completed" /\ approvals = {Displayed}
    BY <1>1 DEF Export, ReleaseInv
  <2>3. exported' \subseteq approvals'
    BY <1>1, <2>1, <2>2 DEF Export, ReleaseInv
  <2> QED BY <1>1, <2>3 DEF Export, ReleaseInv, Displayed
<1>2. CASE Expire
  BY <1>2, Keep, Stay, RunFields DEF Expire, TypeOK, ReleaseInv
<1>3. ASSUME NEW a \in Attempts, Damage(a) PROVE ReleaseInv'
  BY <1>3, Keep, Stay, RunFields DEF Damage, TypeOK, ReleaseInv
<1>4. CASE Crash
  BY <1>4, Keep, Stay, RunFields DEF Crash, TypeOK, ReleaseInv
<1>5. CASE Shutdown
  BY <1>5, Keep, Stay, RunFields DEF Shutdown, TypeOK, ReleaseInv
<1>6. CASE Stopped
  BY <1>6, Keep, Stay, RunFields DEF Stopped, TypeOK, ReleaseInv
<1>7. CASE RecoverRun
  BY <1>7, Keep, Stay, RunFields DEF RecoverRun, TypeOK, ReleaseInv
<1>8. CASE RecoverRow
  BY <1>8, Keep, Stay, RunFields DEF RecoverRow, TypeOK, ReleaseInv
<1>9. CASE RecoverRepair
  BY <1>9, Keep, Stay, RunFields DEF RecoverRepair, TypeOK, ReleaseInv
<1>10. CASE RecoverRepairRun
  BY <1>10, Stay, RunFields DEF RecoverRepairRun, TypeOK, ReleaseInv, DriverInv
<1> QED
  BY <1>1, <1>2, <1>3, <1>4, <1>5, <1>6, <1>7, <1>8, <1>9, <1>10 DEF ExportSome, Environment, Recover

LEMMA DecideWedged ==
  ASSUME TypeOK, DriverInv, Wedged, Decide
  PROVE  Wedged'
<1> SUFFICES ASSUME NEW actor \in Principals, NEW req \in Requests,
                    \/ \E v \in Versions :
                         \/ Approve(actor, req, v)
                         \/ Reject(actor, req, v)
                         \/ Cancel(actor, req, v)
                         \/ Feedback(actor, req, v)
                         \/ TornFeedback(actor, req, v)
                         \/ TornCancel(actor, req, v)
                    \/ \E revision \in 0..MaxAttempts :
                         \/ Interrupt(actor, req, revision)
                         \/ TornInterrupt(actor, req, revision)
             PROVE  Wedged'
  BY DEF Decide
<1> USE DEF Admit, Handling, Busy, CancelTask, CancelDriver, QueueRepair, InterruptAllowed, Down, NoDriver, NewDriver, history, RunTerminal, TaskTerminal
<1>1. ASSUME NEW v \in Versions, Approve(actor, req, v) PROVE Wedged'
  BY <1>1, RunFields, DeliveryFields, DriverFields DEF Approve, TypeOK, Wedged, DriverInv
<1>2. ASSUME NEW v \in Versions, Reject(actor, req, v) PROVE Wedged'
  BY <1>2, RunFields, DeliveryFields, DriverFields DEF Reject, TypeOK, Wedged, DriverInv
<1>3. ASSUME NEW v \in Versions, Cancel(actor, req, v) PROVE Wedged'
  BY <1>3, RunFields, DeliveryFields, DriverFields DEF Cancel, TypeOK, Wedged, DriverInv
<1>4. ASSUME NEW v \in Versions, Feedback(actor, req, v) PROVE Wedged'
  BY <1>4, RunFields, DeliveryFields, DriverFields DEF Feedback, TypeOK, Wedged, DriverInv
<1>5. ASSUME NEW v \in Versions, TornFeedback(actor, req, v) PROVE Wedged'
  BY <1>5, RunFields, DeliveryFields, DriverFields DEF TornFeedback, TypeOK, Wedged, DriverInv
<1>6. ASSUME NEW v \in Versions, TornCancel(actor, req, v) PROVE Wedged'
  BY <1>6, RunFields, DeliveryFields, DriverFields DEF TornCancel, TypeOK, Wedged, DriverInv
<1>7. ASSUME NEW revision \in 0..MaxAttempts, Interrupt(actor, req, revision) PROVE Wedged'
  BY <1>7, RunFields, DeliveryFields, DriverFields DEF Interrupt, TypeOK, Wedged, DriverInv
<1>8. ASSUME NEW revision \in 0..MaxAttempts, TornInterrupt(actor, req, revision) PROVE Wedged'
  BY <1>8, RunFields, DeliveryFields, DriverFields DEF TornInterrupt, TypeOK, Wedged, DriverInv
<1> QED
  BY <1>1, <1>2, <1>3, <1>4, <1>5, <1>6, <1>7, <1>8

LEMMA WorkWedged ==
  ASSUME TypeOK, DriverInv, Wedged, Work
  PROVE  Wedged'
<1> USE DEF DriverAt, NoDriver, AttemptFailure, Preparing, CanPrepare, store, history, RunTerminal
<1>1. CASE Begin
  BY <1>1, RunFields, DeliveryFields, DriverFields DEF Begin, TypeOK, Wedged, DriverInv
<1>2. CASE CancelledBeforeStart
  BY <1>2, RunFields, DeliveryFields, DriverFields DEF CancelledBeforeStart, TypeOK, Wedged, DriverInv
<1>3. CASE StartRun
  BY <1>3, RunFields, DeliveryFields, DriverFields DEF StartRun, TypeOK, Wedged, DriverInv
<1>4. CASE MarkReady
  BY <1>4, RunFields, DeliveryFields, DriverFields DEF MarkReady, TypeOK, Wedged, DriverInv
<1>5. CASE PrepareRetry
  BY <1>5, RunFields, DeliveryFields, DriverFields DEF PrepareRetry, TypeOK, Wedged, DriverInv
<1>6. CASE ClaimAndDispatch
  BY <1>6, RunFields, DeliveryFields, DriverFields DEF ClaimAndDispatch, TypeOK, Wedged, DriverInv
<1>7. ASSUME NEW p \in Patches, ModelPasses(p) PROVE Wedged'
  BY <1>7, RunFields, DeliveryFields, DriverFields DEF ModelPasses, TypeOK, Wedged, DriverInv
<1>8. CASE ModelFails
  BY <1>8, RunFields, DeliveryFields, DriverFields DEF ModelFails, TypeOK, Wedged, DriverInv
<1>9. CASE ModelCancelled
  BY <1>9, RunFields, DeliveryFields, DriverFields DEF ModelCancelled, TypeOK, Wedged, DriverInv
<1>10. CASE CompleteTask
  BY <1>10, RunFields, DeliveryFields, DriverFields DEF CompleteTask, TypeOK, Wedged, DriverInv
<1>11. CASE FailRun
  BY <1>11, RunFields, DeliveryFields, DriverFields DEF FailRun, TypeOK, Wedged, DriverInv
<1>12. ASSUME NEW a \in Attempts, Offer(a) PROVE Wedged'
  BY <1>12, RunFields, DeliveryFields, DriverFields DEF Offer, TypeOK, Wedged, DriverInv
<1>13. ASSUME NEW a \in Attempts, NoProgress(a) PROVE Wedged'
  BY <1>13, RunFields, DeliveryFields, DriverFields DEF NoProgress, TypeOK, Wedged, DriverInv
<1>14. CASE PrepareConflict
  BY <1>14, RunFields, DeliveryFields, DriverFields DEF PrepareConflict, TypeOK, Wedged, DriverInv
<1>15. CASE Epilogue
  BY <1>15, RunFields, DeliveryFields, DriverFields DEF Epilogue, TypeOK, Wedged, DriverInv
<1>16. CASE StopFailedRun
  BY <1>16, RunFields, DeliveryFields, DriverFields DEF StopFailedRun, TypeOK, Wedged, DriverInv
<1>17. CASE JobFailed
  BY <1>17, RunFields, DeliveryFields, DriverFields DEF JobFailed, TypeOK, Wedged, DriverInv
<1>18. CASE MarkRepairFailed
  BY <1>18, RunFields, DeliveryFields, DriverFields DEF MarkRepairFailed, TypeOK, Wedged, DriverInv
<1>19. CASE FailRepairRun
  BY <1>19, RunFields, DeliveryFields, DriverFields DEF FailRepairRun, TypeOK, Wedged, DriverInv
<1> QED
  BY <1>1, <1>2, <1>3, <1>4, <1>5, <1>6, <1>7, <1>8, <1>9, <1>10, <1>11, <1>12, <1>13, <1>14, <1>15, <1>16, <1>17, <1>18, <1>19 DEF Work

LEMMA RestWedged ==
  ASSUME TypeOK, DriverInv, Wedged, ExportSome \/ Environment \/ Recover
  PROVE  Wedged'
<1> USE DEF Handling, Busy, Down, NoDriver, CancelDriver, store, history, RunTerminal
<1>1. ASSUME NEW actor \in Principals, Export(actor) PROVE Wedged'
  BY <1>1, RunFields, DeliveryFields, DriverFields DEF Export, TypeOK, Wedged, DriverInv
<1>2. CASE Expire
  BY <1>2, RunFields, DeliveryFields, DriverFields DEF Expire, TypeOK, Wedged, DriverInv
<1>3. ASSUME NEW a \in Attempts, Damage(a) PROVE Wedged'
  BY <1>3, RunFields, DeliveryFields, DriverFields DEF Damage, TypeOK, Wedged, DriverInv
<1>4. CASE Crash
  BY <1>4, RunFields, DeliveryFields, DriverFields DEF Crash, TypeOK, Wedged, DriverInv
<1>5. CASE Shutdown
  BY <1>5, RunFields, DeliveryFields, DriverFields DEF Shutdown, TypeOK, Wedged, DriverInv
<1>6. CASE Stopped
  BY <1>6, RunFields, DeliveryFields, DriverFields DEF Stopped, TypeOK, Wedged, DriverInv
<1>7. CASE RecoverRun
  BY <1>7, RunFields, DeliveryFields, DriverFields DEF RecoverRun, TypeOK, Wedged, DriverInv
<1>8. CASE RecoverRow
  BY <1>8, RunFields, DeliveryFields, DriverFields DEF RecoverRow, TypeOK, Wedged, DriverInv
<1>9. CASE RecoverRepair
  <2>1. UNCHANGED <<run, driver>>
    BY <1>9 DEF RecoverRepair
  <2>2. CASE run.status = "running" /\ d.state = "repair_queued"
    <3>1. d' = [d EXCEPT !.state = "repair_failed"] /\ d \in DeliveryRecord
      BY <1>9, <2>2 DEF RecoverRepair, TypeOK
    <3>2. d'.state = "repair_failed"
      BY <3>1, DeliveryFields
    <3> QED BY <2>1, <2>2, <3>2 DEF Wedged
  <2>3. CASE ~(run.status = "running" /\ d.state = "repair_queued")
    <3>1. UNCHANGED d
      BY <1>9, <2>3 DEF RecoverRepair
    <3> QED BY <2>1, <2>3, <3>1 DEF Wedged
  <2> QED BY <2>2, <2>3
<1>10. CASE RecoverRepairRun
  BY <1>10, RunFields, DeliveryFields, DriverFields DEF RecoverRepairRun, TypeOK, Wedged, DriverInv
<1> QED
  BY <1>1, <1>2, <1>3, <1>4, <1>5, <1>6, <1>7, <1>8, <1>9, <1>10 DEF ExportSome, Environment, Recover

-----------------------------------------------------------------------------
(***************************************************************************)
(* Terminal runs.                                                          *)
(***************************************************************************)

Final == run.status \in RunTerminal => UNCHANGED <<run, results>>

LEMMA DecideFinal ==
  ASSUME TypeOK, DriverInv, Decide
  PROVE  Final
<1> SUFFICES ASSUME NEW actor \in Principals, NEW req \in Requests,
                    \/ \E v \in Versions :
                         \/ Approve(actor, req, v)
                         \/ Reject(actor, req, v)
                         \/ Cancel(actor, req, v)
                         \/ Feedback(actor, req, v)
                         \/ TornFeedback(actor, req, v)
                         \/ TornCancel(actor, req, v)
                    \/ \E revision \in 0..MaxAttempts :
                         \/ Interrupt(actor, req, revision)
                         \/ TornInterrupt(actor, req, revision)
             PROVE  Final
  BY DEF Decide
<1> USE DEF Admit, Handling, Busy, CancelTask, CancelDriver, QueueRepair, InterruptAllowed, Down, NoDriver, NewDriver, history, RunTerminal, TaskTerminal
<1>1. ASSUME NEW v \in Versions, Approve(actor, req, v) PROVE Final
  BY <1>1, RunFields DEF Approve, TypeOK, DriverInv, Final
<1>2. ASSUME NEW v \in Versions, Reject(actor, req, v) PROVE Final
  BY <1>2, RunFields DEF Reject, TypeOK, DriverInv, Final
<1>3. ASSUME NEW v \in Versions, Cancel(actor, req, v) PROVE Final
  BY <1>3, RunFields DEF Cancel, TypeOK, DriverInv, Final
<1>4. ASSUME NEW v \in Versions, Feedback(actor, req, v) PROVE Final
  BY <1>4, RunFields DEF Feedback, TypeOK, DriverInv, Final
<1>5. ASSUME NEW v \in Versions, TornFeedback(actor, req, v) PROVE Final
  BY <1>5, RunFields DEF TornFeedback, TypeOK, DriverInv, Final
<1>6. ASSUME NEW v \in Versions, TornCancel(actor, req, v) PROVE Final
  BY <1>6, RunFields DEF TornCancel, TypeOK, DriverInv, Final
<1>7. ASSUME NEW revision \in 0..MaxAttempts, Interrupt(actor, req, revision) PROVE Final
  BY <1>7, RunFields DEF Interrupt, TypeOK, DriverInv, Final
<1>8. ASSUME NEW revision \in 0..MaxAttempts, TornInterrupt(actor, req, revision) PROVE Final
  BY <1>8, RunFields DEF TornInterrupt, TypeOK, DriverInv, Final
<1> QED
  BY <1>1, <1>2, <1>3, <1>4, <1>5, <1>6, <1>7, <1>8

LEMMA WorkFinal ==
  ASSUME TypeOK, DriverInv, Work
  PROVE  Final
<1> USE DEF DriverAt, NoDriver, AttemptFailure, Preparing, CanPrepare, store, history, RunTerminal
<1>1. CASE Begin
  BY <1>1, RunFields DEF Begin, TypeOK, DriverInv, Final
<1>2. CASE CancelledBeforeStart
  BY <1>2, RunFields DEF CancelledBeforeStart, TypeOK, DriverInv, Final
<1>3. CASE StartRun
  BY <1>3, RunFields DEF StartRun, TypeOK, DriverInv, Final
<1>4. CASE MarkReady
  BY <1>4, RunFields DEF MarkReady, TypeOK, DriverInv, Final
<1>5. CASE PrepareRetry
  BY <1>5, RunFields DEF PrepareRetry, TypeOK, DriverInv, Final
<1>6. CASE ClaimAndDispatch
  BY <1>6, RunFields DEF ClaimAndDispatch, TypeOK, DriverInv, Final
<1>7. ASSUME NEW p \in Patches, ModelPasses(p) PROVE Final
  BY <1>7, RunFields DEF ModelPasses, TypeOK, DriverInv, Final
<1>8. CASE ModelFails
  BY <1>8, RunFields DEF ModelFails, TypeOK, DriverInv, Final
<1>9. CASE ModelCancelled
  BY <1>9, RunFields DEF ModelCancelled, TypeOK, DriverInv, Final
<1>10. CASE CompleteTask
  BY <1>10, RunFields DEF CompleteTask, TypeOK, DriverInv, Final
<1>11. CASE FailRun
  BY <1>11, RunFields DEF FailRun, TypeOK, DriverInv, Final
<1>12. ASSUME NEW a \in Attempts, Offer(a) PROVE Final
  BY <1>12, RunFields DEF Offer, TypeOK, DriverInv, Final
<1>13. ASSUME NEW a \in Attempts, NoProgress(a) PROVE Final
  BY <1>13, RunFields DEF NoProgress, TypeOK, DriverInv, Final
<1>14. CASE PrepareConflict
  BY <1>14, RunFields DEF PrepareConflict, TypeOK, DriverInv, Final
<1>15. CASE Epilogue
  BY <1>15, RunFields DEF Epilogue, TypeOK, DriverInv, Final
<1>16. CASE StopFailedRun
  BY <1>16, RunFields DEF StopFailedRun, TypeOK, DriverInv, Final
<1>17. CASE JobFailed
  BY <1>17, RunFields DEF JobFailed, TypeOK, DriverInv, Final
<1>18. CASE MarkRepairFailed
  BY <1>18, RunFields DEF MarkRepairFailed, TypeOK, DriverInv, Final
<1>19. CASE FailRepairRun
  BY <1>19, RunFields DEF FailRepairRun, TypeOK, DriverInv, Final
<1> QED
  BY <1>1, <1>2, <1>3, <1>4, <1>5, <1>6, <1>7, <1>8, <1>9, <1>10, <1>11, <1>12, <1>13, <1>14, <1>15, <1>16, <1>17, <1>18, <1>19 DEF Work

LEMMA RestFinal ==
  ASSUME TypeOK, DriverInv, ExportSome \/ Environment \/ Recover
  PROVE  Final
<1> USE DEF Handling, Busy, Down, NoDriver, CancelDriver, store, history, RunTerminal
<1>1. ASSUME NEW actor \in Principals, Export(actor) PROVE Final
  BY <1>1, RunFields DEF Export, TypeOK, DriverInv, Final
<1>2. CASE Expire
  BY <1>2, RunFields DEF Expire, TypeOK, DriverInv, Final
<1>3. ASSUME NEW a \in Attempts, Damage(a) PROVE Final
  BY <1>3, RunFields DEF Damage, TypeOK, DriverInv, Final
<1>4. CASE Crash
  BY <1>4, RunFields DEF Crash, TypeOK, DriverInv, Final
<1>5. CASE Shutdown
  BY <1>5, RunFields DEF Shutdown, TypeOK, DriverInv, Final
<1>6. CASE Stopped
  BY <1>6, RunFields DEF Stopped, TypeOK, DriverInv, Final
<1>7. CASE RecoverRun
  BY <1>7, RunFields DEF RecoverRun, TypeOK, DriverInv, Final
<1>8. CASE RecoverRow
  BY <1>8, RunFields DEF RecoverRow, TypeOK, DriverInv, Final
<1>9. CASE RecoverRepair
  BY <1>9, RunFields DEF RecoverRepair, TypeOK, DriverInv, Final
<1>10. CASE RecoverRepairRun
  BY <1>10, RunFields DEF RecoverRepairRun, TypeOK, DriverInv, Final
<1> QED
  BY <1>1, <1>2, <1>3, <1>4, <1>5, <1>6, <1>7, <1>8, <1>9, <1>10 DEF ExportSome, Environment, Recover

LEMMA TerminalStep ==
  ASSUME TypeOK, DriverInv, [Next]_vars
  PROVE  Final
<1>1. CASE Next
  BY <1>1, DecideFinal, WorkFinal, RestFinal DEF Next
<1>2. CASE UNCHANGED vars
  BY <1>2 DEF vars, store, Final
<1> QED BY <1>1, <1>2

-----------------------------------------------------------------------------
(***************************************************************************)
(* Receipts.                                                               *)
(***************************************************************************)

LEMMA AdmitOpen ==
  ASSUME NEW actor, NEW action, NEW req, NEW v, Admit(actor, action, req, v)
  PROVE  ~Wedged /\ receipts[req] = NoReceipt
  BY DEF Admit, Handling, Wedged, RunTerminal

LEMMA FirstEffect ==
  ASSUME TypeOK, ReceiptInv, ~Wedged, NEW req \in Requests, receipts[req] = NoReceipt,
         NEW action \in Actions, NEW v \in Versions, TakesEffect(req),
         Receipt(req, action, v) \/ (UNCHANGED receipts /\ Wedged')
  PROVE  ReceiptInv'
<1>1. [action |-> action, version |-> v] # NoReceipt
  BY NoReceiptAssumption DEF Digests
<1>2. effects' = [effects EXCEPT ![req] = effects[req] + 1] /\ effects[req] = 0
  BY DEF TakesEffect, ReceiptInv
<1>3. receipts'[req] # NoReceipt \/ Wedged'
  BY <1>1 DEF Receipt, TypeOK
<1>4. \A r \in Requests : r # req => receipts'[r] = receipts[r]
  BY DEF Receipt, TypeOK
<1>5. \A r \in Requests : effects'[r] = IF r = req THEN 1 ELSE effects[r]
  BY <1>2 DEF TypeOK
<1> QED BY <1>3, <1>4, <1>5 DEF ReceiptInv

LEMMA NoEffect ==
  ASSUME ReceiptInv, UNCHANGED <<effects, receipts>>, Wedged => Wedged'
  PROVE  ReceiptInv'
  BY DEF ReceiptInv

LEMMA TornWedged ==
  ASSUME TypeOK, DriverInv, NEW actor, NEW req, NEW v,
         TornFeedback(actor, req, v) \/ TornCancel(actor, req, v)
  PROVE  Wedged'
<1>1. server' = "down" /\ driver'.pc = "none"
  BY DEF TornFeedback, TornCancel, Down, NoDriver
<1>2. CASE TornFeedback(actor, req, v)
  <2>1. d' = [d EXCEPT !.state = "repair_queued", !.rounds = @ + 1] /\ d \in DeliveryRecord
    BY <1>2 DEF TornFeedback, QueueRepair, TypeOK
  <2>2. d'.state = "repair_queued"
    BY <2>1, DeliveryFields
  <2>3. run'.status = "running"
    BY <1>2 DEF TornFeedback, QueueRepair
  <2> QED BY <1>1, <2>2, <2>3 DEF Wedged
<1>3. CASE TornCancel(actor, req, v)
  <2>1. UNCHANGED <<run, d>> /\ task.status \notin TaskTerminal
    BY <1>3 DEF TornCancel
  <2>2. run.status # "waiting_approval"
    BY <2>1 DEF DriverInv, TaskTerminal
  <2>3. run.status = "running" /\ d.state = "repair_queued"
    BY <1>3, <2>2 DEF TornCancel, Admit
  <2> QED BY <1>1, <2>1, <2>3 DEF Wedged
<1> QED BY <1>2, <1>3

LEMMA ReceiptStep ==
  ASSUME TypeOK, DriverInv, ReceiptInv, [Next]_vars
  PROVE  ReceiptInv'
<1> USE DEF store, history
<1>1. CASE Work
  <2>1. UNCHANGED <<effects, receipts>>
    BY <1>1 DEF Work, Begin, CancelledBeforeStart, StartRun, MarkReady, PrepareRetry,
       ClaimAndDispatch, ModelPasses, ModelFails, ModelCancelled, CompleteTask, FailRun,
       Offer, NoProgress, PrepareConflict, Epilogue, StopFailedRun, JobFailed,
       MarkRepairFailed, FailRepairRun
  <2> QED BY <1>1, <2>1, WorkWedged, NoEffect
<1>2. CASE ExportSome \/ Environment \/ Recover
  <2>1. UNCHANGED <<effects, receipts>>
    BY <1>2 DEF ExportSome, Environment, Recover, Export, Expire, Damage, Crash, Shutdown,
       Stopped, RecoverRun, RecoverRow, RecoverRepair, RecoverRepairRun
  <2> QED BY <1>2, <2>1, RestWedged, NoEffect
<1>3. CASE Decide
  <2>1. PICK actor \in Principals, req \in Requests :
          \/ \E v \in Versions :
               \/ Approve(actor, req, v)
               \/ Reject(actor, req, v)
               \/ Cancel(actor, req, v)
               \/ Feedback(actor, req, v)
               \/ TornFeedback(actor, req, v)
               \/ TornCancel(actor, req, v)
          \/ \E revision \in 0..MaxAttempts :
               \/ Interrupt(actor, req, revision)
               \/ TornInterrupt(actor, req, revision)
    BY <1>3 DEF Decide
  <2>2. ASSUME NEW v \in Versions, NEW action \in Actions, Admit(actor, action, req, v),
               TakesEffect(req), Receipt(req, action, v) \/ (UNCHANGED receipts /\ Wedged')
        PROVE  ReceiptInv'
    BY <2>2, AdmitOpen, FirstEffect
  <2>3. ASSUME NEW v \in Versions, Approve(actor, req, v) PROVE ReceiptInv'
    BY <2>2, <2>3 DEF Approve, Actions
  <2>4. ASSUME NEW v \in Versions, Reject(actor, req, v) PROVE ReceiptInv'
    BY <2>2, <2>4 DEF Reject, Actions
  <2>5. ASSUME NEW v \in Versions, Cancel(actor, req, v) PROVE ReceiptInv'
    BY <2>2, <2>5 DEF Cancel, Actions
  <2>6. ASSUME NEW v \in Versions, Feedback(actor, req, v) PROVE ReceiptInv'
    BY <2>2, <2>6 DEF Feedback, Actions
  <2>7. ASSUME NEW v \in Versions, TornFeedback(actor, req, v) PROVE ReceiptInv'
    BY <2>2, <2>7, TornWedged DEF TornFeedback, Actions
  <2>8. ASSUME NEW v \in Versions, TornCancel(actor, req, v) PROVE ReceiptInv'
    BY <2>2, <2>8, TornWedged DEF TornCancel, Actions
  <2>9. ASSUME NEW revision \in 0..MaxAttempts,
               Interrupt(actor, req, revision) \/ TornInterrupt(actor, req, revision)
        PROVE  ReceiptInv'
    <3>1. UNCHANGED <<effects, receipts>>
      BY <2>9 DEF Interrupt, TornInterrupt
    <3> QED BY <1>3, <3>1, DecideWedged, NoEffect
  <2> QED BY <2>1, <2>3, <2>4, <2>5, <2>6, <2>7, <2>8, <2>9
<1>4. CASE UNCHANGED vars
  <2>1. UNCHANGED <<effects, receipts>> /\ (Wedged => Wedged')
    BY <1>4 DEF vars, Wedged
  <2> QED BY <2>1, NoEffect
<1> QED BY <1>1, <1>2, <1>3, <1>4 DEF Next

-----------------------------------------------------------------------------
(***************************************************************************)
(* The owner of the dispatch row.                                          *)
(***************************************************************************)

LEMMA DriverKeeps ==
  ASSUME NEW x \in DriverRecord, NEW q
  PROVE  /\ [x EXCEPT !.pc = q].kind = x.kind /\ [x EXCEPT !.pc = q].cancel = x.cancel
         /\ [x EXCEPT !.pc = q, !.cancel = FALSE].kind = x.kind
         /\ [x EXCEPT !.cancel = TRUE].kind = x.kind
  BY DEF DriverRecord

LEMMA DecideRowInv ==
  ASSUME TypeOK, DriverInv, RowInv, Decide
  PROVE  RowInv'
<1> SUFFICES ASSUME NEW actor \in Principals, NEW req \in Requests,
                    \/ \E v \in Versions :
                         \/ Approve(actor, req, v)
                         \/ Reject(actor, req, v)
                         \/ Cancel(actor, req, v)
                         \/ Feedback(actor, req, v)
                         \/ TornFeedback(actor, req, v)
                         \/ TornCancel(actor, req, v)
                    \/ \E revision \in 0..MaxAttempts :
                         \/ Interrupt(actor, req, revision)
                         \/ TornInterrupt(actor, req, revision)
             PROVE  RowInv'
  BY DEF Decide
<1> USE DEF Admit, Handling, Busy, CancelTask, CancelDriver, QueueRepair, InterruptAllowed, Down, NoDriver, NewDriver, history, RunTerminal, ActiveJob
<1>1. ASSUME NEW v \in Versions, Approve(actor, req, v) PROVE RowInv'
  BY <1>1, RunFields, DriverFields, DriverKeeps DEF Approve, TypeOK, DriverInv, RowInv
<1>2. ASSUME NEW v \in Versions, Reject(actor, req, v) PROVE RowInv'
  BY <1>2, RunFields, DriverFields, DriverKeeps DEF Reject, TypeOK, DriverInv, RowInv
<1>3. ASSUME NEW v \in Versions, Cancel(actor, req, v) PROVE RowInv'
  BY <1>3, RunFields, DriverFields, DriverKeeps DEF Cancel, TypeOK, DriverInv, RowInv
<1>4. ASSUME NEW v \in Versions, Feedback(actor, req, v) PROVE RowInv'
  BY <1>4, RunFields, DriverFields, DriverKeeps DEF Feedback, TypeOK, DriverInv, RowInv
<1>5. ASSUME NEW v \in Versions, TornFeedback(actor, req, v) PROVE RowInv'
  BY <1>5, RunFields, DriverFields, DriverKeeps DEF TornFeedback, TypeOK, DriverInv, RowInv
<1>6. ASSUME NEW v \in Versions, TornCancel(actor, req, v) PROVE RowInv'
  BY <1>6, RunFields, DriverFields, DriverKeeps DEF TornCancel, TypeOK, DriverInv, RowInv
<1>7. ASSUME NEW revision \in 0..MaxAttempts, Interrupt(actor, req, revision) PROVE RowInv'
  BY <1>7, RunFields, DriverFields, DriverKeeps DEF Interrupt, TypeOK, DriverInv, RowInv
<1>8. ASSUME NEW revision \in 0..MaxAttempts, TornInterrupt(actor, req, revision) PROVE RowInv'
  BY <1>8, RunFields, DriverFields, DriverKeeps DEF TornInterrupt, TypeOK, DriverInv, RowInv
<1> QED BY <1>1, <1>2, <1>3, <1>4, <1>5, <1>6, <1>7, <1>8

LEMMA WorkRowInv ==
  ASSUME TypeOK, DriverInv, RowInv, Work
  PROVE  RowInv'
<1> USE DEF DriverAt, NoDriver, AttemptFailure, Preparing, CanPrepare, store, history, RunTerminal, ActiveJob
<1>1. ASSUME Begin PROVE RowInv'
  <2>1. driver.pc = "queued" /\ ~driver.cancel /\ UNCHANGED <<run, server>>
    BY <1>1 DEF Begin
  <2>2. [driver EXCEPT !.pc = "start"].pc = "start" /\ [driver EXCEPT !.pc = "start"].kind = driver.kind
    BY DriverFields, DriverKeeps DEF TypeOK
  <2>3. CASE driver.kind = "repair"
    <3>1. driver' = [driver EXCEPT !.pc = "start"] /\ UNCHANGED job
      BY <1>1, <2>3 DEF Begin
    <3> QED BY <2>1, <2>2, <2>3, <3>1 DEF RowInv
  <2>4. CASE driver.kind # "repair" /\ job = "queued"
    <3>1. driver' = [driver EXCEPT !.pc = "start"] /\ job' = "running"
      BY <1>1, <2>4 DEF Begin
    <3>2. server \notin {"repairs", "failing"} /\ driver.kind = "initial"
      BY <2>1, <2>4 DEF DriverInv, RowInv, TypeOK, DriverRecord, DriverKind
    <3> QED BY <2>1, <2>2, <2>4, <3>1, <3>2 DEF RowInv
  <2>5. CASE driver.kind # "repair" /\ job # "queued"
    <3>1. driver'.pc = "none" /\ driver'.kind = "none" /\ UNCHANGED job
      BY <1>1, <2>5 DEF Begin
    <3> QED BY <2>1, <2>5, <3>1 DEF RowInv
  <2> QED BY <2>3, <2>4, <2>5
<1>2. ASSUME CancelledBeforeStart PROVE RowInv'
  BY <1>2, RunFields, DriverFields, DriverKeeps DEF CancelledBeforeStart, TypeOK, DriverInv, RowInv
<1>3. ASSUME StartRun PROVE RowInv'
  <2>1. driver.pc = "start" /\ UNCHANGED <<server, job>>
    BY <1>3 DEF StartRun
  <2>2. run.status = "cancelled" => run' = run
    BY <1>3 DEF StartRun
  <2>3. PICK q \in {"cycle", "epilogue"} : driver' = [driver EXCEPT !.pc = q]
    BY <1>3 DEF StartRun
  <2>4. driver'.pc = q /\ driver'.kind = driver.kind
    BY <2>3, DriverFields, DriverKeeps DEF TypeOK
  <2> QED BY <2>1, <2>2, <2>3, <2>4 DEF RowInv
<1>4. ASSUME MarkReady PROVE RowInv'
  BY <1>4, RunFields, DriverFields, DriverKeeps DEF MarkReady, TypeOK, DriverInv, RowInv
<1>5. ASSUME PrepareRetry PROVE RowInv'
  BY <1>5, RunFields, DriverFields, DriverKeeps DEF PrepareRetry, TypeOK, DriverInv, RowInv
<1>6. ASSUME ClaimAndDispatch PROVE RowInv'
  <2>1. driver.pc = "cycle" /\ UNCHANGED <<run, server, job>>
    BY <1>6 DEF ClaimAndDispatch
  <2>2. driver' = driver \/ driver' = [driver EXCEPT !.pc = "model"]
    BY <1>6 DEF ClaimAndDispatch
  <2>3. [driver EXCEPT !.pc = "model"].pc = "model" /\ [driver EXCEPT !.pc = "model"].kind = driver.kind
    BY DriverFields, DriverKeeps DEF TypeOK
  <2> QED BY <2>1, <2>2, <2>3 DEF RowInv
<1>7. ASSUME NEW p \in Patches, ModelPasses(p) PROVE RowInv'
  BY <1>7, RunFields, DriverFields, DriverKeeps DEF ModelPasses, TypeOK, DriverInv, RowInv
<1>8. ASSUME ModelFails PROVE RowInv'
  BY <1>8, RunFields, DriverFields, DriverKeeps DEF ModelFails, TypeOK, DriverInv, RowInv
<1>9. ASSUME ModelCancelled PROVE RowInv'
  BY <1>9, RunFields, DriverFields, DriverKeeps DEF ModelCancelled, TypeOK, DriverInv, RowInv
<1>10. ASSUME CompleteTask PROVE RowInv'
  BY <1>10, RunFields, DriverFields, DriverKeeps DEF CompleteTask, TypeOK, DriverInv, RowInv
<1>11. ASSUME FailRun PROVE RowInv'
  BY <1>11, RunFields, DriverFields, DriverKeeps DEF FailRun, TypeOK, DriverInv, RowInv
<1>12. ASSUME NEW a \in Attempts, Offer(a) PROVE RowInv'
  BY <1>12, RunFields, DriverFields, DriverKeeps DEF Offer, TypeOK, DriverInv, RowInv
<1>13. ASSUME NEW a \in Attempts, NoProgress(a) PROVE RowInv'
  BY <1>13, RunFields, DriverFields, DriverKeeps DEF NoProgress, TypeOK, DriverInv, RowInv
<1>14. ASSUME PrepareConflict PROVE RowInv'
  BY <1>14, RunFields, DriverFields, DriverKeeps DEF PrepareConflict, TypeOK, DriverInv, RowInv
<1>15. ASSUME Epilogue PROVE RowInv'
  BY <1>15, RunFields, DriverFields, DriverKeeps DEF Epilogue, TypeOK, DriverInv, RowInv
<1>16. ASSUME StopFailedRun PROVE RowInv'
  BY <1>16, RunFields, DriverFields, DriverKeeps DEF StopFailedRun, TypeOK, DriverInv, RowInv
<1>17. ASSUME JobFailed PROVE RowInv'
  BY <1>17, RunFields, DriverFields, DriverKeeps DEF JobFailed, TypeOK, DriverInv, RowInv
<1>18. ASSUME MarkRepairFailed PROVE RowInv'
  BY <1>18, RunFields, DriverFields, DriverKeeps DEF MarkRepairFailed, TypeOK, DriverInv, RowInv
<1>19. ASSUME FailRepairRun PROVE RowInv'
  <2>1. driver.pc = "repairfailed" /\ driver'.pc = "none" /\ UNCHANGED <<server, job>>
    BY <1>19 DEF FailRepairRun
  <2>2. run.status = "cancelled" => run' = run
    BY <1>19 DEF FailRepairRun
  <2>3. server = "up" /\ job \in ActiveJob /\ driver.kind # "initial" => job = "queued" /\ run.status = "cancelled"
    BY DEF RowInv
  <2> QED BY <2>1, <2>2, <2>3 DEF RowInv
<1> QED
  BY <1>1, <1>2, <1>3, <1>4, <1>5, <1>6, <1>7, <1>8, <1>9, <1>10, <1>11, <1>12, <1>13, <1>14, <1>15, <1>16, <1>17, <1>18, <1>19 DEF Work

LEMMA RestRowInv ==
  ASSUME TypeOK, DriverInv, RowInv, ExportSome \/ Environment \/ Recover
  PROVE  RowInv'
<1> USE DEF Handling, Busy, Down, NoDriver, CancelDriver, store, history, RunTerminal, ActiveJob
<1>1. ASSUME NEW actor \in Principals, Export(actor) PROVE RowInv'
  BY <1>1, RunFields, DriverFields, DriverKeeps DEF Export, TypeOK, DriverInv, RowInv
<1>2. ASSUME Expire PROVE RowInv'
  BY <1>2, RunFields, DriverFields, DriverKeeps DEF Expire, TypeOK, DriverInv, RowInv
<1>3. ASSUME NEW a \in Attempts, Damage(a) PROVE RowInv'
  BY <1>3, RunFields, DriverFields, DriverKeeps DEF Damage, TypeOK, DriverInv, RowInv
<1>4. ASSUME Crash PROVE RowInv'
  BY <1>4, RunFields, DriverFields, DriverKeeps DEF Crash, TypeOK, DriverInv, RowInv
<1>5. ASSUME Shutdown PROVE RowInv'
  BY <1>5, RunFields, DriverFields, DriverKeeps DEF Shutdown, TypeOK, DriverInv, RowInv
<1>6. ASSUME Stopped PROVE RowInv'
  BY <1>6, RunFields, DriverFields, DriverKeeps DEF Stopped, TypeOK, DriverInv, RowInv
<1>7. ASSUME RecoverRun PROVE RowInv'
  BY <1>7, RunFields, DriverFields, DriverKeeps DEF RecoverRun, TypeOK, DriverInv, RowInv
<1>8. ASSUME RecoverRow PROVE RowInv'
  BY <1>8, RunFields, DriverFields, DriverKeeps DEF RecoverRow, TypeOK, DriverInv, RowInv
<1>9. ASSUME RecoverRepair PROVE RowInv'
  BY <1>9, RunFields, DriverFields, DriverKeeps DEF RecoverRepair, TypeOK, DriverInv, RowInv
<1>10. ASSUME RecoverRepairRun PROVE RowInv'
  BY <1>10, RunFields, DriverFields, DriverKeeps DEF RecoverRepairRun, TypeOK, DriverInv, RowInv
<1> QED
  BY <1>1, <1>2, <1>3, <1>4, <1>5, <1>6, <1>7, <1>8, <1>9, <1>10 DEF ExportSome, Environment, Recover

-----------------------------------------------------------------------------
(***************************************************************************)
(* Attempts, rounds, revisions and the version on offer.                   *)
(***************************************************************************)

LEMMA TaskKeeps ==
  ASSUME NEW t \in TaskRecord, NEW s
  PROVE  [t EXCEPT !.status = s].attempts = t.attempts
  BY DEF TaskRecord

LEMMA DeliveryKeeps ==
  ASSUME NEW x \in DeliveryRecord, NEW s
  PROVE  /\ [x EXCEPT !.state = s].rounds = x.rounds
         /\ [x EXCEPT !.state = s].artifact = x.artifact
         /\ [x EXCEPT !.expired = TRUE].rounds = x.rounds
         /\ [x EXCEPT !.expired = TRUE].artifact = x.artifact
         /\ [x EXCEPT !.state = s, !.rounds = @ + 1].rounds = x.rounds + 1
         /\ [x EXCEPT !.state = s, !.rounds = @ + 1].artifact = x.artifact
         /\ [x EXCEPT !.state = s, !.rounds = @ + 1].revision = x.revision
         /\ [x EXCEPT !.state = s, !.rounds = @ + 1].patch = x.patch
  BY DEF DeliveryRecord

\* Steps that neither claim an attempt, nor register a result, nor offer one, nor
\* pay a round.
Settled(x, y) ==
  /\ y.rounds = x.rounds /\ y.revision = x.revision
  /\ y.artifact = x.artifact /\ y.patch = x.patch

OfferQuiet ==
  /\ UNCHANGED <<dispatches, results>>
  /\ task'.attempts = task.attempts
  /\ Settled(d, d')
  /\ run'.status \in {"queued", "running"} => run.status \in {"queued", "running"}
  /\ driver'.pc \in {"model", "complete"} => driver'.pc = driver.pc
  /\ task'.status = "completed" => task.status = "completed" \/ driver.pc = "complete"
  /\ run'.status = "waiting_approval" => run.status = "waiting_approval" /\ d'.state = d.state

LEMMA OfferKept ==
  ASSUME OfferInv, OfferQuiet
  PROVE  OfferInv'
  BY DEF OfferInv, OfferQuiet, Settled

LEMMA SettledFields ==
  ASSUME TypeOK
  PROVE  /\ Settled(d, d) /\ Settled(d, [d EXCEPT !.expired = TRUE])
         /\ \A s \in DeliveryState : Settled(d, [d EXCEPT !.state = s])
  BY DeliveryFields, DeliveryKeeps DEF Settled, TypeOK

LEMMA CancelKeeps ==
  ASSUME TypeOK, CancelTask
  PROVE  task'.attempts = task.attempts /\ (task'.status = "completed" => task.status = "completed")
  BY TaskFields, TaskKeeps DEF CancelTask, TypeOK

LEMMA FailureKeeps ==
  ASSUME TypeOK
  PROVE  /\ AttemptFailure.attempts = task.attempts
         /\ AttemptFailure.status = "completed" => task.status = "completed"
<1>1. [task EXCEPT !.status = "blocked"].status = "blocked" /\ [task EXCEPT !.status = "failed"].status = "failed"
      /\ [task EXCEPT !.status = "blocked"].attempts = task.attempts
      /\ [task EXCEPT !.status = "failed"].attempts = task.attempts
  BY TaskFields, TaskKeeps DEF TypeOK
<1>2. AttemptFailure \in {task, [task EXCEPT !.status = "blocked"], [task EXCEPT !.status = "failed"]}
  BY DEF AttemptFailure
<1> QED BY <1>1, <1>2

\* A round paid for a repair of the version on offer.
LEMMA RepairPaid ==
  ASSUME TypeOK, DriverInv, OfferInv, RepairAllowed, QueueRepair, run.status = "waiting_approval",
         UNCHANGED <<dispatches, results>>, task'.attempts = task.attempts,
         task'.status = "completed" => task.status = "completed",
         driver'.pc \notin {"model", "complete"}
  PROVE  OfferInv'
<1>1. /\ d'.rounds = d.rounds + 1 /\ d'.revision = d.revision
      /\ d'.artifact = d.artifact /\ d'.patch = d.patch
  BY DeliveryKeeps DEF QueueRepair, TypeOK
<1>2. run'.status = "running"
  BY DEF QueueRepair
<1>3. d.rounds \in Nat /\ d.revision \in Nat /\ d.rounds < MaxRounds /\ MaxRounds \in Nat
  BY LimitsAssumption DEF RepairAllowed, TypeOK, DeliveryRecord
<1>4. d'.rounds <= MaxRounds /\ d'.revision <= d'.rounds + 1 /\ d'.revision <= d'.rounds
  BY <1>1, <1>3 DEF OfferInv
<1> QED BY <1>1, <1>2, <1>4 DEF OfferInv

LEMMA ClaimOffer ==
  ASSUME TypeOK, DriverInv, OfferInv, ClaimAndDispatch
  PROVE  OfferInv'
<1>1. driver.pc = "cycle" /\ UNCHANGED <<run, d, results>> /\ task.status = "ready"
  BY DEF ClaimAndDispatch
<1>2. CASE task.attempts < MaxAttempts
  <2>1. /\ task'.status = "running" /\ task'.attempts = task.attempts + 1
        /\ dispatches' = dispatches + 1 /\ driver' = [driver EXCEPT !.pc = "model"]
    BY <1>2 DEF ClaimAndDispatch, DriverAt
  <2>2. driver'.pc = "model" /\ run.status # "waiting_approval"
    BY <1>1, <2>1, DriverFields DEF TypeOK, DriverInv
  <2>3. task.attempts \in Nat /\ d.artifact \in Nat
    BY DEF TypeOK, TaskRecord, DeliveryRecord
  <2>4. d'.artifact < task'.attempts /\ d'.artifact <= task'.attempts
    BY <1>1, <2>1, <2>3 DEF OfferInv
  <2>5. \A b \in Attempts : results'[b] # NoPatch => b <= task'.attempts
    BY <1>1, <2>1, <2>3, LimitsAssumption DEF OfferInv, Attempts
  <2>6. dispatches' = task'.attempts
    BY <2>1 DEF OfferInv
  <2> QED BY <1>1, <2>1, <2>2, <2>4, <2>5, <2>6 DEF OfferInv
<1>3. CASE ~(task.attempts < MaxAttempts)
  <2>1. task' = [task EXCEPT !.status = "failed"] /\ UNCHANGED <<dispatches, driver>>
    BY <1>3 DEF ClaimAndDispatch
  <2>2. task'.status = "failed" /\ task'.attempts = task.attempts
    BY <2>1, TaskFields, TaskKeeps DEF TypeOK
  <2>3. OfferQuiet
    BY <1>1, <2>1, <2>2, SettledFields DEF OfferQuiet
  <2> QED BY <2>3, OfferKept
<1> QED BY <1>2, <1>3

LEMMA PassOffer ==
  ASSUME TypeOK, DriverInv, OfferInv, NEW p \in Patches, ModelPasses(p)
  PROVE  OfferInv'
<1>1. driver.pc = "model" /\ UNCHANGED <<run, task, d, dispatches>>
  BY DEF ModelPasses, history
<1>2. driver'.pc = "complete"
  BY DriverFields DEF ModelPasses, TypeOK
<1>3. d.artifact < task.attempts /\ run.status # "waiting_approval"
  BY <1>1 DEF OfferInv, DriverInv
<1>4. task.attempts \in Attempts /\ d.artifact \in Nat /\ task.attempts # 0
  BY <1>3, LimitsAssumption DEF TypeOK, TaskRecord, DeliveryRecord, Attempts
<1>5. results' = [results EXCEPT ![task.attempts] = p] /\ results \in [Attempts -> Patches \cup {NoPatch}]
  BY DEF ModelPasses, TypeOK
<1>6. results'[task.attempts] = p /\ \A b \in Attempts : b # task.attempts => results'[b] = results[b]
  BY <1>4, <1>5
<1>7. p # NoPatch
  BY NoPatchAssumption
<1>8. d.artifact # 0 => d.artifact \in Attempts /\ d.artifact # task.attempts
  BY <1>3, <1>4, LimitsAssumption DEF TypeOK, DeliveryRecord, Attempts
<1>9. d.artifact # 0 => results'[d.artifact] = d.patch
  BY <1>6, <1>8 DEF OfferInv
<1>10. \A b \in Attempts : results'[b] # NoPatch => b <= task.attempts
  BY <1>4, <1>6, LimitsAssumption DEF OfferInv, Attempts
<1> QED BY <1>1, <1>2, <1>3, <1>4, <1>6, <1>7, <1>9, <1>10 DEF OfferInv

\* The newest result of a completed task is that of its last attempt, and later
\* than the artifact of the version displayed before.
LEMMA OfferNewest ==
  ASSUME TypeOK, DriverInv, OfferInv, NEW a \in Attempts, Preparing, CanPrepare(a)
  PROVE  /\ task.status = "completed" /\ a = task.attempts
         /\ d.patch # results[a] => d.artifact < a
<1>1. task.status = "completed"
  BY DEF Preparing, CanPrepare, DriverInv
<1>2. task.attempts \in Attempts /\ results[task.attempts] # NoPatch
  BY <1>1, LimitsAssumption DEF OfferInv, TypeOK, TaskRecord, Attempts
<1>3. a \in Nat /\ task.attempts \in Nat /\ d.artifact \in Nat
  BY <1>2 DEF Attempts, TypeOK, DeliveryRecord
<1>4. a <= task.attempts
  BY DEF CanPrepare, Latest, OfferInv
<1>5. ~(task.attempts > a)
  BY <1>2 DEF CanPrepare, Latest
<1>6. a = task.attempts
  BY <1>3, <1>4, <1>5
<1>7. ASSUME d.patch # results[a] PROVE d.artifact < a
  <2>1. d.artifact # a
    BY <1>7, <1>3 DEF OfferInv, Attempts
  <2>2. d.artifact <= a
    BY <1>6 DEF OfferInv
  <2> QED BY <1>3, <2>1, <2>2
<1> QED BY <1>1, <1>6, <1>7

LEMMA OfferOffer ==
  ASSUME TypeOK, DriverInv, OfferInv, NEW a \in Attempts, Offer(a)
  PROVE  OfferInv'
<1>1. Preparing /\ CanPrepare(a) /\ d.patch # results[a] /\ UNCHANGED <<task, results, dispatches>>
  BY DEF Offer, history
<1>2. task.status = "completed" /\ a = task.attempts /\ d.artifact < a
  BY <1>1, OfferNewest
<1>3. /\ d'.state = "pending" /\ d'.revision = d.revision + 1 /\ d'.patch = results[a]
      /\ d'.artifact = a /\ d'.rounds = d.rounds /\ run'.status = "waiting_approval"
  BY DEF Offer
<1>4. driver'.pc = "epilogue"
  BY DriverFields DEF Offer, DriverAt, TypeOK
<1>5. run.status = "running" /\ results[a] # NoPatch
  BY <1>1 DEF CanPrepare, Latest
<1>6. a \in Nat /\ d.revision \in Nat /\ d.rounds \in Nat /\ d.artifact \in Nat
  BY DEF Attempts, TypeOK, DeliveryRecord
<1>7. d'.rounds <= MaxRounds /\ d'.revision <= d'.rounds + 1
  BY <1>3, <1>5, <1>6 DEF OfferInv
<1>8. d'.revision <= d'.artifact /\ d'.artifact <= task'.attempts
  BY <1>1, <1>2, <1>3, <1>6 DEF OfferInv
<1> QED BY <1>1, <1>2, <1>3, <1>4, <1>5, <1>7, <1>8 DEF OfferInv

LEMMA DecideOfferInv ==
  ASSUME TypeOK, DriverInv, OfferInv, Decide
  PROVE  OfferInv'
<1> SUFFICES ASSUME NEW actor \in Principals, NEW req \in Requests,
                    \/ \E v \in Versions :
                         \/ Approve(actor, req, v)
                         \/ Reject(actor, req, v)
                         \/ Cancel(actor, req, v)
                         \/ Feedback(actor, req, v)
                         \/ TornFeedback(actor, req, v)
                         \/ TornCancel(actor, req, v)
                    \/ \E revision \in 0..MaxAttempts :
                         \/ Interrupt(actor, req, revision)
                         \/ TornInterrupt(actor, req, revision)
             PROVE  OfferInv'
  BY DEF Decide
<1> USE DEF Admit, Handling, Busy, CancelDriver, InterruptAllowed, Down, NoDriver, NewDriver, history, RunTerminal, TaskTerminal
<1>1. ASSUME NEW v \in Versions, Approve(actor, req, v) PROVE OfferInv'
  BY <1>1, OfferKept, SettledFields, CancelKeeps, FailureKeeps, RunFields, TaskFields, TaskKeeps, DriverFields DEF Approve, TypeOK, DriverInv, OfferQuiet, DeliveryState
<1>2. ASSUME NEW v \in Versions, Reject(actor, req, v) PROVE OfferInv'
  BY <1>2, OfferKept, SettledFields, CancelKeeps, FailureKeeps, RunFields, TaskFields, TaskKeeps, DriverFields DEF Reject, TypeOK, DriverInv, OfferQuiet, DeliveryState
<1>3. ASSUME NEW v \in Versions, Cancel(actor, req, v) PROVE OfferInv'
  BY <1>3, OfferKept, SettledFields, CancelKeeps, FailureKeeps, RunFields, TaskFields, TaskKeeps, DriverFields DEF Cancel, TypeOK, DriverInv, OfferQuiet, DeliveryState
<1>4. ASSUME NEW v \in Versions, Feedback(actor, req, v) PROVE OfferInv'
  <2>1. RepairAllowed /\ QueueRepair /\ run.status = "waiting_approval" /\ UNCHANGED <<dispatches, results>>
    BY <1>4 DEF Feedback
  <2>2. task' = task \/ task' = [task EXCEPT !.status = "ready"]
    BY <1>4 DEF Feedback
  <2>3. task'.attempts = task.attempts /\ (task'.status = "completed" => task.status = "completed")
    <3>1. [task EXCEPT !.status = "ready"].status = "ready" /\ [task EXCEPT !.status = "ready"].attempts = task.attempts
      BY TaskFields, TaskKeeps DEF TypeOK
    <3> QED BY <2>2, <3>1
  <2>4. driver'.pc \notin {"model", "complete"}
    BY <1>4 DEF Feedback
  <2> QED BY <2>1, <2>3, <2>4, RepairPaid
<1>5. ASSUME NEW v \in Versions, TornFeedback(actor, req, v) PROVE OfferInv'
  <2>1. RepairAllowed /\ QueueRepair /\ run.status = "waiting_approval" /\ UNCHANGED <<dispatches, results>>
    BY <1>5 DEF TornFeedback
  <2>2. task' = task \/ task' = [task EXCEPT !.status = "ready"]
    BY <1>5 DEF TornFeedback
  <2>3. task'.attempts = task.attempts /\ (task'.status = "completed" => task.status = "completed")
    <3>1. [task EXCEPT !.status = "ready"].status = "ready" /\ [task EXCEPT !.status = "ready"].attempts = task.attempts
      BY TaskFields, TaskKeeps DEF TypeOK
    <3> QED BY <2>2, <3>1
  <2>4. driver'.pc \notin {"model", "complete"}
    BY <1>5 DEF TornFeedback
  <2> QED BY <2>1, <2>3, <2>4, RepairPaid
<1>6. ASSUME NEW v \in Versions, TornCancel(actor, req, v) PROVE OfferInv'
  BY <1>6, OfferKept, SettledFields, CancelKeeps, FailureKeeps, RunFields, TaskFields, TaskKeeps, DriverFields DEF TornCancel, TypeOK, DriverInv, OfferQuiet, DeliveryState
<1>7. ASSUME NEW revision \in 0..MaxAttempts, Interrupt(actor, req, revision) PROVE OfferInv'
  BY <1>7, OfferKept, SettledFields, CancelKeeps, FailureKeeps, RunFields, TaskFields, TaskKeeps, DriverFields DEF Interrupt, TypeOK, DriverInv, OfferQuiet, DeliveryState
<1>8. ASSUME NEW revision \in 0..MaxAttempts, TornInterrupt(actor, req, revision) PROVE OfferInv'
  BY <1>8, OfferKept, SettledFields, CancelKeeps, FailureKeeps, RunFields, TaskFields, TaskKeeps, DriverFields DEF TornInterrupt, TypeOK, DriverInv, OfferQuiet, DeliveryState
<1> QED BY <1>1, <1>2, <1>3, <1>4, <1>5, <1>6, <1>7, <1>8

LEMMA WorkOfferInv ==
  ASSUME TypeOK, DriverInv, OfferInv, Work
  PROVE  OfferInv'
<1> USE DEF DriverAt, NoDriver, Preparing, CanPrepare, store, history, RunTerminal
<1>1. ASSUME Begin PROVE OfferInv'
  <2>1. [driver EXCEPT !.pc = "start"].pc = "start" /\ NoDriver.pc = "none"
    BY DriverFields DEF TypeOK
  <2>2. driver' \in {NoDriver, [driver EXCEPT !.pc = "start"]} /\ UNCHANGED <<run, task, d, results, dispatches>>
    BY <1>1 DEF Begin
  <2>3. OfferQuiet
    BY <2>1, <2>2, SettledFields DEF OfferQuiet
  <2> QED BY <2>3, OfferKept
<1>2. ASSUME CancelledBeforeStart PROVE OfferInv'
  BY <1>2, OfferKept, SettledFields, CancelKeeps, FailureKeeps, RunFields, TaskFields, TaskKeeps, DriverFields DEF CancelledBeforeStart, TypeOK, DriverInv, OfferQuiet, DeliveryState
<1>3. ASSUME StartRun PROVE OfferInv'
  <2>1. UNCHANGED <<task, d, results, dispatches>>
    BY <1>3 DEF StartRun
  <2>2. driver'.pc \in {"cycle", "epilogue"}
    <3>1. driver' = [driver EXCEPT !.pc = "cycle"] \/ driver' = [driver EXCEPT !.pc = "epilogue"]
      BY <1>3 DEF StartRun
    <3>2. [driver EXCEPT !.pc = "cycle"].pc = "cycle" /\ [driver EXCEPT !.pc = "epilogue"].pc = "epilogue"
      BY DriverFields DEF TypeOK
    <3> QED BY <3>1, <3>2
  <2>3. \/ run' = [run EXCEPT !.status = "running"] /\ run.status \in {"queued", "running"}
        \/ run' = run
    BY <1>3 DEF StartRun
  <2>4. [run EXCEPT !.status = "running"].status = "running"
    BY RunFields DEF TypeOK
  <2>5. OfferQuiet
    BY <2>1, <2>2, <2>3, <2>4, SettledFields DEF OfferQuiet
  <2> QED BY <2>5, OfferKept
<1>4. ASSUME MarkReady PROVE OfferInv'
  BY <1>4, OfferKept, SettledFields, CancelKeeps, FailureKeeps, RunFields, TaskFields, TaskKeeps, DriverFields DEF MarkReady, TypeOK, DriverInv, OfferQuiet, DeliveryState
<1>5. ASSUME PrepareRetry PROVE OfferInv'
  BY <1>5, OfferKept, SettledFields, CancelKeeps, FailureKeeps, RunFields, TaskFields, TaskKeeps, DriverFields DEF PrepareRetry, TypeOK, DriverInv, OfferQuiet, DeliveryState
<1>6. ASSUME ClaimAndDispatch PROVE OfferInv'
  BY <1>6, ClaimOffer
<1>7. ASSUME NEW p \in Patches, ModelPasses(p) PROVE OfferInv'
  BY <1>7, PassOffer
<1>8. ASSUME ModelFails PROVE OfferInv'
  BY <1>8, OfferKept, SettledFields, CancelKeeps, FailureKeeps, RunFields, TaskFields, TaskKeeps, DriverFields DEF ModelFails, TypeOK, DriverInv, OfferQuiet, DeliveryState
<1>9. ASSUME ModelCancelled PROVE OfferInv'
  BY <1>9, OfferKept, SettledFields, CancelKeeps, FailureKeeps, RunFields, TaskFields, TaskKeeps, DriverFields DEF ModelCancelled, TypeOK, DriverInv, OfferQuiet, DeliveryState
<1>10. ASSUME CompleteTask PROVE OfferInv'
  BY <1>10, OfferKept, SettledFields, CancelKeeps, FailureKeeps, RunFields, TaskFields, TaskKeeps, DriverFields DEF CompleteTask, TypeOK, DriverInv, OfferQuiet, DeliveryState
<1>11. ASSUME FailRun PROVE OfferInv'
  BY <1>11, OfferKept, SettledFields, CancelKeeps, FailureKeeps, RunFields, TaskFields, TaskKeeps, DriverFields DEF FailRun, TypeOK, DriverInv, OfferQuiet, DeliveryState
<1>12. ASSUME NEW a \in Attempts, Offer(a) PROVE OfferInv'
  BY <1>12, OfferOffer
<1>13. ASSUME NEW a \in Attempts, NoProgress(a) PROVE OfferInv'
  BY <1>13, OfferKept, SettledFields, CancelKeeps, FailureKeeps, RunFields, TaskFields, TaskKeeps, DriverFields DEF NoProgress, TypeOK, DriverInv, OfferQuiet, DeliveryState
<1>14. ASSUME PrepareConflict PROVE OfferInv'
  BY <1>14, OfferKept, SettledFields, CancelKeeps, FailureKeeps, RunFields, TaskFields, TaskKeeps, DriverFields DEF PrepareConflict, TypeOK, DriverInv, OfferQuiet, DeliveryState
<1>15. ASSUME Epilogue PROVE OfferInv'
  BY <1>15, OfferKept, SettledFields, CancelKeeps, FailureKeeps, RunFields, TaskFields, TaskKeeps, DriverFields DEF Epilogue, TypeOK, DriverInv, OfferQuiet, DeliveryState
<1>16. ASSUME StopFailedRun PROVE OfferInv'
  BY <1>16, OfferKept, SettledFields, CancelKeeps, FailureKeeps, RunFields, TaskFields, TaskKeeps, DriverFields DEF StopFailedRun, TypeOK, DriverInv, OfferQuiet, DeliveryState
<1>17. ASSUME JobFailed PROVE OfferInv'
  BY <1>17, OfferKept, SettledFields, CancelKeeps, FailureKeeps, RunFields, TaskFields, TaskKeeps, DriverFields DEF JobFailed, TypeOK, DriverInv, OfferQuiet, DeliveryState
<1>18. ASSUME MarkRepairFailed PROVE OfferInv'
  BY <1>18, OfferKept, SettledFields, CancelKeeps, FailureKeeps, RunFields, TaskFields, TaskKeeps, DriverFields DEF MarkRepairFailed, TypeOK, DriverInv, OfferQuiet, DeliveryState
<1>19. ASSUME FailRepairRun PROVE OfferInv'
  BY <1>19, OfferKept, SettledFields, CancelKeeps, FailureKeeps, RunFields, TaskFields, TaskKeeps, DriverFields DEF FailRepairRun, TypeOK, DriverInv, OfferQuiet, DeliveryState
<1> QED
  BY <1>1, <1>2, <1>3, <1>4, <1>5, <1>6, <1>7, <1>8, <1>9, <1>10, <1>11, <1>12, <1>13, <1>14, <1>15, <1>16, <1>17, <1>18, <1>19 DEF Work

LEMMA RestOfferInv ==
  ASSUME TypeOK, DriverInv, OfferInv, ExportSome \/ Environment \/ Recover
  PROVE  OfferInv'
<1> USE DEF Handling, Busy, Down, NoDriver, CancelDriver, store, history, RunTerminal
<1>1. ASSUME NEW actor \in Principals, Export(actor) PROVE OfferInv'
  BY <1>1, OfferKept, SettledFields, CancelKeeps, FailureKeeps, RunFields, TaskFields, TaskKeeps, DriverFields DEF Export, TypeOK, DriverInv, OfferQuiet, DeliveryState
<1>2. ASSUME Expire PROVE OfferInv'
  BY <1>2, OfferKept, SettledFields, CancelKeeps, FailureKeeps, RunFields, TaskFields, TaskKeeps, DriverFields DEF Expire, TypeOK, DriverInv, OfferQuiet, DeliveryState
<1>3. ASSUME NEW a \in Attempts, Damage(a) PROVE OfferInv'
  BY <1>3, OfferKept, SettledFields, CancelKeeps, FailureKeeps, RunFields, TaskFields, TaskKeeps, DriverFields DEF Damage, TypeOK, DriverInv, OfferQuiet, DeliveryState
<1>4. ASSUME Crash PROVE OfferInv'
  BY <1>4, OfferKept, SettledFields, CancelKeeps, FailureKeeps, RunFields, TaskFields, TaskKeeps, DriverFields DEF Crash, TypeOK, DriverInv, OfferQuiet, DeliveryState
<1>5. ASSUME Shutdown PROVE OfferInv'
  BY <1>5, OfferKept, SettledFields, CancelKeeps, FailureKeeps, RunFields, TaskFields, TaskKeeps, DriverFields DEF Shutdown, TypeOK, DriverInv, OfferQuiet, DeliveryState
<1>6. ASSUME Stopped PROVE OfferInv'
  BY <1>6, OfferKept, SettledFields, CancelKeeps, FailureKeeps, RunFields, TaskFields, TaskKeeps, DriverFields DEF Stopped, TypeOK, DriverInv, OfferQuiet, DeliveryState
<1>7. ASSUME RecoverRun PROVE OfferInv'
  BY <1>7, OfferKept, SettledFields, CancelKeeps, FailureKeeps, RunFields, TaskFields, TaskKeeps, DriverFields DEF RecoverRun, TypeOK, DriverInv, OfferQuiet, DeliveryState
<1>8. ASSUME RecoverRow PROVE OfferInv'
  BY <1>8, OfferKept, SettledFields, CancelKeeps, FailureKeeps, RunFields, TaskFields, TaskKeeps, DriverFields DEF RecoverRow, TypeOK, DriverInv, OfferQuiet, DeliveryState
<1>9. ASSUME RecoverRepair PROVE OfferInv'
  BY <1>9, OfferKept, SettledFields, CancelKeeps, FailureKeeps, RunFields, TaskFields, TaskKeeps, DriverFields DEF RecoverRepair, TypeOK, DriverInv, OfferQuiet, DeliveryState
<1>10. ASSUME RecoverRepairRun PROVE OfferInv'
  BY <1>10, OfferKept, SettledFields, CancelKeeps, FailureKeeps, RunFields, TaskFields, TaskKeeps, DriverFields DEF RecoverRepairRun, TypeOK, DriverInv, OfferQuiet, DeliveryState
<1> QED
  BY <1>1, <1>2, <1>3, <1>4, <1>5, <1>6, <1>7, <1>8, <1>9, <1>10 DEF ExportSome, Environment, Recover

-----------------------------------------------------------------------------
(***************************************************************************)
(* The theorems.                                                           *)
(***************************************************************************)

LEMMA InitIInv == Init => IInv
<1> SUFFICES ASSUME Init PROVE IInv
  OBVIOUS
<1>1. run.status = "queued" /\ run.approved = FALSE /\ task.status = "pending" /\ server = "up"
  BY DEF Init
<1>2. driver.pc = "queued"
  BY DEF Init, NewDriver
<1>3. DriverInv
  BY <1>1, <1>2 DEF DriverInv
<1>4. ReleaseInv
  BY <1>1 DEF Init, ReleaseInv
<1>5. ReceiptInv
  BY DEF Init, ReceiptInv
<1>6. OfferInv
  BY <1>1, <1>2, LimitsAssumption DEF Init, OfferInv, NoDelivery, Attempts
<1>7. RowInv
  BY <1>1 DEF Init, RowInv, NewDriver
<1> QED BY <1>3, <1>4, <1>5, <1>6, <1>7 DEF IInv

LEMMA NextIInv ==
  ASSUME TypeOK, IInv, [Next]_vars
  PROVE  IInv'
<1> USE DEF IInv
<1>1. ReceiptInv'
  BY ReceiptStep
<1>2. CASE Next
  <2>1. DriverInv'
    BY <1>2, DecideDriverInv, WorkDriverInv, RestDriverInv DEF Next
  <2>2. ReleaseInv'
    BY <1>2, DecideReleaseInv, WorkReleaseInv, RestReleaseInv DEF Next
  <2>3. OfferInv'
    BY <1>2, DecideOfferInv, WorkOfferInv, RestOfferInv DEF Next
  <2>4. RowInv'
    BY <1>2, DecideRowInv, WorkRowInv, RestRowInv DEF Next
  <2> QED BY <1>1, <2>1, <2>2, <2>3, <2>4
<1>3. CASE UNCHANGED vars
  <2>1. DriverInv' /\ ReleaseInv'
    BY <1>3 DEF vars, store, history, DriverInv, ReleaseInv, Displayed
  <2>2. OfferInv' /\ RowInv'
    BY <1>3 DEF vars, store, history, OfferInv, RowInv
  <2> QED BY <1>1, <2>1, <2>2
<1> QED BY <1>2, <1>3

\* Type correctness and the inductive invariant hold in every reachable state.
THEOREM Invariant == Spec => [](TypeOK /\ IInv)
<1> QED BY InitTypeOK, NextTypeOK, InitIInv, NextIInv, PTL DEF Spec

\* A run counts as completed exactly when its displayed version was approved.
THEOREM ReleaseIsAlwaysApproved == Spec => []ReleaseIsApproved
<1>1. IInv => ReleaseIsApproved
  BY DEF IInv, ReleaseInv, ReleaseIsApproved
<1> QED BY <1>1, Invariant, PTL

\* At most one version is approved, and only that one is exported.
THEOREM OnlyOneVersionLeaves == Spec => []OneVersionLeaves
<1>1. IInv => OneVersionLeaves
  <2> SUFFICES ASSUME IInv PROVE OneVersionLeaves
    OBVIOUS
  <2>1. CASE approvals = {Displayed}
    <3>1. Cardinality(approvals) = 1
      BY <2>1, FS_Singleton
    <3> QED BY <3>1 DEF IInv, ReleaseInv, OneVersionLeaves
  <2>2. CASE approvals = {}
    <3>1. Cardinality(approvals) = 0
      BY <2>2, FS_EmptySet
    <3> QED BY <3>1 DEF IInv, ReleaseInv, OneVersionLeaves
  <2> QED BY <2>1, <2>2 DEF IInv, ReleaseInv
<1> QED BY <1>1, Invariant, PTL

\* A request id takes effect at most once, whatever crashes and replays happen.
THEOREM RequestsTakeEffectOnce == Spec => []OneEffectPerRequest
<1>1. IInv => OneEffectPerRequest
  BY DEF IInv, ReceiptInv, OneEffectPerRequest
<1> QED BY <1>1, Invariant, PTL

\* What waits for approval is the newest candidate of the last attempt, and
\* neither feedback nor a restart gives a task more attempts, rounds or revisions.
THEOREM OfferIsAlwaysLatest == Spec => []OfferIsLatest
<1>1. TypeOK /\ IInv => OfferIsLatest
  <2> SUFFICES ASSUME TypeOK, IInv PROVE OfferIsLatest
    OBVIOUS
  <2>1. /\ task.attempts \in 0..MaxAttempts /\ d.revision \in Nat
        /\ d.artifact \in 0..MaxAttempts
    BY DEF TypeOK, TaskRecord, DeliveryRecord
  <2>2. /\ dispatches <= MaxAttempts
        /\ d.rounds <= MaxRounds /\ d.revision <= d.rounds + 1 /\ d.revision <= task.attempts
    BY <2>1, LimitsAssumption DEF IInv, OfferInv
  <2>3. ASSUME run.status = "waiting_approval"
        PROVE  /\ d.state = "pending" /\ ~run.approved
               /\ task.status = "completed" /\ d.artifact = task.attempts
               /\ Latest(d.artifact) /\ results[d.artifact] = d.patch
               /\ driver.pc \in {"none", "epilogue"}
    <3>1. /\ d.state = "pending" /\ d.artifact = task.attempts /\ task.status = "completed"
          /\ driver.pc \in {"none", "epilogue"}
      BY <2>3 DEF IInv, OfferInv, DriverInv
    <3>2. ~run.approved
      BY <2>3 DEF IInv, ReleaseInv
    <3>3. d.artifact # 0 /\ results[d.artifact] # NoPatch /\ results[d.artifact] = d.patch
      BY <3>1 DEF IInv, OfferInv
    <3>4. \A b \in Attempts : b > d.artifact => results[b] = NoPatch
      BY <2>1, <3>1, LimitsAssumption DEF IInv, OfferInv, Attempts
    <3> QED BY <3>1, <3>2, <3>3, <3>4 DEF Latest
  <2> QED BY <2>2, <2>3 DEF OfferIsLatest
<1> QED BY <1>1, Invariant, PTL

\* No active row is left without a driver, but that of a run that was
\* interrupted before it started.
THEOREM RowIsAlwaysOwned == Spec => []RowOwned
<1>1. IInv => RowOwned
  BY DEF IInv, RowInv, RowOwned
<1> QED BY <1>1, Invariant, PTL

\* No step changes a terminal run or the results registered for it.
THEOREM TerminalRunsAreFinal == Spec => TerminalIsFinal
<1>1. TypeOK /\ IInv /\ [Next]_vars => [run.status \in RunTerminal => UNCHANGED <<run, results>>]_vars
  BY TerminalStep DEF IInv, Final
<1> QED BY <1>1, Invariant, PTL DEF Spec, TerminalIsFinal

-----------------------------------------------------------------------------
(***************************************************************************)
(* The refinement of VersionApproval.                                      *)
(***************************************************************************)

Phase == CASE run.status \in {"queued", "running"} -> "working"
           [] run.status = "waiting_approval" -> "offered"
           [] run.status = "completed" -> "released"
           [] OTHER -> "closed"

\* Steps that leave the displayed version and the approvals alone and the run in
\* its phase, or close it, or withdraw its offer.
LEMMA QuietStep ==
  ASSUME UNCHANGED <<Displayed, approvals>>,
         \/ Phase' = Phase
         \/ Phase \in {"working", "offered"} /\ Phase' = "closed"
         \/ Phase = "offered" /\ Phase' = "working"
  PROVE  [Approval!Next]_(Approval!vars)
  BY DEF Phase, Approval!Next, Approval!vars, Approval!Withdraw, Approval!Close

\* The same, read off the status of the run.
Quiet ==
  /\ UNCHANGED <<Displayed, approvals>>
  /\ \/ run'.status = run.status
     \/ run.status \notin RunTerminal /\ run'.status \in {"failed", "cancelled"}
     \/ run.status \notin RunTerminal /\ run'.status = "running"

LEMMA QuietStatus ==
  ASSUME TypeOK, Quiet
  PROVE  [Approval!Next]_(Approval!vars)
<1>1. run.status \in RunStatus
  BY DEF TypeOK, RunRecord
<1>2. Phase' = Phase \/ (Phase \in {"working", "offered"} /\ Phase' = "closed")
        \/ (Phase = "offered" /\ Phase' = "working")
  BY <1>1 DEF Quiet, Phase, RunStatus, RunTerminal
<1> QED BY <1>2, QuietStep DEF Quiet

LEMMA OfferStep ==
  ASSUME TypeOK, NEW a \in Attempts, Offer(a)
  PROVE  Approval!Offer
<1>1. Phase = "working" /\ Phase' = "offered"
  BY DEF Offer, CanPrepare, Phase
<1>2. Displayed'.revision = Displayed.revision + 1 /\ Displayed'.patch # Displayed.patch
  BY DEF Offer, Displayed
<1>3. UNCHANGED approvals
  BY DEF Offer, history
<1> QED BY <1>1, <1>2, <1>3 DEF Approval!Offer, Phase

LEMMA ApproveStep ==
  ASSUME TypeOK, ReleaseInv, NEW actor, NEW req, NEW v, Approve(actor, req, v)
  PROVE  Approval!Release
<1>1. Phase = "offered" /\ Phase' = "released"
  BY DEF Approve, Admit, Phase
<1>2. Displayed' = Displayed
  BY DeliveryFields DEF Approve, Displayed, TypeOK
<1>3. approvals' = {Displayed}
  BY DEF Approve, Admit, ReleaseInv
<1> QED BY <1>1, <1>2, <1>3 DEF Approval!Release, Phase

LEMMA DecideApproval ==
  ASSUME TypeOK, IInv, Decide
  PROVE  [Approval!Next]_(Approval!vars)
<1> SUFFICES ASSUME NEW actor \in Principals, NEW req \in Requests,
                    \/ \E v \in Versions :
                         \/ Approve(actor, req, v)
                         \/ Reject(actor, req, v)
                         \/ Cancel(actor, req, v)
                         \/ Feedback(actor, req, v)
                         \/ TornFeedback(actor, req, v)
                         \/ TornCancel(actor, req, v)
                    \/ \E revision \in 0..MaxAttempts :
                         \/ Interrupt(actor, req, revision)
                         \/ TornInterrupt(actor, req, revision)
             PROVE  [Approval!Next]_(Approval!vars)
  BY DEF Decide
<1> USE DEF Admit, QueueRepair, InterruptAllowed, Down, history, RunTerminal
<1>1. ASSUME NEW v \in Versions, Approve(actor, req, v) PROVE Approval!Release
  BY <1>1, ApproveStep DEF IInv
<1>2. ASSUME NEW v \in Versions, Reject(actor, req, v) PROVE Quiet
  BY <1>2, RunFields, DeliveryFields DEF Reject, TypeOK, Quiet, Displayed
<1>3. ASSUME NEW v \in Versions, Cancel(actor, req, v) PROVE Quiet
  BY <1>3, RunFields, DeliveryFields DEF Cancel, TypeOK, Quiet, Displayed
<1>4. ASSUME NEW v \in Versions, Feedback(actor, req, v) PROVE Quiet
  BY <1>4, RunFields, DeliveryFields DEF Feedback, TypeOK, Quiet, Displayed
<1>5. ASSUME NEW v \in Versions, TornFeedback(actor, req, v) PROVE Quiet
  BY <1>5, RunFields, DeliveryFields DEF TornFeedback, TypeOK, Quiet, Displayed
<1>6. ASSUME NEW v \in Versions, TornCancel(actor, req, v) PROVE Quiet
  BY <1>6, RunFields, DeliveryFields DEF TornCancel, TypeOK, Quiet, Displayed
<1>7. ASSUME NEW revision \in 0..MaxAttempts, Interrupt(actor, req, revision) PROVE Quiet
  BY <1>7, RunFields, DeliveryFields DEF Interrupt, TypeOK, Quiet, Displayed
<1>8. ASSUME NEW revision \in 0..MaxAttempts, TornInterrupt(actor, req, revision) PROVE Quiet
  BY <1>8, RunFields, DeliveryFields DEF TornInterrupt, TypeOK, Quiet, Displayed
<1> QED
  BY QuietStatus, <1>1, <1>2, <1>3, <1>4, <1>5, <1>6, <1>7, <1>8 DEF Approval!Next

LEMMA WorkApproval ==
  ASSUME TypeOK, IInv, Work
  PROVE  [Approval!Next]_(Approval!vars)
<1> USE DEF CanPrepare, store, history, RunTerminal
<1>1. ASSUME Begin PROVE Quiet
  BY <1>1, RunFields, DeliveryFields DEF Begin, TypeOK, Quiet, Displayed
<1>2. ASSUME CancelledBeforeStart PROVE Quiet
  BY <1>2, RunFields, DeliveryFields DEF CancelledBeforeStart, TypeOK, Quiet, Displayed
<1>3. ASSUME StartRun PROVE Quiet
  <2>1. \/ run' = [run EXCEPT !.status = "running"] /\ run.status \in {"queued", "running"}
        \/ run' = run
    BY <1>3 DEF StartRun
  <2>2. [run EXCEPT !.status = "running"].status = "running"
    BY RunFields DEF TypeOK
  <2>3. run'.status = run.status \/ (run.status \notin RunTerminal /\ run'.status = "running")
    BY <2>1, <2>2
  <2> QED BY <1>3, <2>3 DEF StartRun, Quiet, Displayed
<1>4. ASSUME MarkReady PROVE Quiet
  BY <1>4, RunFields, DeliveryFields DEF MarkReady, TypeOK, Quiet, Displayed
<1>5. ASSUME PrepareRetry PROVE Quiet
  BY <1>5, RunFields, DeliveryFields DEF PrepareRetry, TypeOK, Quiet, Displayed
<1>6. ASSUME ClaimAndDispatch PROVE Quiet
  BY <1>6, RunFields, DeliveryFields DEF ClaimAndDispatch, TypeOK, Quiet, Displayed
<1>7. ASSUME NEW p \in Patches, ModelPasses(p) PROVE Quiet
  BY <1>7, RunFields, DeliveryFields DEF ModelPasses, TypeOK, Quiet, Displayed
<1>8. ASSUME ModelFails PROVE Quiet
  BY <1>8, RunFields, DeliveryFields DEF ModelFails, TypeOK, Quiet, Displayed
<1>9. ASSUME ModelCancelled PROVE Quiet
  BY <1>9, RunFields, DeliveryFields DEF ModelCancelled, TypeOK, Quiet, Displayed
<1>10. ASSUME CompleteTask PROVE Quiet
  BY <1>10, RunFields, DeliveryFields DEF CompleteTask, TypeOK, Quiet, Displayed
<1>11. ASSUME FailRun PROVE Quiet
  BY <1>11, RunFields, DeliveryFields DEF FailRun, TypeOK, Quiet, Displayed
<1>12. ASSUME NEW a \in Attempts, Offer(a) PROVE Approval!Offer
  BY <1>12, OfferStep
<1>13. ASSUME NEW a \in Attempts, NoProgress(a) PROVE Quiet
  BY <1>13, RunFields, DeliveryFields DEF NoProgress, TypeOK, Quiet, Displayed
<1>14. ASSUME PrepareConflict PROVE Quiet
  BY <1>14, RunFields, DeliveryFields DEF PrepareConflict, TypeOK, Quiet, Displayed
<1>15. ASSUME Epilogue PROVE Quiet
  BY <1>15, RunFields, DeliveryFields DEF Epilogue, TypeOK, Quiet, Displayed
<1>16. ASSUME StopFailedRun PROVE Quiet
  BY <1>16, RunFields, DeliveryFields DEF StopFailedRun, TypeOK, Quiet, Displayed
<1>17. ASSUME JobFailed PROVE Quiet
  BY <1>17, RunFields, DeliveryFields DEF JobFailed, TypeOK, Quiet, Displayed
<1>18. ASSUME MarkRepairFailed PROVE Quiet
  BY <1>18, RunFields, DeliveryFields DEF MarkRepairFailed, TypeOK, Quiet, Displayed
<1>19. ASSUME FailRepairRun PROVE Quiet
  BY <1>19, RunFields, DeliveryFields DEF FailRepairRun, TypeOK, Quiet, Displayed
<1> QED
  BY QuietStatus, <1>1, <1>2, <1>3, <1>4, <1>5, <1>6, <1>7, <1>8, <1>9, <1>10, <1>11, <1>12, <1>13, <1>14, <1>15, <1>16, <1>17, <1>18, <1>19 DEF Approval!Next, Work

LEMMA RestApproval ==
  ASSUME TypeOK, IInv, ExportSome \/ Environment \/ Recover
  PROVE  [Approval!Next]_(Approval!vars)
<1> USE DEF store, history, RunTerminal, IInv, DriverInv
<1>1. ASSUME NEW actor \in Principals, Export(actor) PROVE Quiet
  BY <1>1, RunFields, DeliveryFields DEF Export, TypeOK, Quiet, Displayed
<1>2. ASSUME Expire PROVE Quiet
  BY <1>2, RunFields, DeliveryFields DEF Expire, TypeOK, Quiet, Displayed
<1>3. ASSUME NEW a \in Attempts, Damage(a) PROVE Quiet
  BY <1>3, RunFields, DeliveryFields DEF Damage, TypeOK, Quiet, Displayed
<1>4. ASSUME Crash PROVE Quiet
  BY <1>4, RunFields, DeliveryFields DEF Crash, TypeOK, Quiet, Displayed
<1>5. ASSUME Shutdown PROVE Quiet
  BY <1>5, RunFields, DeliveryFields DEF Shutdown, TypeOK, Quiet, Displayed
<1>6. ASSUME Stopped PROVE Quiet
  BY <1>6, RunFields, DeliveryFields DEF Stopped, TypeOK, Quiet, Displayed
<1>7. ASSUME RecoverRun PROVE Quiet
  BY <1>7, RunFields, DeliveryFields DEF RecoverRun, TypeOK, Quiet, Displayed
<1>8. ASSUME RecoverRow PROVE Quiet
  BY <1>8, RunFields, DeliveryFields DEF RecoverRow, TypeOK, Quiet, Displayed
<1>9. ASSUME RecoverRepair PROVE Quiet
  <2>1. d' = [d EXCEPT !.state = "repair_failed"] \/ d' = d
    BY <1>9 DEF RecoverRepair
  <2>2. d \in DeliveryRecord
    BY DEF TypeOK
  <2>3. CASE d' = d
    BY <1>9, <2>3 DEF RecoverRepair, Quiet, Displayed
  <2>4. CASE d' = [d EXCEPT !.state = "repair_failed"]
    <3>1. d'.revision = d.revision /\ d'.patch = d.patch
      BY <2>2, <2>4, DeliveryFields
    <3> QED BY <1>9, <3>1 DEF RecoverRepair, Quiet, Displayed
  <2> QED BY <2>1, <2>3, <2>4
<1>10. ASSUME RecoverRepairRun PROVE Quiet
  BY <1>10, RunFields, DeliveryFields DEF RecoverRepairRun, TypeOK, Quiet, Displayed
<1> QED
  BY QuietStatus, <1>1, <1>2, <1>3, <1>4, <1>5, <1>6, <1>7, <1>8, <1>9, <1>10 DEF Approval!Next, ExportSome, Environment, Recover

\* Every behaviour of the delivery is one of VersionApproval: what is released
\* was on offer at that moment, at most one version ever is, and every offer has
\* a new revision number and other content than the one before.
THEOREM DeliveryImplementsApproval == Spec => ImplementsApproval
<1>1. Init => Approval!Init
  BY DEF Init, Approval!Init, NoDelivery, Displayed
<1>2. TypeOK /\ IInv /\ [Next]_vars => [Approval!Next]_(Approval!vars)
  <2> SUFFICES ASSUME TypeOK, IInv, [Next]_vars PROVE [Approval!Next]_(Approval!vars)
    OBVIOUS
  <2>1. CASE Next
    BY <2>1, DecideApproval, WorkApproval, RestApproval DEF Next
  <2>2. CASE UNCHANGED vars
    <3>1. Quiet
      BY <2>2 DEF vars, store, history, Quiet, Displayed
    <3> QED BY <3>1, QuietStatus
  <2> QED BY <2>1, <2>2
<1> QED BY <1>1, <1>2, Invariant, PTL DEF Spec, ImplementsApproval, Approval!Spec

=============================================================================
