------------------------- MODULE EngineeringDelivery -------------------------
(***************************************************************************)
(* The life of one accepted engineering run: the version-bound decisions   *)
(* of EngineeringDeliveryController (app/services/engineering_delivery.py),*)
(* the asyncio task that drives the run through the Workflow Controller    *)
(* (app/api/engineering.py, app/engineering/service.py), its row in the    *)
(* dispatch table, and crash, shutdown and restart of the server.          *)
(*                                                                         *)
(* One event loop runs everything, so an HTTP handler or a stretch of the  *)
(* driver between two awaits is not interleaved with another.  A crash can *)
(* fall between any two durable writes: the driver has one step per write, *)
(* and a handler with several writes has a Torn action for its prefixes.   *)
(***************************************************************************)
EXTENDS Naturals, FiniteSets, Lifecycle

CONSTANTS
  Requests,     \* request ids clients use for decisions
  Patches,      \* digests of the diffs a model invocation can produce
  NoPatch,      \* no digest
  NoReceipt,    \* no receipt
  Principals,   \* authenticated callers
  Owner,        \* the owner of the run
  MaxAttempts,  \* Task.max_attempts
  MaxRounds,    \* feedback rounds act() accepts
  MaxCrashes    \* bound on crashes (model bound only)

ASSUME NoPatchAssumption == NoPatch \notin Patches
ASSUME LimitsAssumption ==
  MaxAttempts \in Nat \ {0} /\ MaxRounds \in Nat /\ MaxCrashes \in Nat

VARIABLES
  run,             \* Run record: status and metadata.delivery_approved
  task,            \* Task record: status and attempt_count
  d,               \* run.metadata.delivery
  receipts,        \* d.receipts: what each request id asked for
  cancelReceipts,  \* run.metadata.cancel_receipts
  results,         \* registered engineering-result artifact of each attempt
  damaged,         \* attempts whose stored artifact no longer verifies
  job,             \* state of the row in the dispatch table
  driver,          \* asyncio task executing the run
  server,          \* the process, and how far a restart has got
  crashes,
  \* history, read by the properties only
  approvals,       \* versions the owner approved
  exported,        \* versions handed out by export()
  effects,         \* how often each request id changed the run
  dispatches       \* model dispatches started

store   == <<run, task, d, receipts, cancelReceipts, results, damaged, job>>
history == <<approvals, exported, effects, dispatches>>
vars    == <<store, driver, server, crashes, history>>

Attempts == 1..MaxAttempts
Versions == [revision : Attempts, patch : Patches]
Actions  == {"approve", "reject", "cancel", "feedback"}
Digests  == [action : Actions, version : Versions]

ASSUME NoReceiptAssumption == NoReceipt \notin Digests \cup Nat

ActiveJob     == {"queued", "running"}
NoDriver      == [pc |-> "none", kind |-> "none", cancel |-> FALSE]
NewDriver(k)  == [pc |-> "queued", kind |-> k, cancel |-> FALSE]
DriverAt(pc)  == driver' = [driver EXCEPT !.pc = pc]
\* The loop is inside a stretch of the driver that has no await.
Busy          == driver.pc \notin {"none", "queued", "model"}

NoDelivery == [state |-> "none", revision |-> 0, patch |-> NoPatch,
               artifact |-> 0, rounds |-> 0, expired |-> FALSE]
Displayed  == [revision |-> d.revision, patch |-> d.patch]

\* metadata['engineering'] runs hold one task, and creation has committed.
Init ==
  /\ run = [status |-> "queued", approved |-> FALSE]
  /\ task = [status |-> "pending", attempts |-> 0]
  /\ d = NoDelivery
  /\ receipts = [r \in Requests |-> NoReceipt]
  /\ cancelReceipts = [r \in Requests |-> NoReceipt]
  /\ results = [a \in Attempts |-> NoPatch]
  /\ damaged = {}
  /\ job = "queued"
  /\ driver = NewDriver("initial")
  /\ server = "up"
  /\ crashes = 0
  /\ approvals = {}
  /\ exported = {}
  /\ effects = [r \in Requests |-> 0]
  /\ dispatches = 0

-----------------------------------------------------------------------------
(***************************************************************************)
(* Decisions: act(), interrupt(), export().                                *)
(***************************************************************************)

Handling == server = "up" /\ ~Busy

\* _result: the registered artifact still verifies and is the displayed version.
ResultIntact ==
  /\ d.artifact \in Attempts \ damaged
  /\ results[d.artifact] = d.patch

\* Mutants of Admit: the displayed version, the receipt is not checked.
AdmitAnyVersion(actor, action, req, v) ==
  /\ Handling /\ actor = Owner /\ receipts[req] = NoReceipt
  /\ run.status = "waiting_approval" /\ d.state = "pending"
  /\ ~d.expired /\ ResultIntact

AdmitReplay(actor, action, req, v) ==
  /\ Handling /\ actor = Owner
  /\ \/ run.status = "waiting_approval" /\ d.state = "pending"
     \/ run.status = "running" /\ d.state = "repair_queued"
  /\ v = Displayed /\ ~d.expired /\ ResultIntact

\* The order of the checks in act(); a request that fails one changes nothing,
\* and a request with a receipt is answered from it.
Admit(actor, action, req, v) ==
  /\ Handling
  /\ actor = Owner
  /\ receipts[req] = NoReceipt
  /\ \/ run.status = "waiting_approval" /\ d.state = "pending"
     \/ action = "cancel" /\ run.status = "running" /\ d.state = "repair_queued"
  /\ v = Displayed
  /\ ~d.expired
  /\ ResultIntact

Receipt(req, action, v) ==
  receipts' = [receipts EXCEPT ![req] = [action |-> action, version |-> v]]

TakesEffect(req) == effects' = [effects EXCEPT ![req] = @ + 1]

\* for task in tx.list_tasks(): every task that is not terminal is cancelled.
CancelTask ==
  task' = IF task.status \in TaskTerminal THEN task
          ELSE [task EXCEPT !.status = "cancelled"]

\* task.cancel(): CancelledError is raised at the await the driver is in.
CancelDriver ==
  driver' = IF driver.pc = "none" THEN driver ELSE [driver EXCEPT !.cancel = TRUE]

Approve(actor, req, v) ==
  /\ Admit(actor, "approve", req, v)
  /\ d' = [d EXCEPT !.state = "approved"]
  /\ run' = [status |-> "completed", approved |-> TRUE]
  /\ approvals' = approvals \cup {v}
  /\ Receipt(req, "approve", v) /\ TakesEffect(req)
  /\ UNCHANGED <<task, cancelReceipts, results, damaged, job, driver, server,
                 crashes, exported, dispatches>>

Reject(actor, req, v) ==
  /\ Admit(actor, "reject", req, v)
  /\ d' = [d EXCEPT !.state = "rejected"]
  /\ run' = [run EXCEPT !.status = "failed"]
  /\ CancelTask
  /\ Receipt(req, "reject", v) /\ TakesEffect(req)
  /\ UNCHANGED <<cancelReceipts, results, damaged, job, driver, server,
                 crashes, approvals, exported, dispatches>>

\* The route also cancels the active repair of the run.
Cancel(actor, req, v) ==
  /\ Admit(actor, "cancel", req, v)
  /\ d' = [d EXCEPT !.state = "cancelled"]
  /\ run' = [run EXCEPT !.status = "cancelled"]
  /\ CancelTask
  /\ CancelDriver
  /\ Receipt(req, "cancel", v) /\ TakesEffect(req)
  /\ UNCHANGED <<cancelReceipts, results, damaged, job, server,
                 crashes, approvals, exported, dispatches>>

RepairAllowed == d.rounds < MaxRounds /\ task.attempts < MaxAttempts

\* The repair intent: what the first save_run of feedback writes.
QueueRepair ==
  /\ d' = [d EXCEPT !.state = "repair_queued", !.rounds = @ + 1]
  /\ run' = [status |-> "running", approved |-> FALSE]

Feedback(actor, req, v) ==
  /\ Admit(actor, "feedback", req, v)
  /\ RepairAllowed
  /\ QueueRepair
  /\ task' = [task EXCEPT !.status = "ready"]
  /\ driver' = NewDriver("repair")
  /\ Receipt(req, "feedback", v) /\ TakesEffect(req)
  /\ UNCHANGED <<cancelReceipts, results, damaged, job, server,
                 crashes, approvals, exported, dispatches>>

\* interrupt(): compare-and-set on the revision only; no delivery need exist.
InterruptAllowed(actor, req, revision) ==
  /\ Handling
  /\ actor = Owner
  /\ cancelReceipts[req] = NoReceipt
  /\ run.status \notin RunTerminal
  /\ revision = d.revision

Interrupt(actor, req, revision) ==
  /\ InterruptAllowed(actor, req, revision)
  /\ run' = [status |-> "cancelled", approved |-> FALSE]
  /\ d' = IF d.state = "none" THEN d ELSE [d EXCEPT !.state = "cancelled"]
  /\ cancelReceipts' = [cancelReceipts EXCEPT ![req] = revision]
  /\ CancelTask
  /\ CancelDriver
  /\ UNCHANGED <<receipts, results, damaged, job, server, crashes, history>>

\* Mutant: the current candidate is handed out, approved or not.
ExportCandidate(actor) ==
  /\ Handling
  /\ actor = Owner
  /\ ResultIntact
  /\ exported' = exported \cup {[revision |-> d.revision, patch |-> results[d.artifact]]}
  /\ UNCHANGED <<store, driver, server, crashes, approvals, effects, dispatches>>

Export(actor) ==
  /\ Handling
  /\ actor = Owner
  /\ run.status = "completed" /\ d.state = "approved" /\ run.approved
  /\ ResultIntact
  /\ exported' = exported \cup {[revision |-> d.revision, patch |-> results[d.artifact]]}
  /\ UNCHANGED <<store, driver, server, crashes, approvals, effects, dispatches>>

\* expires_at passes.
Expire ==
  /\ d.state \in {"pending", "repair_queued"}
  /\ ~d.expired
  /\ d' = [d EXCEPT !.expired = TRUE]
  /\ UNCHANGED <<run, task, receipts, cancelReceipts, results, damaged, job,
                 driver, server, crashes, history>>

\* The file of an artifact changes under the program.
Damage(a) ==
  /\ results[a] # NoPatch
  /\ a \notin damaged
  /\ damaged' = damaged \cup {a}
  /\ UNCHANGED <<run, task, d, receipts, cancelReceipts, results, job,
                 driver, server, crashes, history>>
-----------------------------------------------------------------------------
(***************************************************************************)
(* The driver: _execute() or repair(), EngineeringService.execute(), and   *)
(* the cycle of WorkflowController.run_until_terminal for a run with one   *)
(* engineering task.                                                       *)
(***************************************************************************)

\* The execution lock is acquired; the row moves to running at most once.
Begin ==
  /\ driver.pc = "queued" /\ ~driver.cancel
  /\ IF driver.kind = "repair"
     THEN DriverAt("start") /\ UNCHANGED job
     ELSE IF job = "queued"
          THEN DriverAt("start") /\ job' = "running"
          ELSE driver' = NoDriver /\ UNCHANGED job
  /\ UNCHANGED <<run, task, d, receipts, cancelReceipts, results, damaged,
                 server, crashes, history>>

\* Cancelled before it held the lock: the body never runs.
CancelledBeforeStart ==
  /\ driver.pc = "queued" /\ driver.cancel
  /\ driver' = NoDriver
  /\ UNCHANGED <<store, server, crashes, history>>

StartRun ==
  /\ driver.pc = "start"
  /\ IF run.status \in {"queued", "running"}
     THEN run' = [run EXCEPT !.status = "running"] /\ DriverAt("cycle")
     ELSE UNCHANGED run /\ DriverAt("epilogue")
  /\ UNCHANGED <<task, d, receipts, cancelReceipts, results, damaged, job,
                 server, crashes, history>>

MarkReady ==
  /\ driver.pc = "cycle"
  /\ task.status = "pending"
  /\ task' = [task EXCEPT !.status = "ready"]
  /\ UNCHANGED <<run, d, receipts, cancelReceipts, results, damaged, job,
                 driver, server, crashes, history>>

PrepareRetry ==
  /\ driver.pc = "cycle"
  /\ task.status = "blocked"
  /\ task' = [task EXCEPT !.status =
                IF task.attempts < MaxAttempts THEN "ready" ELSE "failed"]
  /\ UNCHANGED <<run, d, receipts, cancelReceipts, results, damaged, job,
                 driver, server, crashes, history>>

\* claim_task, then the dispatch that awaits the model, the tests and the review.
\* A ready task without attempts left is blocked and failed instead.
ClaimAndDispatch ==
  /\ driver.pc = "cycle"
  /\ task.status = "ready"
  /\ IF task.attempts < MaxAttempts
     THEN /\ task' = [status |-> "running", attempts |-> task.attempts + 1]
          /\ dispatches' = dispatches + 1
          /\ DriverAt("model")
     ELSE /\ task' = [task EXCEPT !.status = "failed"]
          /\ UNCHANGED <<dispatches, driver>>
  /\ UNCHANGED <<run, d, receipts, cancelReceipts, results, damaged, job,
                 server, crashes, approvals, exported, effects>>

AttemptFailure ==
  IF task.status = "running"
  THEN [task EXCEPT !.status = IF task.attempts < MaxAttempts THEN "blocked" ELSE "failed"]
  ELSE task

\* Mutant: a late result is registered for a cancelled run.
ModelPassesLate(p) ==
  /\ driver.pc = "model"
  /\ results' = [results EXCEPT ![task.attempts] = p]
  /\ driver' = [driver EXCEPT !.pc = "complete", !.cancel = FALSE]
  /\ UNCHANGED <<run, task, d, receipts, cancelReceipts, damaged, job,
                 server, crashes, history>>

\* Model, tests and review passed; the result is registered unless the run was
\* cancelled meanwhile.  A cancellation that arrives together with the end of
\* the work is swallowed by asyncio.wait_for of Python 3.10 and 3.11.
ModelPasses(p) ==
  /\ driver.pc = "model"
  /\ run.status # "cancelled"
  /\ results' = [results EXCEPT ![task.attempts] = p]
  /\ driver' = [driver EXCEPT !.pc = "complete", !.cancel = FALSE]
  /\ UNCHANGED <<run, task, d, receipts, cancelReceipts, damaged, job,
                 server, crashes, history>>

ModelFails ==
  /\ driver.pc = "model"
  /\ task' = AttemptFailure
  /\ driver' = [driver EXCEPT !.pc = "cycle", !.cancel = FALSE]
  /\ UNCHANGED <<run, d, receipts, cancelReceipts, results, damaged, job,
                 server, crashes, history>>

\* CancelledError is no Exception: repair() ends on it, _execute() handles it.
ModelCancelled ==
  /\ driver.pc = "model"
  /\ driver.cancel
  /\ driver' = IF driver.kind = "repair" THEN NoDriver
               ELSE [driver EXCEPT !.pc = "raise", !.cancel = FALSE]
  /\ UNCHANGED <<store, server, crashes, history>>

CompleteTask ==
  /\ driver.pc = "complete"
  /\ task' = IF task.attempts \in damaged THEN AttemptFailure
             ELSE [task EXCEPT !.status = "completed"]
  /\ DriverAt("cycle")
  /\ UNCHANGED <<run, d, receipts, cancelReceipts, results, damaged, job,
                 server, crashes, history>>

FailRun ==
  /\ driver.pc = "cycle"
  /\ task.status = "failed"
  /\ run' = IF run.status = "running" THEN [run EXCEPT !.status = "failed"] ELSE run
  /\ DriverAt("epilogue")
  /\ UNCHANGED <<task, d, receipts, cancelReceipts, results, damaged, job,
                 server, crashes, history>>

\* prepare() takes the artifact created last.
Latest(a) ==
  /\ results[a] # NoPatch
  /\ \A b \in Attempts : b > a => results[b] = NoPatch

Preparing == driver.pc = "cycle" /\ task.status \in {"completed", "cancelled"}

CanPrepare(a) ==
  /\ Latest(a)
  /\ a \notin damaged
  /\ run.status = "running"
  /\ d.state # "cancelled"

\* Mutants: the revision, or the artifact of the earlier revision, is kept.
OfferSameRevision(a) ==
  /\ Preparing
  /\ CanPrepare(a)
  /\ d.patch # results[a]
  /\ d' = [d EXCEPT !.state = "pending", !.patch = results[a], !.artifact = a,
                    !.expired = FALSE, !.revision = IF @ = 0 THEN 1 ELSE @]
  /\ run' = [status |-> "waiting_approval", approved |-> FALSE]
  /\ DriverAt("epilogue")
  /\ UNCHANGED <<task, receipts, cancelReceipts, results, damaged, job,
                 server, crashes, history>>

OfferOldArtifact(a) ==
  /\ Preparing
  /\ CanPrepare(a)
  /\ d.patch # results[a]
  /\ d' = [d EXCEPT !.state = "pending", !.patch = results[a], !.expired = FALSE,
                    !.revision = @ + 1, !.artifact = IF @ = 0 THEN a ELSE @]
  /\ run' = [status |-> "waiting_approval", approved |-> FALSE]
  /\ DriverAt("epilogue")
  /\ UNCHANGED <<task, receipts, cancelReceipts, results, damaged, job,
                 server, crashes, history>>

Offer(a) ==
  /\ Preparing
  /\ CanPrepare(a)
  /\ d.patch # results[a]
  /\ d' = [state |-> "pending", revision |-> d.revision + 1, patch |-> results[a],
           artifact |-> a, rounds |-> d.rounds, expired |-> FALSE]
  /\ run' = [status |-> "waiting_approval", approved |-> FALSE]
  /\ DriverAt("epilogue")
  /\ UNCHANGED <<task, receipts, cancelReceipts, results, damaged, job,
                 server, crashes, history>>

NoProgress(a) ==
  /\ Preparing
  /\ CanPrepare(a)
  /\ d.patch = results[a]
  /\ d' = [d EXCEPT !.state = "manual_required"]
  /\ run' = [run EXCEPT !.status = "failed"]
  /\ DriverAt("epilogue")
  /\ UNCHANGED <<task, receipts, cancelReceipts, results, damaged, job,
                 server, crashes, history>>

PrepareConflict ==
  /\ Preparing
  /\ \A a \in Attempts : ~CanPrepare(a)
  /\ DriverAt("raise")
  /\ UNCHANGED <<store, server, crashes, history>>

\* execute() marks a failed repair; _execute() finishes the row.
Epilogue ==
  /\ driver.pc = "epilogue"
  /\ d' = IF run.status = "failed" /\ d.state = "repair_queued"
          THEN [d EXCEPT !.state = "repair_failed"] ELSE d
  /\ job' = IF driver.kind = "initial" THEN "finished" ELSE job
  /\ driver' = NoDriver
  /\ UNCHANGED <<run, task, receipts, cancelReceipts, results, damaged,
                 server, crashes, history>>

\* _execute(): except BaseException.
StopFailedRun ==
  /\ driver.pc = "raise" /\ driver.kind = "initial"
  /\ run' = IF run.status \in RunTerminal THEN run
            ELSE [run EXCEPT !.status = IF run.status = "queued" THEN "cancelled" ELSE "failed"]
  /\ DriverAt("jobfailed")
  /\ UNCHANGED <<task, d, receipts, cancelReceipts, results, damaged, job,
                 server, crashes, history>>

JobFailed ==
  /\ driver.pc = "jobfailed"
  /\ job' = "failed"
  /\ driver' = NoDriver
  /\ UNCHANGED <<run, task, d, receipts, cancelReceipts, results, damaged,
                 server, crashes, history>>

\* repair(): except Exception, first the record, then the transition.
MarkRepairFailed ==
  /\ driver.pc = "raise" /\ driver.kind = "repair"
  /\ d' = IF d.state = "repair_queued" THEN [d EXCEPT !.state = "repair_failed"] ELSE d
  /\ DriverAt("repairfailed")
  /\ UNCHANGED <<run, task, receipts, cancelReceipts, results, damaged, job,
                 server, crashes, history>>

FailRepairRun ==
  /\ driver.pc = "repairfailed"
  /\ run' = IF run.status = "running" THEN [run EXCEPT !.status = "failed"] ELSE run
  /\ driver' = NoDriver
  /\ UNCHANGED <<task, d, receipts, cancelReceipts, results, damaged, job,
                 server, crashes, history>>

-----------------------------------------------------------------------------
(***************************************************************************)
(* Crash, shutdown, restart.                                               *)
(***************************************************************************)

Down ==
  /\ crashes < MaxCrashes
  /\ crashes' = crashes + 1
  /\ server' = "down"
  /\ driver' = NoDriver

Crash ==
  /\ server # "down"
  /\ Down
  /\ UNCHANGED <<store, history>>

\* The process dies inside feedback: after the repair intent, before the
\* receipt, with or without the task record saved.
TornFeedback(actor, req, v) ==
  /\ Admit(actor, "feedback", req, v)
  /\ RepairAllowed
  /\ QueueRepair
  /\ \E saved \in BOOLEAN :
       task' = IF saved THEN [task EXCEPT !.status = "ready"] ELSE task
  /\ TakesEffect(req)
  /\ Down
  /\ UNCHANGED <<receipts, cancelReceipts, results, damaged, job,
                 approvals, exported, dispatches>>

\* ... inside cancel or interrupt: the task record is saved, the run is not.
TornCancel(actor, req, v) ==
  /\ Admit(actor, "cancel", req, v)
  /\ task.status \notin TaskTerminal
  /\ CancelTask
  /\ TakesEffect(req)
  /\ Down
  /\ UNCHANGED <<run, d, receipts, cancelReceipts, results, damaged, job,
                 approvals, exported, dispatches>>

TornInterrupt(actor, req, revision) ==
  /\ InterruptAllowed(actor, req, revision)
  /\ task.status \notin TaskTerminal
  /\ CancelTask
  /\ Down
  /\ UNCHANGED <<run, d, receipts, cancelReceipts, results, damaged, job, history>>

\* Application shutdown cancels the asyncio tasks and waits for them.
Shutdown ==
  /\ Handling
  /\ server' = "stopping"
  /\ CancelDriver
  /\ UNCHANGED <<store, crashes, history>>

Stopped ==
  /\ server = "stopping"
  /\ driver.pc = "none"
  /\ server' = "down"
  /\ UNCHANGED <<store, driver, crashes, history>>

\* DispatchStore.interrupt: stop the run of an active row, then the row.
RecoverRun ==
  /\ server = "down"
  /\ run' = IF job \in ActiveJob /\ run.status \notin RunTerminal
            THEN [run EXCEPT !.status = IF run.status = "queued" THEN "cancelled" ELSE "failed"]
            ELSE run
  /\ server' = "rows"
  /\ UNCHANGED <<task, d, receipts, cancelReceipts, results, damaged, job,
                 driver, crashes, history>>

\* Mutant: the rows of terminal runs are skipped.
RecoverRowOfOpenRun ==
  /\ server = "rows"
  /\ job' = IF job \in ActiveJob /\ run.status \notin RunTerminal THEN "interrupted" ELSE job
  /\ server' = "repairs"
  /\ UNCHANGED <<run, task, d, receipts, cancelReceipts, results, damaged,
                 driver, crashes, history>>

RecoverRow ==
  /\ server = "rows"
  /\ job' = IF job \in ActiveJob THEN "interrupted" ELSE job
  /\ server' = "repairs"
  /\ UNCHANGED <<run, task, d, receipts, cancelReceipts, results, damaged,
                 driver, crashes, history>>

\* Mutant: the repair intent is left standing.
RecoverRepairKept ==
  /\ server = "repairs"
  /\ server' = "up"
  /\ UNCHANGED <<store, driver, crashes, history>>

\* _runtime: a durable repair intent is never replayed.  The delivery record is
\* saved first, the transition of the run is a second write.
RecoverRepair ==
  /\ server = "repairs"
  /\ IF run.status = "running" /\ d.state = "repair_queued"
     THEN d' = [d EXCEPT !.state = "repair_failed"] /\ server' = "failing"
     ELSE UNCHANGED d /\ server' = "up"
  /\ UNCHANGED <<run, task, receipts, cancelReceipts, results, damaged, job,
                 driver, crashes, history>>

RecoverRepairRun ==
  /\ server = "failing"
  /\ run' = [run EXCEPT !.status = "failed"]
  /\ server' = "up"
  /\ UNCHANGED <<task, d, receipts, cancelReceipts, results, damaged, job,
                 driver, crashes, history>>

-----------------------------------------------------------------------------
Decide ==
  \E actor \in Principals, req \in Requests :
    \/ \E v \in Versions :
         \/ Approve(actor, req, v)
         \/ Reject(actor, req, v)
         \/ Cancel(actor, req, v)
         \/ Feedback(actor, req, v)
         \/ TornFeedback(actor, req, v)
         \/ TornCancel(actor, req, v)
    \/ \E revision \in 0..MaxAttempts :
         \/ Interrupt(actor, req, revision)
         \/ TornInterrupt(actor, req, revision)

ExportSome == \E actor \in Principals : Export(actor)

Environment == Expire \/ (\E a \in Attempts : Damage(a)) \/ Crash \/ Shutdown

Work ==
  \/ Begin \/ CancelledBeforeStart \/ StartRun
  \/ MarkReady \/ PrepareRetry \/ ClaimAndDispatch
  \/ (\E p \in Patches : ModelPasses(p)) \/ ModelFails \/ ModelCancelled
  \/ CompleteTask \/ FailRun
  \/ (\E a \in Attempts : Offer(a) \/ NoProgress(a)) \/ PrepareConflict
  \/ Epilogue \/ StopFailedRun \/ JobFailed
  \/ MarkRepairFailed \/ FailRepairRun

Recover == Stopped \/ RecoverRun \/ RecoverRow \/ RecoverRepair \/ RecoverRepairRun

Next == Decide \/ ExportSome \/ Environment \/ Work \/ Recover

Spec == Init /\ [][Next]_vars

\* The event loop runs what is runnable, a model call ends (it has a timeout),
\* and a process that went down is started again.  Nobody has to decide.
FairSpec == Spec /\ WF_vars(Work) /\ WF_vars(Recover)

-----------------------------------------------------------------------------
(***************************************************************************)
(* Properties.                                                             *)
(***************************************************************************)

RunRecord  == [status : RunStatus, approved : BOOLEAN]
TaskRecord == [status : TaskStatus, attempts : 0..MaxAttempts]

DeliveryState  == {"none", "pending", "approved", "rejected", "cancelled",
                   "repair_queued", "repair_failed", "manual_required"}
DeliveryRecord == [state : DeliveryState, revision : Nat, patch : Patches \cup {NoPatch},
                   artifact : 0..MaxAttempts, rounds : Nat, expired : BOOLEAN]

DriverPC     == {"none", "queued", "start", "cycle", "model", "complete",
                 "epilogue", "raise", "jobfailed", "repairfailed"}
DriverKind   == {"none", "initial", "repair"}
DriverRecord == [pc : DriverPC, kind : DriverKind, cancel : BOOLEAN]

\* Every variable stays in its domain; attempt_count stays within the budget.
TypeOK ==
  /\ run \in RunRecord
  /\ task \in TaskRecord
  /\ d \in DeliveryRecord
  /\ receipts \in [Requests -> Digests \cup {NoReceipt}]
  /\ cancelReceipts \in [Requests -> Nat \cup {NoReceipt}]
  /\ results \in [Attempts -> Patches \cup {NoPatch}]
  /\ damaged \in SUBSET Attempts
  /\ job \in {"queued", "running", "finished", "failed", "interrupted"}
  /\ driver \in DriverRecord
  /\ server \in {"up", "stopping", "down", "rows", "repairs", "failing"}
  /\ crashes \in 0..MaxCrashes
  /\ approvals \in SUBSET Versions
  /\ exported \in SUBSET [revision : Nat, patch : Patches \cup {NoPatch}]
  /\ effects \in [Requests -> Nat]
  /\ dispatches \in Nat

\* A run is completed only by an approval, of exactly the version its delivery
\* record shows, and delivery_approved says so in no other state: neither a
\* new revision, a cancellation, an interruption nor a crash leaves an old
\* approval standing (act, prepare, interrupt).
ReleaseIsApproved ==
  run.approved \/ run.status = "completed" =>
    /\ run.approved /\ run.status = "completed"
    /\ d.state = "approved"
    /\ Displayed \in approvals

\* Whatever export() handed out is the one version the owner approved, also
\* when artifacts are damaged and the server restarts in between.
OneVersionLeaves ==
  /\ exported \subseteq approvals
  /\ Cardinality(approvals) <= 1

\* A request id changes the run at most once, although the first durable write
\* of feedback and of cancel precedes the one that stores the receipt.
OneEffectPerRequest == \A r \in Requests : effects[r] <= 1

\* Feedback, retries and restarts never give a task more dispatches than its
\* attempt budget, and every revision is paid for by a round and an attempt of its
\* own.  What waits for approval is the newest candidate of the newest attempt, of
\* a completed task, and nothing works on the run any more.
OfferIsLatest ==
  /\ dispatches <= MaxAttempts
  /\ d.rounds <= MaxRounds /\ d.revision <= d.rounds + 1 /\ d.revision <= task.attempts
  /\ run.status = "waiting_approval" =>
       /\ d.state = "pending" /\ ~run.approved
       /\ task.status = "completed" /\ d.artifact = task.attempts
       /\ Latest(d.artifact) /\ results[d.artifact] = d.patch
       /\ driver.pc \in {"none", "epilogue"}

\* Once the server is up and no asyncio task is left, an active row in the
\* dispatch table can only be that of a run interrupted before it started.
RowOwned ==
  server = "up" /\ driver.pc = "none" /\ job \in ActiveJob =>
    job = "queued" /\ run.status = "cancelled"

\* A terminal run keeps its status, its approval flag and its registered
\* results: a late model answer, a replayed decision and a restart change nothing.
TerminalIsFinal ==
  [][run.status \in RunTerminal => UNCHANGED <<run, results>>]_vars

-----------------------------------------------------------------------------
(***************************************************************************)
(* The inductive invariant behind the safety properties.                   *)
(***************************************************************************)

\* Where the asyncio task can be, given the process, the run and the task.
DriverInv ==
  /\ server \notin {"up", "stopping"} => driver.pc = "none"
  /\ server = "failing" => run.status = "running"
  /\ run.status = "waiting_approval" =>
       driver.pc \in {"none", "epilogue"} /\ task.status = "completed"
  /\ driver.pc \in {"cycle", "model", "complete"} => run.status \in {"running", "cancelled"}
  /\ driver.pc # "none" /\ run.status \in {"queued", "running"} => task.status # "cancelled"

\* The only approval is that of the displayed version of a completed run.
ReleaseInv ==
  /\ run.approved = (run.status = "completed")
  /\ run.status = "completed" => d.state = "approved"
  /\ approvals = IF run.status = "completed" THEN {Displayed} ELSE {}
  /\ exported \subseteq approvals

\* No further decision can be admitted.
Wedged ==
  \/ run.status \in RunTerminal
  \/ /\ run.status = "running" /\ driver.pc = "none"
     /\ \/ d.state = "repair_failed"
        \/ d.state = "repair_queued" /\ server \in {"down", "rows", "repairs"}

\* A decision whose receipt was lost to a crash leaves nothing to decide.
ReceiptInv ==
  \A r \in Requests :
    \/ effects[r] = 0
    \/ effects[r] = 1 /\ (receipts[r] # NoReceipt \/ Wedged)

\* Every revision has an attempt of its own, the displayed one that of its
\* artifact; one further round is paid before the run is worked on again.
OfferInv ==
  /\ dispatches = task.attempts
  /\ d.rounds <= MaxRounds /\ d.revision <= d.rounds + 1
  /\ run.status \in {"queued", "running"} => d.revision <= d.rounds
  /\ d.revision <= d.artifact /\ d.artifact <= task.attempts
  /\ d.artifact # 0 => results[d.artifact] = d.patch /\ d.patch # NoPatch
  /\ \A b \in Attempts : results[b] # NoPatch => b <= task.attempts
  /\ driver.pc \in {"model", "complete"} => d.artifact < task.attempts
  /\ driver.pc = "complete" \/ task.status = "completed" =>
       task.attempts # 0 /\ results[task.attempts] # NoPatch
  /\ run.status = "waiting_approval" => d.state = "pending" /\ d.artifact = task.attempts

\* The first driver owns the row, unless it was cancelled before it started.
RowInv ==
  /\ driver.kind = "initial" /\ driver.pc # "none" =>
       job = IF driver.pc = "queued" THEN "queued" ELSE "running"
  /\ driver.pc # "none" => driver.kind # "none"
  /\ driver.pc = "repairfailed" => driver.kind = "repair"
  /\ server \in {"repairs", "failing"} => job \notin ActiveJob
  /\ server = "up" /\ job \in ActiveJob =>
       \/ driver.kind = "initial" /\ driver.pc # "none"
          /\ (driver.pc = "queued" /\ driver.cancel => run.status = "cancelled")
       \/ job = "queued" /\ run.status = "cancelled"

\* Between the crash inside a decision and the end of the restart, the lost
\* receipt, the state of the run and the driver exclude a second admission.
IInv == DriverInv /\ ReleaseInv /\ ReceiptInv /\ OfferInv /\ RowInv

-----------------------------------------------------------------------------
\* A failed repair whose record was saved and whose transition was not.
OrphanedRepair == run.status = "running" /\ d.state = "repair_failed"

\* With the loop and restarts fair, work on a run ends: it waits for a
\* decision, is terminal, or is stuck between the two writes of a failed repair.
RunSettles ==
  run.status \in {"queued", "running"} ~>
    run.status \notin {"queued", "running"} \/ OrphanedRepair

\* "interrupted runs fail/cancel rather than being silently replayed"
\* (docs/t11-t16.md): no run is left queued or running without a task driving it.
InterruptedRunsStop ==
  server = "up" /\ driver.pc = "none" => run.status \notin {"queued", "running"}

\* The run, seen as the approval of versions it promises to be.
Approval == INSTANCE VersionApproval WITH
  phase <- CASE run.status \in {"queued", "running"} -> "working"
             [] run.status = "waiting_approval" -> "offered"
             [] run.status = "completed" -> "released"
             [] OTHER -> "closed",
  offer <- Displayed,
  released <- approvals

\* Only a version on offer is released, at most one, with a fresh revision for
\* every offer; see VersionApproval.
ImplementsApproval == Approval!Spec
=============================================================================
