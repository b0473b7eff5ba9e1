-------------------------- MODULE WorkflowController --------------------------
(***************************************************************************)
(* One run of the Workflow Controller (app/services/workflow_controller.py, *)
(* execution.py, orchestration.py, product_api.py): tasks with            *)
(* dependencies, a policy for each, approvals, claims, attempts, and any    *)
(* number of HTTP requests that drive the run.                              *)
(*                                                                          *)
(* A driver is one execution of run_until_terminal.  The server has one     *)
(* event loop, so drivers interleave only where the code awaits: at the     *)
(* dispatch of a task (pc "call").  Between two awaits a driver is Busy and *)
(* its steps are separate only because a crash can fall between them; the   *)
(* Torn... actions are crashes between the writes of one operation.         *)
(***************************************************************************)
EXTENDS Naturals, FiniteSets, Lifecycle

CONSTANTS
  Tasks,          \* the tasks of the run
  Rank,           \* their order by creation time: a number for each
  Deps,           \* what each depends on
  Policy,         \* what the gate says of each: "allow", "deny" or "approve"
  ExpectedDenied, \* tasks marked expected_policy_disposition = deny
  Drivers,        \* the HTTP requests that may arrive
  Contents,       \* what a model may answer
  NoContent,      \* no output file
  MaxAttempts,    \* Task.max_attempts
  CycleLimit,     \* the largest max_cycles a request may ask for (1000)
  MaxCycles,      \* max_cycles of each request
  MaxCrashes      \* bound on crashes

ASSUME NaturalLimits ==
  /\ MaxAttempts \in Nat \ {0} /\ MaxCrashes \in Nat
  /\ CycleLimit \in Nat /\ MaxCycles \in [Drivers -> 1..CycleLimit]
ASSUME NoContentIsNone == NoContent \notin Contents
ASSUME TaskGraph ==
  /\ Tasks # {} /\ Rank \in [Tasks -> Nat] /\ Deps \in [Tasks -> SUBSET Tasks]
  /\ \A t, u \in Tasks : Rank[t] = Rank[u] => t = u
  /\ Policy \in [Tasks -> {"allow", "deny", "approve"}] /\ ExpectedDenied \subseteq Tasks

VARIABLES
  run,       \* Run.status
  plan,      \* status of the approval of the whole plan
  task,      \* the Task records
  approval,  \* approval[t][n]: status of the approval asked for under claim n
  expired,   \* the approvals <<t, n>> whose expires_at has passed
  driver,    \* the requests being served
  called,    \* history: the dispatches <<t, n>> of a task under a claim
  crashes,
  overlapped \* history: a request has arrived while another was being served

vars == <<run, plan, task, approval, expired, driver, called, crashes, overlapped>>

Attempt == 1..MaxAttempts
ApprovalStatus == {"none", "pending", "approved", "rejected"}

\* Claims are numbered: a new claim takes a fresh token together with a new
\* attempt_count, so the token is that number; 0 is no claim.  link is
\* approval_id.  part is the first file of the output bundle, out says
\* that the registered bundle is whole.
TaskRecord ==
  [status : TaskStatus, claim : 0..MaxAttempts, attempts : 0..MaxAttempts,
   link : 0..MaxAttempts, part : Contents \cup {NoContent}, out : BOOLEAN]

\* What a driver remembers of a task from the snapshot it iterates over.
View == [claim : 0..MaxAttempts, approved : BOOLEAN, out : BOOLEAN]
Blank == [claim |-> 0, approved |-> FALSE, out |-> FALSE]
NoView == [t \in Tasks |-> Blank]

Sync == {"enter", "recover", "blocked", "activate", "ready", "returned", "settle"}
Ended == {"ended", "raised"}
DriverRecord ==
  [pc : Sync \cup Ended \cup {"new", "call"}, todo : SUBSET Tasks, view : [Tasks -> View],
   at : Tasks, via : {"recover", "ready"}, cycle : 0..CycleLimit, progress : BOOLEAN]

First(S) == CHOOSE t \in S : \A u \in S : Rank[t] <= Rank[u]
Idle(pc) == [pc |-> pc, todo |-> {}, view |-> NoView, at |-> First(Tasks), via |-> "ready",
             cycle |-> 0, progress |-> FALSE]

WithStatus(s) == {t \in Tasks : task[t].status = s}
AnyFailed == WithStatus("failed") # {}

\* A dependency counts when completed, or cancelled by a denial that was
\* expected (_dependencies_completed, mark_task_ready).
Satisfied(u) == \/ task[u].status = "completed"
                \/ task[u].status = "cancelled" /\ u \in ExpectedDenied

\* The tasks as they are created, some of them activated.
New(active) ==
  [t \in Tasks |-> [status |-> IF t \in active THEN "ready" ELSE "pending", claim |-> 0,
                    attempts |-> 0, link |-> 0, part |-> NoContent, out |-> FALSE]]

\* A run as its creator leaves it: queued (the insurance workflow), started
\* with its roots activated, or waiting for the approval of the plan.
Init ==
  /\ \/ run = "queued" /\ plan = "none" /\ task = New({})
     \/ run = "running" /\ plan = "none" /\ task = New({t \in Tasks : Deps[t] = {}})
     \/ run = "waiting_approval" /\ plan = "pending" /\ task = New({})
  /\ approval = [t \in Tasks |-> [n \in Attempt |-> "none"]]
  /\ expired = {}
  /\ driver = [d \in Drivers |-> Idle("new")]
  /\ called = {}
  /\ crashes = 0
  /\ overlapped = FALSE

(***************************************************************************)
(* The event loop.                                                          *)
(***************************************************************************)
Quiet == \A d \in Drivers : driver[d].pc \notin Sync
Active(d) == driver[d].pc \in Sync \cup {"call"}

Goto(d, pc, todo) == driver' = [driver EXCEPT ![d].pc = pc, ![d].todo = todo]
\* The task at the head of the loop is done.
Done(d) == driver' = [driver EXCEPT ![d].todo = @ \ {First(@)}, ![d].progress = TRUE,
                                    ![d].view[First(driver[d].todo)] = Blank]
End(d) == driver' = [driver EXCEPT ![d] = Idle("ended")]
Raise(d) == driver' = [driver EXCEPT ![d] = Idle("raised")]

CanBecome(t, s) == s \in TaskTransitions[task[t].status]
SetStatus(t, s) == task' = [task EXCEPT ![t].status = s]

\* The snapshot a loop of run_until_terminal iterates over.
Seen(S) == [t \in Tasks |->
  IF t \in S THEN [claim |-> task[t].claim,
                   approved |-> /\ task[t].link # 0 /\ task[t].link = task[t].claim
                                /\ approval[t][task[t].link] = "approved",
                   out |-> task[t].out]
  ELSE Blank]

\* Mutant: the status of the approval is not looked at.
ValidAnyApproval(t, v) == <<t, v.claim>> \notin expired

\* _has_valid_approved_task: of the snapshot, but expiry is read from the clock.
ValidApproval(t, v) == v.approved /\ <<t, v.claim>> \notin expired

\* Mutant: any call of the assigned agent counts, whatever its token.
OwnedByAgent(t, token) == task[t].claim # 0 /\ task[t].status = "running"

\* Ownership, as complete_claimed_task and record_attempt_failure check it.
Owned(t, token) == task[t].claim = token /\ token # 0 /\ task[t].status = "running"

FailedAttempt(t, n) ==
  [task[t] EXCEPT !.status = IF n >= MaxAttempts THEN "failed" ELSE "blocked",
                  !.claim = 0, !.attempts = n]
RecordFailure(t) == task' = [task EXCEPT ![t] = FailedAttempt(t, task[t].attempts)]
Complete(t) == task' = [task EXCEPT ![t].status = "completed", ![t].claim = 0]

(***************************************************************************)
(* Requests.                                                                *)
(***************************************************************************)
\* create_run after materialize, or retry_run.
Drive(d) ==
  /\ Quiet /\ driver[d].pc = "new"
  /\ Goto(d, "enter", {})
  /\ UNCHANGED <<run, plan, task, approval, expired, called, crashes>>

Target(decision) == IF decision = "approved" THEN "running" ELSE "failed"

\* Who may be asked: the approval is pending, has not expired, and the task
\* can take the status that follows from the decision.
Resolvable(t, n, decision) ==
  /\ approval[t][n] = "pending" /\ <<t, n>> \notin expired
  /\ CanBecome(t, Target(decision))

\* Mutant: the run is not resumed or failed with its task.
ResolveTaskOnly(d, t, n, decision) ==
  /\ Quiet /\ driver[d].pc = "new" /\ Resolvable(t, n, decision)
  /\ approval' = [approval EXCEPT ![t][n] = decision]
  /\ SetStatus(t, Target(decision)) /\ Goto(d, "enter", {})
  /\ UNCHANGED <<run, plan, expired, called, crashes>>

Resolve(d, t, n, decision) ==
  /\ Quiet /\ driver[d].pc = "new"
  /\ Resolvable(t, n, decision)
  /\ approval' = [approval EXCEPT ![t][n] = decision]
  /\ SetStatus(t, Target(decision))
  /\ run' = IF run = "waiting_approval" THEN Target(decision) ELSE run
  /\ Goto(d, "enter", {})
  /\ UNCHANGED <<plan, expired, called, crashes>>

ResolvePlan(d, decision) ==
  /\ Quiet /\ driver[d].pc = "new"
  /\ plan = "pending" /\ Target(decision) \in RunTransitions[run]
  /\ plan' = decision /\ run' = Target(decision)
  /\ Goto(d, "enter", {})
  /\ UNCHANGED <<task, approval, expired, called, crashes>>

Expire(t, n) ==
  /\ approval[t][n] \in {"pending", "approved"} /\ <<t, n>> \notin expired
  /\ expired' = expired \cup {<<t, n>>}
  /\ UNCHANGED <<run, plan, task, approval, driver, called, crashes>>

(***************************************************************************)
(* run_until_terminal.                                                      *)
(***************************************************************************)
NewCycle(d) ==
  driver' = [driver EXCEPT ![d] =
    [Idle("recover") EXCEPT !.todo = WithStatus("running"), !.view = Seen(WithStatus("running")),
                            !.cycle = driver[d].cycle + 1]]

Enter(d) ==
  /\ driver[d].pc = "enter"
  /\ \/ run \in RunTerminal \cup {"waiting_approval"} /\ run' = run /\ End(d)
     \/ run \in {"queued", "running"} /\ run' = "running" /\ NewCycle(d)
  /\ UNCHANGED <<plan, task, approval, expired, called, crashes>>

\* _dispatch: the driver is suspended until the adapter answers.  at and
\* view[at] keep the task and the claim it is called for.
Dispatch(d, t, token, via) ==
  /\ driver' = [driver EXCEPT ![d] =
       [driver[d] EXCEPT !.pc = "call", !.at = t, !.via = via, !.todo = driver[d].todo \ {t},
                         !.view = [driver[d].view EXCEPT ![t] = [Blank EXCEPT !.claim = token]],
                         !.progress = TRUE]]
  /\ called' = called \cup {<<t, token>>}

\* A RUNNING task of the snapshot, in the order of _recover_running_task.
RecoverUnclaimed(d, t) ==
  /\ driver[d].view[t].claim = 0
  /\ IF CanBecome(t, "blocked") THEN SetStatus(t, "blocked") /\ Done(d)
                                ELSE task' = task /\ Raise(d)
  /\ called' = called

RecoverFinished(d, t) ==
  /\ driver[d].view[t].claim # 0 /\ driver[d].view[t].out
  /\ IF Owned(t, driver[d].view[t].claim) THEN Complete(t) /\ Done(d)
                                          ELSE task' = task /\ Raise(d)
  /\ called' = called

MayResume(d, t) ==
  \/ Policy[t] = "allow"
  \/ Policy[t] = "approve" /\ ValidApproval(t, driver[d].view[t])

RecoverResume(d, t) ==
  /\ driver[d].view[t].claim # 0 /\ ~driver[d].view[t].out /\ MayResume(d, t)
  /\ Dispatch(d, t, driver[d].view[t].claim, "recover")
  /\ task' = task

Unresumable(d, t) ==
  driver[d].view[t].claim # 0 /\ ~driver[d].view[t].out /\ ~MayResume(d, t)

RecoverRefused(d, t) ==
  /\ Unresumable(d, t)
  /\ IF Owned(t, driver[d].view[t].claim) THEN RecordFailure(t) /\ Done(d)
                                          ELSE task' = task /\ Raise(d)
  /\ called' = called

Recover(d) ==
  /\ driver[d].pc = "recover"
  /\ \/ driver[d].todo = {} /\ Goto(d, "blocked", WithStatus("blocked")) /\ UNCHANGED <<task, called>>
     \/ /\ driver[d].todo # {}
        /\ LET t == First(driver[d].todo) IN
             \/ RecoverUnclaimed(d, t) \/ RecoverFinished(d, t)
             \/ RecoverResume(d, t) \/ RecoverRefused(d, t)
  /\ UNCHANGED <<run, plan, approval, expired, crashes>>

\* _fail_run fails the run only if it is RUNNING, and returns anyway.
FailRun(d) == run' = (IF run = "running" THEN "failed" ELSE run) /\ End(d)

\* Mutant: one satisfied dependency is enough.
RunnableAny == {t \in WithStatus("pending") : Deps[t] = {} \/ \E u \in Deps[t] : Satisfied(u)}

Runnable == {t \in WithStatus("pending") : \A u \in Deps[t] : Satisfied(u)}

\* BLOCKED tasks are retried or failed; then the run fails if a task has.
Blocked(d) ==
  /\ driver[d].pc = "blocked"
  /\ \/ /\ driver[d].todo # {} /\ run' = run /\ Done(d)
        /\ LET t == First(driver[d].todo) IN
             SetStatus(t, IF task[t].attempts < MaxAttempts THEN "ready" ELSE "failed")
     \/ driver[d].todo = {} /\ AnyFailed /\ FailRun(d) /\ task' = task
     \/ driver[d].todo = {} /\ ~AnyFailed /\ Goto(d, "activate", Runnable) /\ UNCHANGED <<run, task>>
  /\ UNCHANGED <<plan, approval, expired, called, crashes>>

Activate(d) ==
  /\ driver[d].pc = "activate"
  /\ \/ driver[d].todo # {} /\ SetStatus(First(driver[d].todo), "ready") /\ Done(d)
     \/ /\ driver[d].todo = {} /\ task' = task
        /\ driver' = [driver EXCEPT ![d].pc = "ready", ![d].todo = WithStatus("ready"),
                                    ![d].view = Seen(WithStatus("ready"))]
  /\ UNCHANGED <<run, plan, approval, expired, called, crashes>>

(***************************************************************************)
(* The READY tasks of the snapshot.  An await at an earlier one may have    *)
(* let other drivers change the later ones.                                 *)
(***************************************************************************)
CanClaim(t) == task[t].status = "ready" /\ task[t].claim = 0 /\ task[t].attempts < MaxAttempts

\* Mutant: the status is written whatever it was.
CloseAnyway(d, t, s) == SetStatus(t, s) /\ Done(d)

\* block_task, then fail_task or cancel_task; the first may be illegal by now.
Close(d, t, s) ==
  IF CanBecome(t, "blocked") THEN SetStatus(t, s) /\ Done(d) ELSE task' = task /\ Raise(d)

Deny(d, t) ==
  /\ Policy[t] = "deny"
  /\ Close(d, t, IF t \in ExpectedDenied THEN "cancelled" ELSE "failed")
  /\ UNCHANGED <<run, approval, called>>

NeedsApproval(d, t) == Policy[t] = "approve" /\ ~ValidApproval(t, driver[d].view[t])

\* _assert_no_active_task_approval.
AwaitsDecision(t) == task[t].link # 0 /\ approval[t][task[t].link] = "pending"

\* Mutant: the approval is asked for without claiming the task.
AskApprovalUnclaimed(d, t) ==
  /\ NeedsApproval(d, t) /\ CanClaim(t) /\ ~AwaitsDecision(t)
  /\ LET n == task[t].attempts + 1 IN
       /\ task' = [task EXCEPT ![t].status = "waiting_approval", ![t].link = n]
       /\ approval' = [approval EXCEPT ![t][n] = "pending"]
  /\ run' = IF run = "running" THEN "waiting_approval" ELSE run
  /\ Done(d) /\ called' = called

\* claim_task and request_approval.
AskApproval(d, t) ==
  /\ NeedsApproval(d, t) /\ CanClaim(t) /\ ~AwaitsDecision(t)
  /\ LET n == task[t].attempts + 1 IN
       /\ task' = [task EXCEPT ![t].status = "waiting_approval", ![t].claim = n,
                               ![t].attempts = n, ![t].link = n]
       /\ approval' = [approval EXCEPT ![t][n] = "pending"]
  /\ run' = IF run = "running" THEN "waiting_approval" ELSE run
  /\ Done(d) /\ called' = called

\* claim_task succeeds, request_approval refuses a second pending approval.
AskAgain(d, t) ==
  /\ NeedsApproval(d, t) /\ CanClaim(t) /\ AwaitsDecision(t)
  /\ task' = [task EXCEPT ![t] = FailedAttempt(t, task[t].attempts + 1)]
  /\ Done(d) /\ UNCHANGED <<run, approval, called>>

\* claim_task refuses: a RUNNING task loses its attempt, any other is closed.
AskRefused(d, t) ==
  /\ NeedsApproval(d, t) /\ ~CanClaim(t)
  /\ IF task[t].status # "running" THEN Close(d, t, "failed")
     ELSE IF task[t].claim # 0 THEN RecordFailure(t) /\ Done(d)
     ELSE task' = task /\ Raise(d)
  /\ UNCHANGED <<run, approval, called>>

Executes(d, t) ==
  \/ Policy[t] = "allow"
  \/ Policy[t] = "approve" /\ ValidApproval(t, driver[d].view[t])

ClaimAndDispatch(d, t) ==
  /\ Executes(d, t) /\ CanClaim(t)
  /\ LET n == task[t].attempts + 1 IN
       /\ task' = [task EXCEPT ![t].status = "running", ![t].claim = n, ![t].attempts = n]
       /\ Dispatch(d, t, n, "ready")
  /\ UNCHANGED <<run, approval>>

\* The exception of claim_task is swallowed; only a READY task is closed.
ClaimRefused(d, t) ==
  /\ Executes(d, t) /\ ~CanClaim(t)
  /\ IF task[t].status = "ready" THEN SetStatus(t, "failed") ELSE task' = task
  /\ Done(d) /\ UNCHANGED <<run, approval, called>>

Ready(d) ==
  /\ driver[d].pc = "ready"
  /\ \/ driver[d].todo = {} /\ Goto(d, "settle", {}) /\ UNCHANGED <<run, task, approval, called>>
     \/ /\ driver[d].todo # {}
        /\ LET t == First(driver[d].todo) IN
             \/ Deny(d, t) \/ AskApproval(d, t) \/ AskAgain(d, t) \/ AskRefused(d, t)
             \/ ClaimAndDispatch(d, t) \/ ClaimRefused(d, t)
  /\ UNCHANGED <<plan, expired, crashes>>

(***************************************************************************)
(* The end of a dispatch: the adapter has written its files, or raised.     *)
(***************************************************************************)
Resumed(d) == driver[d].pc = "call" /\ Quiet

\* Mutant: the bundle is taken to be whole after its first file.
CallSucceedsUnverified(d, c) ==
  /\ Resumed(d) /\ task[driver[d].at].part \in {NoContent, c}
  /\ task' = [task EXCEPT ![driver[d].at].part = c]
  /\ driver' = [driver EXCEPT ![d].pc = "returned"]
  /\ UNCHANGED <<run, plan, approval, expired, called, crashes>>

\* The stored files are write-once: a different answer is a conflict.
CallSucceeds(d, c) ==
  /\ Resumed(d) /\ task[driver[d].at].part \in {NoContent, c}
  /\ task' = [task EXCEPT ![driver[d].at].part = c, ![driver[d].at].out = TRUE]
  /\ driver' = [driver EXCEPT ![d].pc = "returned"]
  /\ UNCHANGED <<run, plan, approval, expired, called, crashes>>

Back(d) == [driver[d] EXCEPT !.pc = driver[d].via, !.view[driver[d].at] = Blank, !.at = First(Tasks)]

\* An exception out of _execute_claimed_task ends a driver that was
\* recovering; in the READY loop it is swallowed, and a task found READY closed.
Unowned(d, t, files) ==
  \/ driver[d].via = "recover" /\ Raise(d) /\ task' = files
  \/ /\ driver[d].via = "ready" /\ driver' = [driver EXCEPT ![d] = Back(d)]
     /\ task' = IF task[t].status = "ready" THEN [files EXCEPT ![t].status = "failed"] ELSE files

CallFails(d, c) ==
  /\ Resumed(d)
  /\ LET t == driver[d].at
         files == IF task[t].part = NoContent THEN [task EXCEPT ![t].part = c] ELSE task
     IN IF Owned(t, driver[d].view[t].claim)
        THEN /\ task' = [files EXCEPT ![t] = [FailedAttempt(t, task[t].attempts) EXCEPT !.part = files[t].part]]
             /\ driver' = [driver EXCEPT ![d] = Back(d)]
        ELSE Unowned(d, t, files)
  /\ UNCHANGED <<run, plan, approval, expired, called, crashes>>

CompleteClaimed(d) ==
  /\ driver[d].pc = "returned"
  /\ LET t == driver[d].at IN
       IF Owned(t, driver[d].view[t].claim)
       THEN Complete(t) /\ driver' = [driver EXCEPT ![d] = Back(d)]
       ELSE Unowned(d, t, task)
  /\ UNCHANGED <<run, plan, approval, expired, called, crashes>>

\* The end of a cycle.
AllClosed == \A t \in Tasks : task[t].status \in {"completed", "cancelled"}
Waits == WithStatus("waiting_approval") # {}

\* Mutant: one cycle more than asked for.
SettleOneMore(d) ==
  /\ driver[d].pc = "settle"
  /\ \/ AnyFailed /\ FailRun(d)
     \/ AllClosed /\ run = "running" /\ run' = "completed" /\ End(d)
     \/ AllClosed /\ run # "running" /\ run' = run /\ Raise(d)
     \/ ~AnyFailed /\ Waits /\ run' = run /\ End(d)
     \/ /\ ~AnyFailed /\ ~AllClosed /\ ~Waits
        /\ IF driver[d].progress /\ driver[d].cycle <= MaxCycles[d]
           THEN NewCycle(d) /\ run' = run ELSE FailRun(d)
  /\ UNCHANGED <<plan, task, approval, expired, called, crashes>>

\* Mutant: the driver polls for the approval instead of returning.
SettlePolls(d) ==
  /\ driver[d].pc = "settle" /\ run' = run
  /\ IF Waits THEN Goto(d, "recover", {}) ELSE End(d)
  /\ UNCHANGED <<plan, task, approval, expired, called, crashes>>

Settle(d) ==
  /\ driver[d].pc = "settle"
  /\ \/ AnyFailed /\ FailRun(d)
     \/ AllClosed /\ run = "running" /\ run' = "completed" /\ End(d)
     \/ AllClosed /\ run # "running" /\ run' = run /\ Raise(d)
     \/ ~AnyFailed /\ Waits /\ run' = run /\ End(d)
     \/ /\ ~AnyFailed /\ ~AllClosed /\ ~Waits
        /\ IF driver[d].progress /\ driver[d].cycle < MaxCycles[d]
           THEN NewCycle(d) /\ run' = run ELSE FailRun(d)
  /\ UNCHANGED <<plan, task, approval, expired, called, crashes>>

(***************************************************************************)
(* Crashes.  The process loses its drivers; nothing is restarted by itself: *)
(* a later request recovers the run.  A Torn action leaves a prefix of the  *)
(* writes of one operation.                                                 *)
(***************************************************************************)
CrashAll(lost) ==
  /\ crashes < MaxCrashes /\ crashes' = crashes + 1
  /\ driver' = [d \in Drivers |-> IF Active(d) \/ d \in lost THEN Idle("ended") ELSE driver[d]]

Crash ==
  /\ \E d \in Drivers : Active(d)
  /\ CrashAll({})
  /\ UNCHANGED <<run, plan, task, approval, expired, called>>

AtTask(d, pc, t) == driver[d].pc = pc /\ driver[d].todo # {} /\ t = First(driver[d].todo)

\* RUNNING is saved before the claim and the attempt count.
TornClaim(d, t) ==
  /\ AtTask(d, "ready", t) /\ CanClaim(t) /\ (NeedsApproval(d, t) \/ Executes(d, t))
  /\ SetStatus(t, "running") /\ CrashAll({})
  /\ UNCHANGED <<run, plan, approval, expired, called>>

\* Claim, approval record, link from the task, status of the task, status of the run.
TornAsk(d, t) ==
  /\ AtTask(d, "ready", t) /\ NeedsApproval(d, t) /\ CanClaim(t)
  /\ LET n == task[t].attempts + 1
         claimed == [task EXCEPT ![t].status = "running", ![t].claim = n, ![t].attempts = n]
         asked == [approval EXCEPT ![t][n] = "pending"]
     IN \/ task' = claimed /\ approval' = approval
        \/ /\ ~AwaitsDecision(t) /\ approval' = asked
           /\ \/ task' = claimed
              \/ task' = [claimed EXCEPT ![t].link = n]
              \/ task' = [claimed EXCEPT ![t].link = n, ![t].status = "waiting_approval"]
  /\ CrashAll({})
  /\ UNCHANGED <<run, plan, expired, called>>

\* The status is saved before the claim is cleared.
TornFailure(d, t) ==
  /\ \/ AtTask(d, "recover", t) /\ Unresumable(d, t)
     \/ Resumed(d) /\ t = driver[d].at
  /\ Owned(t, driver[d].view[t].claim)
  /\ SetStatus(t, FailedAttempt(t, task[t].attempts).status) /\ CrashAll({})
  /\ UNCHANGED <<run, plan, approval, expired, called>>

\* BLOCKED is saved before FAILED or CANCELLED.
TornClose(d, t) ==
  /\ AtTask(d, "ready", t) /\ CanBecome(t, "blocked")
  /\ \/ Policy[t] = "deny"
     \/ NeedsApproval(d, t) /\ ~CanClaim(t) /\ task[t].status # "running"
     \/ Executes(d, t) /\ ~CanClaim(t) /\ task[t].status = "ready"
  /\ SetStatus(t, "blocked") /\ CrashAll({})
  /\ UNCHANGED <<run, plan, approval, expired, called>>

\* The approval is saved before the task, the task before the run.
TornResolve(d, t, n, decision) ==
  /\ Quiet /\ driver[d].pc = "new" /\ Resolvable(t, n, decision)
  /\ approval' = [approval EXCEPT ![t][n] = decision]
  /\ SetStatus(t, Target(decision)) \/ task' = task
  /\ CrashAll({d})
  /\ UNCHANGED <<run, plan, expired, called>>

TornResolvePlan(d, decision) ==
  /\ Quiet /\ driver[d].pc = "new"
  /\ plan = "pending" /\ Target(decision) \in RunTransitions[run]
  /\ plan' = decision
  /\ CrashAll({d})
  /\ UNCHANGED <<run, task, approval, expired, called>>

\* The first output file is registered, the others are not.
TornWrite(d, c) ==
  /\ Resumed(d) /\ task[driver[d].at].part = NoContent
  /\ task' = [task EXCEPT ![driver[d].at].part = c]
  /\ CrashAll({})
  /\ UNCHANGED <<run, plan, approval, expired, called>>

Step(d) ==
  /\ \/ Enter(d) \/ Recover(d) \/ Blocked(d) \/ Activate(d) \/ Ready(d)
     \/ \E c \in Contents : CallSucceeds(d, c)
     \/ \E c \in Contents \cup {NoContent} : CallFails(d, c)
     \/ CompleteClaimed(d) \/ Settle(d)
  /\ UNCHANGED overlapped

Request(d) ==
  /\ \/ Drive(d)
     \/ \E decision \in {"approved", "rejected"} :
          \/ ResolvePlan(d, decision)
          \/ \E t \in Tasks, n \in Attempt : Resolve(d, t, n, decision)
  /\ overlapped' = (overlapped \/ \E e \in Drivers : Active(e))

Torn(d) ==
  /\ \/ \E t \in Tasks : TornClaim(d, t) \/ TornAsk(d, t) \/ TornFailure(d, t) \/ TornClose(d, t)
     \/ \E decision \in {"approved", "rejected"} :
          \/ TornResolvePlan(d, decision)
          \/ \E t \in Tasks, n \in Attempt : TornResolve(d, t, n, decision)
     \/ \E c \in Contents : TornWrite(d, c)
  /\ UNCHANGED overlapped

Next ==
  \/ \E d \in Drivers : Step(d) \/ Request(d) \/ Torn(d)
  \/ \E t \in Tasks, n \in Attempt : Expire(t, n) /\ UNCHANGED overlapped
  \/ Crash /\ UNCHANGED overlapped

Spec == Init /\ [][Next]_vars

\* The event loop resumes what is runnable; a dispatch ends, because every
\* model call has a timeout.
FairSpec == Spec /\ \A d \in Drivers : WF_vars(Step(d))

(***************************************************************************)
(* Properties.                                                              *)
(***************************************************************************)
\* Type correctness.
TypeOK ==
  /\ run \in RunStatus /\ plan \in ApprovalStatus
  /\ task \in [Tasks -> TaskRecord]
  /\ approval \in [Tasks -> [Attempt -> ApprovalStatus]]
  /\ expired \subseteq Tasks \X Attempt
  /\ driver \in [Drivers -> DriverRecord]
  /\ called \subseteq Tasks \X Attempt
  /\ crashes \in 0..MaxCrashes
  /\ overlapped \in BOOLEAN

\* Whatever drivers, retries and crashes do, a task is given to an agent only
\* after the plan was approved (if asked for), its dependencies are
\* satisfied, and, when the policy demands it, under the very claim for which
\* an approval was asked and granted; a denied task never is.
CalledOnlyWhenAllowed ==
  \A p \in called :
    /\ plan \in {"none", "approved"}
    /\ \A u \in Deps[p[1]] : Satisfied(u)
    /\ \/ Policy[p[1]] = "allow"
       \/ Policy[p[1]] = "approve" /\ approval[p[1]][p[2]] = "approved"

\* A run is COMPLETED only with a whole output bundle for every task, except
\* those whose denial was expected; late answers cannot undo that.
CompletedRunIsWhole ==
  run = "completed" =>
    \A t \in Tasks : \/ task[t].status = "completed" /\ task[t].out
                     \/ task[t].status = "cancelled" /\ t \in ExpectedDenied

\* A claim belongs to the latest attempt, and only a task that was claimed
\* waits for an approval, under the claim it asked it for.
ClaimIsCurrent ==
  \A t \in Tasks :
    /\ task[t].claim \in {0, task[t].attempts}
    /\ task[t].status = "waiting_approval" => task[t].claim # 0 /\ task[t].link = task[t].claim

\* A late answer to an attempt that is over never completes a later one: who
\* completes a task holds its current claim.
CompletedByClaimHolder ==
  [][\A t \in Tasks :
       task[t].status # "completed" /\ task'[t].status = "completed" =>
         \E d \in Drivers : /\ driver[d].pc \in Sync
                            /\ driver[d].view[t].claim = task[t].claim]_vars

\* Terminal runs, terminal tasks and decided approvals stay as they are,
\* whichever driver is still at work.
EndsAreFinal ==
  [][/\ run \in RunTerminal => run' = run
     /\ \A t \in Tasks :
          /\ task[t].status \in TaskTerminal => task'[t].status = task[t].status
          /\ \A n \in Attempt :
               approval[t][n] \in {"approved", "rejected"} => approval'[t][n] = approval[t][n]]_vars

\* Every request that is taken up is answered: run_until_terminal ends.
RequestsEnd == \A d \in Drivers : Active(d) ~> ~Active(d)

\* "Stop safely on approval wait" (docs/workflow-controller.md): a run that
\* waits for an approval has one that can still be decided (time aside, and
\* unless a crash fell between two records).
WaitIsAnswerable ==
  run = "waiting_approval" /\ Quiet /\ crashes = 0 =>
    \/ plan = "pending"
    \/ \E t \in Tasks, n \in Attempt : approval[t][n] = "pending" /\ CanBecome(t, "running")

\* As long as requests come one at a time, run_until_terminal never ends in an
\* exception, crashes before it included, and it never leaves a run waiting for
\* an approval that nobody can give.
AloneAllGoesWell ==
  ~overlapped => WaitIsAnswerable /\ \A d \in Drivers : driver[d].pc # "raised"
=============================================================================
