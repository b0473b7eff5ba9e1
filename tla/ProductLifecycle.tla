-------------------------- MODULE ProductLifecycle --------------------------
(***************************************************************************)
(* The lifecycle service of one product task                                *)
(* (app/services/product_lifecycle.py) over the claims of                   *)
(* app/services/execution.py, the two outputs of app/services/product_agent.py *)
(* and the artifact store, of which this module holds an instance.          *)
(*                                                                          *)
(* A call is one execution of a public operation.  The server has one event *)
(* loop: calls interleave only while one awaits the agent (pc "model");     *)
(* its other steps are separate because a crash can fall between them.  The *)
(* answer of the agent is drawn in Init, with the requests of its writers.  *)
(***************************************************************************)
EXTENDS Naturals, FiniteSets, Lifecycle

CONSTANTS
  Calls,        \* executions of an operation
  Contents, NoContent, NoMeta, NoKey,
  MaxAttempts,  \* Task.max_attempts
  MaxCrashes, MaxLosses  \* bounds on crashes and lost files

Outputs == {"product-brief", "product-brief-md"}

\* _compute_idempotency_key: of the task, the name and the content.
Keys == Outputs \X Contents
Asked(s, c) == [slot |-> s, key |-> <<s, c>>, content |-> c]
Requests == {Asked(s, c) : s \in Outputs, c \in Contents}
Writers == Calls \X Outputs

ASSUME Limits == MaxAttempts \in Nat \ {0} /\ MaxCrashes \in Nat /\ MaxLosses \in Nat
ASSUME NullsAreNull == NoKey \notin Keys /\ NoContent \notin Contents /\ NoMeta \notin Requests

VARIABLES content, meta, records, inRun, inTask, writer, lost

\* The task is the only one of the run.
Store == INSTANCE ArtifactStore WITH
  Slots <- Outputs, RunOf <- [s \in Outputs |-> "run"], TaskOf <- [s \in Outputs |-> "task"],
  NoTask <- "none"

store == <<content, meta, records, inRun, inTask, writer, lost>>

VARIABLES
  task,     \* the Task record: status, claim (its attempt number; 0 is none), attempts
  routed,   \* a route decision of the task is recorded
  grant,    \* the approval that authorizes retries
  call,     \* the calls being served
  unsaved,  \* a completion could not be persisted
  crashes

own == <<task, routed, grant, call, unsaved, crashes>>
vars == <<store, own>>

Attempt == 0..MaxAttempts
Sync == {"execute", "verify", "complete", "fail"} \cup Outputs
Over == {"returned", "raised", "dead"}
CallRecord == [pc : Sync \cup Over \cup {"new", "model"}, claim : Attempt]

\* An answer becomes the JSON and the Markdown rendered from it.
Init ==
  /\ Store!Init
  /\ \A e \in Calls, s, t \in Outputs :
       /\ writer[<<e, s>>].req.slot = s
       /\ writer[<<e, s>>].req.content = writer[<<e, t>>].req.content
  /\ task = [status |-> "ready", claim |-> 0, attempts |-> 0]
  /\ routed = FALSE
  /\ grant \in {"none", "valid"}
  /\ call = [e \in Calls |-> [pc |-> "new", claim |-> 0]]
  /\ unsaved = FALSE
  /\ crashes = 0

Quiet == \A e \in Calls : call[e].pc \notin Sync
Goto(e, pc) == call' = [call EXCEPT ![e].pc = pc]
Arrives(e) == call[e].pc = "new" /\ Quiet

Owned(e) == task.status = "running" /\ task.claim # 0 /\ task.claim = call[e].claim

(***************************************************************************)
(* execute_ready_task and retry_blocked_task.                               *)
(***************************************************************************)
Execute(e) ==
  /\ Arrives(e) /\ Goto(e, "execute")
  /\ UNCHANGED <<store, task, routed, grant, unsaved, crashes>>

\* _authorize_retry, then prepare_retry, then execute_ready_task.
Retry(e) ==
  /\ Arrives(e) /\ grant = "valid"
  /\ task.status = "blocked" /\ task.attempts < MaxAttempts
  /\ task' = [task EXCEPT !.status = "ready"] /\ Goto(e, "execute")
  /\ UNCHANGED <<store, routed, grant, unsaved, crashes>>

Claimable == task.status = "ready" /\ task.claim = 0 /\ task.attempts < MaxAttempts

\* A completed or blocked task is reported as it is.
Report(e) ==
  /\ call[e].pc = "execute" /\ task.status \in {"completed", "blocked"}
  /\ Goto(e, "returned")
  /\ UNCHANGED <<store, task, routed, grant, unsaved, crashes>>

\* Predecessors, inputs or the claim are refused: nothing has changed.
Refuse(e) ==
  /\ call[e].pc = "execute" /\ task.status \notin {"completed", "blocked"}
  /\ Goto(e, "raised")
  /\ UNCHANGED <<store, task, routed, grant, unsaved, crashes>>

\* claim_task; building the context may fail.
Claim(e) ==
  /\ call[e].pc = "execute" /\ Claimable
  /\ LET n == task.attempts + 1 IN
       /\ task' = [status |-> "running", claim |-> n, attempts |-> n]
       /\ \E pc \in {"model", "fail"} : call' = [call EXCEPT ![e] = [pc |-> pc, claim |-> n]]
  /\ UNCHANGED <<store, routed, grant, unsaved, crashes>>

\* The agent answers, the route decision is recorded.
Answer(e) ==
  /\ call[e].pc = "model" /\ Quiet
  /\ routed' = TRUE /\ Goto(e, "product-brief")
  /\ UNCHANGED <<store, task, grant, unsaved, crashes>>

AgentFails(e) ==
  /\ call[e].pc = "model" /\ Quiet /\ Goto(e, "fail")
  /\ UNCHANGED <<store, task, routed, grant, unsaved, crashes>>

Following(s) == IF s = "product-brief" THEN "product-brief-md" ELSE "verify"

\* Mutant: a refused write is passed over.
WriteCareless(e, s) ==
  /\ call[e].pc = s /\ Store!Step(<<e, s>>)
  /\ Goto(e, IF writer'[<<e, s>>].pc \in {"acked", "refused"} THEN Following(s) ELSE s)
  /\ UNCHANGED <<task, routed, grant, unsaved, crashes>>

\* write_json for the first output, then write_text for the second.
Write(e, s) ==
  /\ call[e].pc = s /\ Store!Step(<<e, s>>)
  /\ Goto(e, CASE writer'[<<e, s>>].pc = "acked" -> Following(s)
               [] writer'[<<e, s>>].pc = "refused" -> "fail"
               [] OTHER -> s)
  /\ UNCHANGED <<task, routed, grant, unsaved, crashes>>

WriteFails(e, s) ==
  /\ call[e].pc = s /\ Store!Stop(<<e, s>>) /\ Goto(e, "fail")
  /\ UNCHANGED <<task, routed, grant, unsaved, crashes>>

\* The record a write returned, resolved in the store and found in the task.
Intact(r) == content[r.req.slot] = r.req.content /\ meta[r.req.slot] = r.req
Listed(s) == {r \in records : r.id \in inTask /\ r.req.slot = s}

Verified(e) ==
  \A s \in Outputs : \E r \in Listed(s) : r.req = writer[<<e, s>>].req /\ Intact(r)

Verify(e) ==
  /\ call[e].pc = "verify" /\ Goto(e, IF Verified(e) THEN "complete" ELSE "fail")
  /\ UNCHANGED <<store, task, routed, grant, unsaved, crashes>>

\* complete_claimed_task; an exception is reported, the task left as it is.
Complete(e) ==
  /\ call[e].pc = "complete" /\ Goto(e, "returned")
  /\ task' = IF Owned(e) THEN [task EXCEPT !.status = "completed", !.claim = 0] ELSE task
  /\ UNCHANGED <<store, routed, grant, unsaved, crashes>>

CompletionFails(e) ==
  /\ call[e].pc = "complete" /\ Goto(e, "returned") /\ unsaved' = TRUE
  /\ UNCHANGED <<store, task, routed, grant, crashes>>

\* Mutant: the failed attempt keeps its task.
FailQuietly(e) ==
  /\ call[e].pc = "fail" /\ Goto(e, "returned")
  /\ UNCHANGED <<store, task, routed, grant, unsaved, crashes>>

AfterFailure == IF task.attempts >= MaxAttempts THEN "failed" ELSE "blocked"

\* _record_failure.
Fail(e) ==
  /\ call[e].pc = "fail"
  /\ \/ Owned(e) /\ task' = [task EXCEPT !.status = AfterFailure, !.claim = 0] /\ Goto(e, "returned")
     \/ ~Owned(e) /\ task' = task /\ Goto(e, "raised")
  /\ UNCHANGED <<store, routed, grant, unsaved, crashes>>

(***************************************************************************)
(* reconcile_task and complete_after_reconciliation.                        *)
(***************************************************************************)
OneOfEach == \A s \in Outputs : \E r \in Listed(s) : Listed(s) = {r} /\ Intact(r)

\* What complete_after_reconciliation asks of the task, authorization aside.
Reconcilable == task.status = "running" /\ task.claim # 0 /\ OneOfEach

\* Mutant: one output is enough evidence.
EvidenceOfOne ==
  CASE inTask = {} -> "none"
    [] inTask # {} /\ routed /\ (\E s \in Outputs : \E r \in Listed(s) : Intact(r)) -> "valid"
    [] OTHER -> "invalid"

\* _completion_evidence_state.
Evidence ==
  CASE inTask = {} -> "none"
    [] inTask # {} /\ routed /\ (\A s \in Outputs : \E r \in Listed(s) : Intact(r)) -> "valid"
    [] OTHER -> "invalid"

\* _reconcile_running, as long as the claim is not stale.
RunningAdvice ==
  CASE task.claim = 0 \/ Evidence = "invalid" -> "manual"
    [] task.claim # 0 /\ Evidence = "valid" -> "complete"
    [] OTHER -> "wait"

\* reconcile_task.
Advice ==
  CASE task.status = "blocked" -> "retry"
    [] task.status = "ready" -> "execute"
    [] task.status = "running" -> RunningAdvice
    [] OTHER -> "none"

Reconcile(e) ==
  /\ Arrives(e) /\ grant = "valid" /\ Reconcilable
  /\ task' = [task EXCEPT !.status = "completed", !.claim = 0] /\ Goto(e, "returned")
  /\ UNCHANGED <<store, routed, grant, unsaved, crashes>>

Expire ==
  /\ grant = "valid" /\ grant' = "expired"
  /\ UNCHANGED <<store, task, routed, call, unsaved, crashes>>

(***************************************************************************)
(* Crashes, alone or between the two saves of a claim, failure or completion. *)
(***************************************************************************)
Die ==
  /\ crashes < MaxCrashes /\ crashes' = crashes + 1
  /\ call' = [e \in Calls |-> IF call[e].pc \in Over \cup {"new"} THEN call[e]
                              ELSE [call[e] EXCEPT !.pc = "dead"]]

\* A writer at work dies with its call.
Crash ==
  /\ \E e \in Calls : call[e].pc \in Sync \cup {"model"}
  /\ Die
  /\ \/ \E e \in Calls, s \in Outputs : call[e].pc = s /\ Store!Stop(<<e, s>>)
     \/ (\A w \in Writers : writer[w].pc \in {"new", "acked", "refused", "dead"}) /\ UNCHANGED store
  /\ UNCHANGED <<task, routed, grant, unsaved>>

\* The status is saved first, claim and attempt count afterwards.
Torn ==
  /\ \E e \in Calls :
       \/ call[e].pc = "execute" /\ Claimable /\ task' = [task EXCEPT !.status = "running"]
       \/ call[e].pc = "fail" /\ Owned(e) /\ task' = [task EXCEPT !.status = AfterFailure]
       \/ call[e].pc = "complete" /\ Owned(e) /\ task' = [task EXCEPT !.status = "completed"]
  /\ Die
  /\ UNCHANGED <<store, routed, grant, unsaved>>

Lose(s) == Quiet /\ Store!Lose(s) /\ UNCHANGED own

Step(e) ==
  \/ Report(e) \/ Refuse(e) \/ Claim(e) \/ Answer(e) \/ AgentFails(e)
  \/ \E s \in Outputs : Write(e, s) \/ WriteFails(e, s)
  \/ Verify(e) \/ Complete(e) \/ CompletionFails(e) \/ Fail(e)

Next ==
  \/ \E e \in Calls : Step(e) \/ Execute(e) \/ Retry(e) \/ Reconcile(e)
  \/ Expire \/ Crash \/ Torn
  \/ \E s \in Outputs : Lose(s)

Spec == Init /\ [][Next]_vars

(***************************************************************************)
(* Properties.                                                              *)
(***************************************************************************)
TypeOK ==
  /\ Store!TypeOK
  /\ task \in [status : TaskStatus, claim : Attempt, attempts : Attempt]
  /\ routed \in BOOLEAN /\ grant \in {"none", "valid", "expired"}
  /\ call \in [Calls -> CallRecord] /\ unsaved \in BOOLEAN /\ crashes \in 0..MaxCrashes

\* A completed task, whether by its own call or by reconciliation after a crash,
\* has a route decision and lists each output once, whole unless its file
\* was lost since.
CompletedHasEvidence ==
  task.status = "completed" =>
    /\ routed
    /\ \A s \in Outputs : \E r \in Listed(s) : Listed(s) = {r} /\ (Intact(r) \/ s \in lost)

\* The Markdown of a completed task is rendered from its JSON, although they
\* are written one after the other and may come from different attempts.
OutputsAgree ==
  task.status = "completed" =>
    \A s, t \in Outputs : meta[s] # NoMeta /\ meta[t] # NoMeta => meta[s].content = meta[t].content

\* A completed task can be relied on: its evidence is complete and agrees.
CompletedIsSound == CompletedHasEvidence /\ OutputsAgree

\* No path of a call leaves a RUNNING task behind with nobody at work on it,
\* except a crash and a completion that could not be saved.
RunningIsOwned ==
  task.status = "running" /\ crashes = 0 /\ ~unsaved =>
    \E e \in Calls : call[e].pc \in Sync \cup {"model"} /\ Owned(e)

\* The records are well formed and a RUNNING task has its worker.
WorkIsOwned == TypeOK /\ RunningIsOwned

\* What reconcile_task recommends can be done (a crash between the two saves
\* of a failure leaves a claim that no later claim can replace).
AdviceHolds ==
  /\ Advice = "complete" => Reconcilable
  /\ Advice = "execute" /\ crashes = 0 => Claimable
=============================================================================
