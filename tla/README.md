# Verification of CoFounder OS

TLA+ models of the parts of CoFounder OS (`src/app`) that must stay correct under
interleaving, retries and crashes, the TLC configurations that check them, and
TLAPS proofs about the core. `PROJECT.json` maps every definition to the lines it
models and lists runs, mutants, hazards, findings and theorems.

## The system

CoFounder OS is a FastAPI server in one process with one event loop. Runs are made
of tasks; one Workflow Controller is the authority on their state; records are
JSON files below one directory per run, written one at a time by atomic replace
under a per-run lock, with no atomicity across files. An optional bridge process
carries Feishu messages to the Product API.

| Component | State | Operations | What is hard | What must hold |
|---|---|---|---|---|
| State machine, run repository (`app/state`) | run, task, approval, artifact records; event log | transitions, locked transactions | several records per operation, a crash between two | legal transitions, terminal is final |
| Workflow controller, execution, orchestration, product API (`app/services`) | claims, attempts, approvals | `run_until_terminal`, claim, complete, fail, retry, `request_approval`, `resolve_approval` | several HTTP requests drive one run and interleave at every dispatch; recovery re-dispatches RUNNING tasks | gated tasks run only when approved, a late answer never completes a later attempt, ends are final, requests are answered |
| Engineering delivery (`services/engineering_delivery.py`) | `metadata.delivery`, receipts | prepare, act (approve, reject, cancel, feedback), interrupt, export | decisions race repairs; the receipt is the last of several writes | only the approved version leaves; a request acts once |
| Engineering dispatch (`api/engineering.py`, `engineering/service.py`) | dispatch table, asyncio tasks, execution lock | create, execute, repair, restart recovery | cancellation at any await, shutdown, crash | no row or run without an owner, no replay |
| Engineering service, workspace, runner (`engineering/service.py`, `workspace.py`, `trusted_runner.py`) | result.json of each attempt, git worktree, container, `active-test.json` | dispatch, gates, probes, review, cancel, clean up | two threads per workspace, cancelled awaits, timeouts, retries out of earlier evidence | a passed attempt is earned, rejected work is not accepted by asking again, nothing is retired under a running container |
| Bridge (`app/bridge`) | inbox and notification ledgers (sqlite) | accept, claim, business call, reply, warn, notify | duplicated deliveries, lost answers, crash after claim | acted on at most once, true verdicts |
| Budgets (`policy/budget_store.py`, `request_policy.py`, `request_constraints.py`, `clients/gateway.py`, `providers/registry.py`) | ledger row, in-memory budget of each request, calls at the Gateway | intersect, reserve, try providers | concurrent requests, restarts, refusals half-way, calls that outlive their client | never over budget, only granted providers |
| Policy gate (`policy/gate.py`) | none | decision table | order of rules | deny wins |
| Artifact store (`artifacts/store.py`, `services/artifact_write.py`, `register_artifact`) | content and meta.json per name; artifact records listed by run and task | write, read, recover, register | two locks one after the other, a crash between any two files, repeated keys | what is visible is whole and stays, a key is one artifact, remains never block a retry |
| Product lifecycle (`services/product_lifecycle.py`, `services/product_agent.py`) | one task, its route and two outputs | execute, retry, reconcile, complete | crash between outputs, unsaved completions, stale outputs of an earlier answer | a completed task has its evidence, advice can be followed |
| Insurance workflow (`insurance_poc`, `api/insurance_poc.py`) | run, ten tasks, routes, jobs in memory | route, execute, fall back, approve | live models that fail, lie or answer late; overlapping requests | derived outputs agree, live calls are disclosed, no model and no overlap of requests fails a run |
| Authentication, general router, providers, agents, synthesizers, evaluation, decision, audit, demo, UI, scripts, tools | little or none | pure functions, HTTP clients, rendering | - | - |

Interactions: the bridge calls the Product API over HTTP (`Bridge`: `Create`,
`LookUp`, `Submit`, `Query`, `Export`); `api/engineering.py` starts asyncio tasks
that call `EngineeringService.execute`, which calls `run_until_terminal`, which
dispatches the task to `EngineeringService.dispatch` and at the end calls
`EngineeringDeliveryController.prepare`; handlers call `act` and `interrupt` on the
same records and cancel those asyncio tasks. The insurance job calls its workflow, which
registers itself as the task adapter the Workflow Controller dispatches to; every
adapter writes its outputs through `ArtifactRegistrationService`, which stores a file
and then registers a record. Model calls go through `GatewayClient` and the ledger.

## Modules

* `Lifecycle` - statuses, transition tables and terminal sets of runs and tasks.
* `VersionApproval` - abstract: versions offered one at a time with growing revisions and
  changed content; at most one is released, the one on offer.
* `EngineeringDelivery` - one accepted engineering run: its records (`run`, `task`, `d`,
  `receipts`, `cancelReceipts`, `results`), the row in the dispatch table (`job`), the
  asyncio task (`driver`, its `pc` names the place between two awaits or two
  durable writes), and the process (`server`, whose value says how far a restart has
  got). An HTTP handler is one action, enabled when the event loop is not inside a
  stretch of the driver without awaits (`Busy`). A crash can fall between any two
  writes: the driver has one step per write, and handlers with several writes have
  `Torn...` actions for the prefixes that can be on disk. `approvals`, `exported`,
  `effects`, `dispatches` are history.
* `MCEngineeringDelivery` - its instance; `EngineeringDelivery_proofs` - its theorems.
* `MessageConsumption` - abstract: a message is consumed at most once and its verdict is final.
* `Bridge` - the inbox, the worker thread of the bridge step by step, the platform
  (`posts`, one message per uuid) and as much of the Product API as the worker
  depends on. `kind` says what each message asks for. `Raise` is any exception before
  the handler; every HTTP call can be lost on the way there or on the way back. Between two
  messages (`pc = "poll"`) the worker may look for versions that wait for the owner:
  `claims` is the table of the notification ledger, `notices` what the platform accepted.
  `MCBridge` is its instance, `Bridge_proofs` holds its theorems.

* `WorkflowController` - one run with its tasks, approvals and any number of HTTP requests.
  A driver is one execution of `run_until_terminal`; its `pc` names the loop it is in,
  `todo` and `view` hold the snapshot that loop iterates over (stale after an await), and
  drivers interleave only at the dispatch of a task (`pc = "call"`), as on one event loop.
  A new claim takes a fresh token together with a new `attempt_count`, so claims are
  numbered by attempt. The output bundle of a task is write-once: `part` is its
  first file, `out` says that the bundle is whole. Approvals are named by task and claim;
  `TornClaim`, `TornAsk`, `TornFailure`, `TornClose`, `TornResolve`, `TornWrite` are crashes
  between the writes of one operation. `called` and `overlapped` (a second request was
  served before the first had ended) are history. `MCWorkflowController` is its
  instance, `WorkflowController_proofs` holds its theorems.
* `RequestPolicy` - the policy record, `Intersect` and `Allows`.
* `Budgets` - a ledger, the in-memory budget (`mem`) of each request or execution that
  shares it (a scope), and the calls: reserved slot by slot by the client, then tried
  provider by provider at the Gateway, which keeps a budget of its own (`server`). A
  reservation is one SQLite transaction, so scopes interleave between reservations. Time
  is not counted: `Refuse` and `GiveUp` may happen at any step. `MCBudgets` is its instance,
  `Budgets_proofs` holds its theorems.

* `EngineeringExecution` - the attempts of one engineering task below `EngineeringDelivery`: the
  coroutine (`co`) from one await to the next, the thread that tests (`test`), the thread that
  cancels (`stop`), the workspace they share (`ws`), and the evidence of each attempt
  (`results`), from which the next one starts. The flag `ws.confirmed` is
  `Workspace._cleanup_confirmed`, written by both threads. `MCEngineeringExecution` is its instance,
  `EngineeringExecution_proofs` holds its theorems.
* `WriteOnce` - abstract: a name is published once and stays.
* `ArtifactStore` - content directories (`content`, `meta`), records and the lists that name them,
  and writers that advance file by file under the flock of their run, first that of the store,
  then that of the state repository. `MCArtifactStore` is its instance,
  `ArtifactStore_proofs` holds its theorems.
* `ProductLifecycle` - one product task over an instance of `ArtifactStore`: each call drives two
  writers of the store, so that crashes and lost files of the store are those of the
  task. `MCProductLifecycle` is its instance, `ProductLifecycle_proofs` holds its theorems.
* `PolicyGate`, `InsuranceRouting` - the decision tables of gate and router as operators.
* `Insurance` - `WorkflowController` on the plan of the ten tasks (`Tasks`, `Rank`, `Deps` and `Policy` are
  those of `TASK_SPECS`, the dispositions taken from `PolicyGate` and the routes from `InsuranceRouting`),
  extended by the routing of the job, the job itself and what its adapter does while the Controller waits for a
  dispatch (`work`): await a live model or fall back, write and register output by output, mark the
  route, or raise. Every decision on runs, tasks and approvals is the Controller's own action, so a lost claim is
  swallowed, a READY list is stale and a run fails exactly as there. `Control` is any of its steps of one driver, `Arrive` a
  retry or a decision, approving or rejecting; `CallSucceeds` and `CallFails` are taken when the adapter
  returns or raises. The first driver is the job's, and its end decides the job (`JobGoesOn`).
  `MCInsurance` is its instance, `Insurance_proofs` holds its theorems.

Operators whose comment starts with "Mutant" are used by no specification: each is a
plausible wrong version of the definition below it, and the property named for it
in `PROJECT.json` is violated when it takes that definition's place.

## Runs

| Run | Instance | Shows |
|---|---|---|
| `EngineeringDelivery` | 3 request ids, 2 digests, 2 principals, 4 attempts, 2 rounds, 2 crashes | safety and refinement of `VersionApproval` |
| `EngineeringDeliveryLive` | 1 request id, 2 attempts, no symmetry | `RunSettles` |
| `EngineeringDeliveryOrphan` | 1 request id | finding 1 |
| `Bridge` | two messages, once a decision and a request, once an export and a decision, 2 versions, 1 crash | consumption, verdicts, versions, notices; every stored message and every waiting version is taken up |
| `WorkflowController` | a root and a gated root, 4 requests, 2 answers, 2 attempts, 3 cycles, 1 crash | safety of overlapping drivers; while requests do not overlap none raises and a waiting run can be answered |
| `WorkflowControllerStages` | a gated task after a root and a denied task, 3 requests, 2 cycles, no crash | joins, expected denials, the cycle limit; every request is answered |
| `WorkflowControllerWait` | small | finding 2 |
| `Budgets` | 2 scopes, 3 calls, 3 attempts, 4 tokens, 1 cloud call, 3 asked policies | the ledger and what reaches providers |
| `ArtifactStore` | 3 names in 2 runs, 3 writers, 6 requests, 2 keys or none, 1 lost file | publication, registration, retries; refinement of `WriteOnce` |
| `ProductLifecycle` | 3 calls, 2 attempts, 2 answers, 1 crash, 1 lost file | completion, ownership, reconciliation |
| `Insurance` | the ten tasks, job and 2 requests, one with 100 cycles and one with 2, 2 attempts, 3 live calls, 1 crash; decisions either way, approvals that lapse; 4 models that may be unavailable, 2 latencies, any health | derivation, disclosure, causes of failure |
| `EngineeringExecution` | 2 candidates, 2 attempts, 4 provider calls, 3 gates, 2 probes, 1 cancellation | evidence, retirement, absence of deadlock |

Bounds. Three request ids make three feedback requests, one more than the two rounds
`act` accepts; four attempts let that cap bind, and the live run has the default of two
attempts, where the attempt budget binds. Two digests: a repair that changes something
and one that does not. Two crashes: one during recovery from the other. Four requests on
one run: one that dispatches, one that recovers the same task, one that decides an
approval and one that arrives later; two model answers suffice for a conflict in a
write-once bundle. Two cycles are fewer than the three-stage instance needs when a task is
retried, so the cycle limit binds. Three calls with up to two slots each compete for three
attempts. Two messages: one is stored while the other is worked on, and the second names a version
the first one saw no longer. Three writers: two that race and one that comes after a stop;
the six requests are one, and each way another can collide with it. Three calls of the
lifecycle: one that dies, one that retries, one that reconciles. Two attempts of an
engineering task: one leaves evidence, the next uses it; four provider calls are the
`max_attempts` of the ledger `create` makes, three gates and two probes are those of the code.
Three live calls: both tasks, and one task twice. `CycleLimit` is the 1000 of the code in the insurance run
and the limit of all requests in the others, where the type invariant then bounds the cycles. Of the later requests of the insurance run one asks for
100 cycles, as the job does, and one for two, so that it fails a running run at its limit. `MaxCrashes`, `MaxVersion`, `MaxLosses`,
`MaxCancels`, `MaxCalls` of `Insurance`, `Drivers`, `Writers` and `Calls` are the only bounds the
code does not have. Deadlock is checked in `EngineeringExecution`, where three threads wait for each other
and a finished run stutters (`Rest`); elsewhere it is not, for a terminal run, a served set of
requests and a spent set of calls stop.

Fairness. `FairSpec` of the delivery: `WF(Work)`, the event loop runs what is
runnable and a dispatch ends because `asyncio.wait_for` limits it; `WF(Recover)`, a
process that went down is started again and recovery runs before it serves. No
decision, expiry or crash is fair: `RunSettles` says that work ends, not that
somebody decides. `FairSpec` of the bridge: `WF(Work)`, the worker thread loops and
every HTTP call has a timeout; `WF(Restart)`; `SF(ListPending)` and `SF(ClaimNotice)`, because the loop
comes back after every message, ten seconds pass again and again, and not every call
to the Product API fails. `FairSpec` of the controller: `WF(Step)` of
each driver, for the event loop resumes what is runnable and every model call has a
timeout; no request, decision or expiry is fair.

## Proofs

`EngineeringDelivery_proofs` proves for all values of the constants (under the
assumptions of `EngineeringDelivery`: `NoPatch` is no digest, `NoReceipt` no receipt, the
limits are numbers and at least one attempt):

* `TypeCorrect` - type correctness;
* `Invariant` - the inductive invariant `IInv`;
* `ReleaseIsAlwaysApproved`, `OnlyOneVersionLeaves`, `RequestsTakeEffectOnce`,
  `TerminalRunsAreFinal` - the safety properties of the same names in the module;
* `DeliveryImplementsApproval` - every step is a step of `VersionApproval` or stutters;
* `OfferIsAlwaysLatest`, `RowIsAlwaysOwned` - what is offered is the newest candidate, and a
  served row of the dispatch table is active only while it has a driver.

None of the safety properties is inductive. A request whose receipt was lost to a
crash could act again if its run were still open for decisions, so `ReceiptInv` says
that such a run is `Wedged`: terminal, or running with a repair intent and no driver
until recovery has failed it. That this persists depends on `DriverInv`: which driver
locations go with which process, run and task states (a cancelled task has no driver
that could complete it; the process has no driver unless it is up or stopping).
`ReleaseInv` ties `approvals` to the completed run. `OfferInv` says that every revision was made by an
attempt of its own, whose artifact it offers, and that a further round is paid for before the
run is worked on again; `RowInv` that the first driver owns the row unless the run
was cancelled before it started. The proof has one step per action
and, below it, one per conjunct. Record updates are handled by a few field lemmas so
that the provers see the record types only there.

`Budgets_proofs` proves for every policy, set of scopes, set of charges and finite set of
calls: `TypeCorrect`, `LedgerStaysWithinPolicy`, `BudgetHolds`, `OnlyGrantedProviders`,
`CloudHolds`, and of the operators `IntersectNarrows`. `NeverOverBudget` is not inductive: it
counts provider calls, which the Gateway makes without looking at the ledger. `LedgerInv`
says that the ledger counts exactly the reservations (`Charges`, by call and slot), and
`CallInv` that a call is sent only with all its slots paid and makes no more provider calls
than it has slots; so the provider calls are a subset of the reservations, and the
ledger's own check bounds those. For cloud calls the same holds call by call.

`ArtifactStore_proofs` proves for all names, runs, writers, keys and losses `StoreHoldsAlways`,
`KeyNamesOneArtifactAlways`, `OwnRemainsNeverRefuseAlways` and `StoreImplementsWriteOnce`. Beyond the
properties the invariant has four parts: `LocksExclude` (two writers inside the store, or inside the
state repository, are in different runs), `FilesWereAsked` and `RecordsWereAsked` (a file or record
is what some call has asked for) and `WriterInv` (what a writer relies on between two files: its name
unpublished and its key unused while it holds the lock of the store, its artifact published
afterwards, its record saved before it is listed). Without `LocksExclude` the search for a
key and the write that follows it would race.

`EngineeringExecution_proofs` proves for any numbers of attempts, gates, probes and provider calls
`TypeOKAlways`, `EvidenceHoldsAlways` and `RetireIsSafeAlways`. `AttemptInv` says what the attempt under way
has shown at each place of the coroutine, `WorkspaceInv` where the two threads may be while it is there, and
`ContainerIsKnown` that a container either belongs to the test thread or is remembered, in the flag or in
`active-test.json`, as not confirmed removed.

`Bridge_proofs` proves for any messages, versions and crashes `TypeOKAlways`, `VerdictIsTrueAlways`,
`DecisionNamesVersionAlways`, `NoticeIsTrueAlways` and `BridgeImplementsConsumption`. The worker reads,
calls and replies in separate steps, so the invariant says what holds from one to the next:
`MessageInHand` (the message is in processing and not answered before the worker replies), `CallInHand` (how
often the platform was called for it, and that the version about to be decided is the one it names), `NoticeInHand` (the
version at hand is claimed and nobody was told of it) and `WaitingIsUntouched` (nothing was done for
a message nobody has claimed).

`WorkflowController_proofs` proves for every acyclic plan, any number of requests, each with its own
`MaxCycles`, and any number of crashes `TypeOKAlways`, `ClaimIsCurrentAlways`, `CalledInOrderAlways` (an agent is called only under an approved plan,
with dependencies satisfied, never against a denial), `CompletedRunIsWholeAlways`, `AloneAllGoesWellAlways`,
`EndsAreFinalAlways` and `CompletedByClaimHolderAlways`. The invariant relates the durable tasks and approvals
(`TaskInv`, `ClaimIsCurrent`), the place of each driver (`LoopInv`, `DriverInv`) and the plan (`PlanInv`); a driver's
snapshot is stale after an await, so `DriverInv` keeps of it only what others cannot undo. `AloneInv` is the part that
holds while requests do not overlap. `CalledOnlyWhenAllowedAlways` (a gated task is called only under
the claim its approval was granted for) adds `SpentInv` and `ApprovedInv` and assumes `FewAttempts`,
`MaxAttempts <= 2`: two is the default (`domain/models.py:133`) and nothing in the product sets another
value. With more it is false, see the observations.

`ProductLifecycle_proofs` proves for any calls, answers, attempts, crashes and lost files `CompletedIsSoundAlways`,
`WorkIsOwnedAlways` and `AdviceHoldsAlways`. Theorems of `ArtifactStore` cannot be cited through `INSTANCE`, so `StoreInv`
restates what the task needs of its store and is proved again; it is simpler here, because a key is computed from name
and content and so says all of a request. `CallsInv` says that one call at a time is between two awaits and that its
Markdown is asked for only after its JSON is acknowledged. So whatever Markdown is published, by whichever attempt, has the
content of the JSON. `EvidenceInv` keeps what was verified listed until the task is completed and after, and
`ClaimInv` says that only a crash between two saves leaves a claim on a task that is not running.

`Insurance_proofs` proves for any number of requests with any cycle limits, any health and latency of the models, any
attempts, live calls and crashes `IsControlledAlways`, `InsuranceTypeOKAlways`, `LineageHoldsAlways`, `LiveIsDisclosedAlways`
and `OutcomeHasCauseAlways`. By `IsControlledAlways` every step is a step of the Controller or leaves it alone, so
the lemmas of `WorkflowController_proofs` carry over, its `IInv` first of all. `StoreInv` says that the
content an output was derived from is listed and has the same maker still, and that the mode governance
decided stays; `WorkInv` what an adapter carries from file to file and past an await; `RouteInv` that an executed route
names the maker of its output. For the disclosure, `MarkInv` says that without a crash a whole bundle has its route marked
or is about to have it, and `JobInv` that a job that completed without telling of a live call has outputs of no
live call. The job completes only with its approval pending (`AskedInv`: no other task asks), hence with all live tasks
done; a driver that lost a claim and went on is no exception, because whoever completed the task has marked its
route. Together these are `Steady`. `CycleInv` says that a cycle in which a driver does nothing ends with nothing to
do. `CalmInv` is the part that holds while no crash and no Founder interferes: what is stored belongs to
a completed task or to the one driver that is finishing it, so nothing conflicts but the late answer of a claim that has
passed; only the injected failure costs an attempt; and a driver that settles without progress finds the run
waiting or done. What is left to fail a run is the limit of a request's cycles.
That the router always leaves a candidate that can be executed rests on the lemmas about scores
(`ShareFields`, `ScoreFields`, `SelectedIsBest`, `SpecialistSuffices`): latency and cost decide at most 20 points, too few to
put a candidate that cannot be executed before a specialist that is available. `OutcomeHasCauseAlways` assumes `InjectionIsSpared`, that a task in
which the demonstration injects a failure has a second attempt: two is the default (`domain/models.py:133`); with
one attempt the injected failure fails the run, as it should.
`Values` (measurements are numbers, contents are not `None`) is assumed of the constants.

Only model-checked: liveness (`RunSettles`, `EverythingIsTakenUp`, `RequestsEnd`), which is out of
the prover's reach.
`LedgerWithinPolicy`, `CalledInOrder` and the type invariants of delivery, budgets and insurance are proved and have no
run of their own; `IInv` of the delivery contains its type invariant.

## Findings

1. `EngineeringDeliveryOrphan`: restart (and `repair()`) save `repair_failed` before they fail the
   run; a crash in between leaves a run RUNNING that no restart stops.
   `docs/t11-t16.md:15`: "interrupted runs fail/cancel rather than being silently replayed".
2. `WorkflowControllerWait`: a driver that resumes with an old READY list finds a task waiting
   for the approval another driver asked for, and fails it
   (`services/workflow_controller.py:322`); the run stays in waiting_approval with nothing left
   to decide. `docs/workflow-controller.md:34`: "Stop safely on approval wait". The plans the
   product ships never put a gated task in the READY list of an earlier task;
   the controller accepts such a plan. With one request at a time it does not happen
   (`AloneAllGoesWell`).
Divergences that are visible in the text of the code and have no run:

* `services/workflow_controller.py:549`: recovery sends a task without output to its agent again
  under the same attempt, so recoveries are not bounded by the attempt budget;
  `docs/workflow-controller.md:45-46`: "missing or incomplete output: record an attempt failure,
  then retry only if the configured budget remains".
* `services/orchestration.py:396`: a dependency cancelled by an expected denial satisfies
  `mark_task_ready`; `docs/orchestration-service.md:79-81` asks for completed ones.
* `clients/gateway.py:129`: with one attempt left and both providers legal the one slot is reserved
  for the local provider, but Step may take it, uncounted; `docs/t07-t10.md:35`: "Cloud-call
  count is a hard quota". `CloudWithinQuota`, proved, says that this is the only way.
  Today's clients allow one provider per call.
* `services/engineering_delivery.py:192` takes a completed task back to ready, line 160 a run from
  waiting_approval to completed; neither is an edge in `docs/state-management.md:61-64`, `:101`.
* `services/orchestration.py:1107-1125`: record, run and task are separate files, and a retry after a crash
  returns the record it finds without listing it: an acknowledged registration may be
  listed nowhere. `services/artifact_write.py:40-41` says "so that domain records are updated atomically".
* `engineering/service.py:603`: a rejection inside an answer that does not fit the schema is stored as
  inconclusive, and the next attempt has the same candidate reviewed again;
  `docs/t17-t22.md:67`: "the host does not override a rejected review".
  `EvidenceHolds` says that only the schema case escapes.
* `insurance_poc/runtime.py`: a crash between storing and registering a live output makes every later attempt
  a key conflict, since another answer has other content; `docs/insurance-poc-demo.md:66`: "The
  golden path remains recoverable without a live model service". `OutcomeHasCause`
  says that no failing, late or wrong model does this without a crash.

Further observations, contradicted by no document: `artifacts/store.py:495-505` repairs lost content
only under a matching key, which the search before it has answered already; `delete()` has no
caller and takes no lock; the search for a key reads other runs without their lock. A
failure of a product task torn between its two saves leaves a claim that no later claim replaces,
and the first approved but expired approval refuses a retry that a later one authorizes
(`services/product_lifecycle.py:653-691`). An unavailable local specialist makes the router send a task to
QWEN that only the local runtime executes, so the request is refused although the generic
local agent could serve. `cancellation.json` may say that cleanup is confirmed while the test
thread's own removal failed; `active-test.json` is what keeps `cleanup()` safe (`RetireIsSafe`, and its mutant).
A second cancellation during cleanup, or a deadline that passes as a test starts, leaves a
workspace that `cleanup()` refuses for ever. If registering the passed output fails, envelopes that
say passed are published already and those of the failure conflict with them. If `max_attempts` were above
two, a gated task could be called without an approval of its claim (found with four attempts and two crashes): a torn
ask leaves an approval that no task names; the approved next claim is torn by a crash; a
driver sees it READY and awaits another task; a request decides the first approval and thereby
fails the claim; the driver claims again and dispatches on what it saw.

## Not modelled, and the plan

Next, most important first:

1. `EngineeringDispatch` (`api/engineering.py` 46-64, 114-148): the creating state of a row, a
   repeated request id, several runs behind the execution lock.
2. In `Insurance`: a crash while the run, its tasks and its routes are being created (`Execute` is one step), which leaves a run
   of fewer tasks.
3. In `EngineeringExecution`: a process that dies with a container running, and the threads of earlier
   workspaces.

Left out for good: string and JSON processing (envelopes, prompts, statement targets, rendering,
splitting of command lines), HTTP clients, authentication (stateless), the append-only audit log, UI,
scripts, offline evaluation and the demo generator; they keep no state that steps of several actors
could disturb. Bit errors in stored files, symbolic links and paths are outside every module: a
content file may be lost, not altered, except for the damaged results of `EngineeringDelivery`.
