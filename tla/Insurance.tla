------------------------------ MODULE Insurance ------------------------------
(***************************************************************************)
(* The insurance workflow: its job (app/api/insurance_poc.py), the routes   *)
(* and tasks it creates (app/insurance_poc/workflow.py) and the adapter that *)
(* executes the tasks (app/insurance_poc/runtime.py) with live models        *)
(* (live_agents.py), on top of the Workflow Controller, whose module this    *)
(* one extends.                                                             *)
(*                                                                          *)
(* Where the Controller dispatches a task the adapter takes over (work).    *)
(* It suspends only where a live model is awaited ("model"); its other steps *)
(* are separate because a crash can fall between two files written.         *)
(***************************************************************************)
EXTENDS WorkflowController, InsuranceRouting, PolicyGate, Sequences

CONSTANTS
  Job,            \* the first of the Drivers
  Declarable,     \* models a request may declare unavailable
  Measured,       \* latencies that may be measured for QWEN
  Injected,       \* the task that fails once (failure_injection_task)
  None,
  MaxCalls        \* bound on live calls

VARIABLES
  request,  \* what the routes were decided from
  live,     \* the tasks whose persisted route is a live provider
  stored,   \* the artifact store: content of each output
  listed,   \* outputs registered as artifacts of the run
  route,    \* route decisions: executed?, by which live call, calls counted
  work,     \* what the adapter does for each driver at a dispatch
  calls,    \* live calls answered so far, which number them
  job       \* the job: its status and whether it disclosed live calls

insuranceVars == <<vars, request, live, stored, listed, route, work, calls, job>>
files == <<stored, listed, route>>

(***************************************************************************)
(* TASK_SPECS, D14_EXPECTED_OUTPUTS and what each handler reads.            *)
(***************************************************************************)
\* In the order of their creation.
TASK_SPECS ==
  <<"evidence-extraction", "executive-orchestration", "product-analysis", "finance-analysis",
    "engineering-plan", "risk-review", "private-upload-policy", "artifact-synthesis",
    "verification", "release-approval">>

DependsOn(t) ==
  CASE t = "evidence-extraction" -> {}
    [] t = "executive-orchestration" -> {"evidence-extraction"}
    [] t \in {"product-analysis", "finance-analysis"} -> {"executive-orchestration"}
    [] t \in {"engineering-plan", "risk-review"} -> {"product-analysis", "finance-analysis"}
    [] t = "private-upload-policy" -> {"risk-review"}
    [] t = "artifact-synthesis" -> {"engineering-plan", "risk-review", "private-upload-policy"}
    [] t = "verification" -> {"artifact-synthesis"}
    [] OTHER -> {"verification"}

Local == [operation |-> "read", command |-> "none", blockedTool |-> FALSE, risks |-> {}]
PolicyAction(t) ==
  CASE t = "private-upload-policy" ->
         [Local EXCEPT !.operation = "upload", !.risks = {"external_write", "private_data"}]
    [] t = "release-approval" -> [Local EXCEPT !.operation = "message", !.risks = {"external_write"}]
    [] OTHER -> Local

\* What the Controller is told of the tasks.
PlanRank == [t \in TaskKeys |-> CHOOSE i \in 1..Len(TASK_SPECS) : TASK_SPECS[i] = t]
PlanDeps == [t \in TaskKeys |-> DependsOn(t)]
PlanPolicy == [t \in TaskKeys |-> Disposition(PolicyAction(t))]

\* In the order they are written; the six final artifacts of the
\* verification between its log and its report are one here.
Outputs(t) ==
  CASE t = "private-upload-policy" -> <<>>
    [] t = "verification" -> <<"conflict-resolution-log", "final-artifacts", "verification-report">>
    [] OTHER -> <<t>>
Slots == UNION {{Outputs(t)[i] : i \in 1..Len(Outputs(t))} : t \in TaskKeys}

Reads(t, isLive) ==
  CASE t = "engineering-plan" /\ ~isLive -> {"finance-analysis"}
    [] t = "engineering-plan" /\ isLive -> {"product-analysis", "finance-analysis"}
    [] t = "risk-review" /\ ~isLive -> {"product-analysis"}
    [] t = "risk-review" /\ isLive -> {"product-analysis", "finance-analysis"}
    [] t = "artifact-synthesis" ->
         {"product-analysis", "finance-analysis", "engineering-plan", "risk-review"}
    [] t = "verification" -> {"artifact-synthesis"}
    [] t = "release-approval" -> {"verification-report"}
    [] OTHER -> {}

(***************************************************************************)
(* State.                                                                   *)
(***************************************************************************)
\* An output: the live call that made it (0 is a deterministic handler), the
\* decision mode it states, the outputs it was derived from and their makers.
Call == 0..MaxCalls
Mode == {"none", "safe", "autonomous"}
Content == [maker : Call, mode : Mode, read : SUBSET (Slots \X Call)]
Silent == [maker |-> 0, mode |-> "none", read |-> {}]

\* todo: the outputs left to write; say: their content; counted: the route is
\* to say that live calls were made.
NoWork == [at |-> "none", todo |-> <<>>, say |-> Silent, counted |-> FALSE]
Work == [at : {"none", "model", "write", "register", "mark", "fail"}, todo : Seq(Slots),
         say : Content, counted : BOOLEAN]

RoutingRequest == [unavailable : SUBSET Declarable, healthy : SUBSET Live,
             latency : UNION {[S -> Measured] : S \in SUBSET {QWEN}},
             restricted : {TRUE}, cloud : {FALSE}]

\* Contents differ in what is stored, so the Controller needs one word for a bundle.
ASSUME GoldenPlan ==
  /\ Tasks = TaskKeys /\ Rank = PlanRank /\ Deps = PlanDeps /\ Policy = PlanPolicy
  /\ ExpectedDenied = {"private-upload-policy"} /\ Contents = {"bundle"}
ASSUME JobDrives == Job \in Drivers
ASSUME Values == Measured \subseteq Nat /\ None \notin Content /\ MaxCalls \in Nat

NewRoute == [executed |-> FALSE, call |-> 0, counted |-> FALSE]
NewJob == [status |-> "new", told |-> FALSE]

InsuranceInit ==
  /\ Init /\ run = "queued"
  /\ request \in RoutingRequest /\ live = {}
  /\ stored = [s \in Slots |-> None] /\ listed = {}
  /\ route = [t \in TaskKeys |-> NewRoute]
  /\ work = [d \in Drivers |-> NoWork]
  /\ calls = 0 /\ job = NewJob

(***************************************************************************)
(* InsurancePOCGoldenWorkflow.execute.                                      *)
(***************************************************************************)
SelectedFor(t) == Selected(RULES[t], request)

\* _persist_routes.
LiveRoutes == {t \in TaskKeys : SelectedFor(t) \in Live}

NotExecutable(t) ==
  \/ Viable(RULES[t], request) = {}
  \/ SelectedFor(t) = HUMAN_REVIEW
  \/ SelectedFor(t) \in Live /\ t \notin {"engineering-plan", "risk-review"}

\* The job fails before a run is created.
Refuse ==
  /\ job.status = "new" /\ \E t \in TaskKeys : NotExecutable(t)
  /\ job' = [job EXCEPT !.status = "refused"]
  /\ UNCHANGED <<vars, request, live, files, work, calls>>

\* The run, its tasks and their routes are created and driven.  From here on
\* the request is of no interest.
Execute ==
  /\ job.status = "new" /\ ~\E t \in TaskKeys : NotExecutable(t)
  /\ job' = [job EXCEPT !.status = "running"] /\ Request(Job)
  /\ live' = LiveRoutes
  /\ request' = [request EXCEPT !.unavailable = {}, !.healthy = {}, !.latency = <<>>]
  /\ UNCHANGED <<files, work, calls>>

\* The job's driver has ended.  Stopped at one pending approval the job is
\* completed, and counts the live calls of the routes for its disclosure.
Pending == {p \in Tasks \X Attempt : approval[p[1]][p[2]] = "pending"}
JobGoesOn(d) ==
  job' = IF d # Job \/ driver'[d].pc \notin Ended THEN job
         ELSE [status |-> IF driver'[d].pc = "ended" /\ \E p \in Pending : Pending = {p}
                          THEN "completed" ELSE "failed",
               told |-> \E t \in TaskKeys : route[t].counted]

(***************************************************************************)
(* Requests.                                                                *)
(***************************************************************************)
\* No adapter is between two awaits.
Free == \A d \in Drivers : work[d].at \in {"none", "model"}

\* retry_run, or the Founder decides, which resumes the run.
Arrive(d) ==
  /\ d # Job /\ Free /\ job.status \notin {"new", "refused"} /\ Request(d)
  /\ UNCHANGED <<request, live, files, work, calls, job>>

Lapse ==
  /\ Free /\ \E t \in Tasks, n \in Attempt : Expire(t, n)
  /\ UNCHANGED <<overlapped, request, live, files, work, calls, job>>

(***************************************************************************)
(* The Controller.                                                          *)
(***************************************************************************)
\* _risk and _risk_live: the evidence is never authoritative.
AcceptedMode(asked) == "safe"

\* requested: by the scenario, or by the model that reviewed the risks.
ModeOf(t, requested) ==
  CASE t = "product-analysis" -> "autonomous"
    [] t = "risk-review" -> AcceptedMode(requested)
    [] t = "artifact-synthesis" -> stored["product-analysis"].mode
    [] t = "verification" -> stored["risk-review"].mode
    [] OTHER -> "none"

Derived(t, maker, requested, isLive) ==
  [maker |-> maker, mode |-> ModeOf(t, requested),
   read |-> {<<s, stored[s].maker>> : s \in Reads(t, isLive)}]

\* dispatch: a handler derives its outputs from its inputs, a live task awaits.
Started(t, attempt) ==
  LET inputs == Reads(t, t \in live) \subseteq listed
      fails == ~inputs \/ (attempt = 1 /\ t = Injected)
      at == IF fails THEN "fail" ELSE IF t \in live THEN "model" ELSE "write"
  IN [at |-> at, todo |-> Outputs(t), counted |-> FALSE,
      say |-> IF at = "write" THEN Derived(t, 0, "autonomous", FALSE) ELSE Silent]

\* A step of the Controller; if it dispatches a task the adapter starts.
Control(d) ==
  /\ Free
  /\ \/ Enter(d) \/ Recover(d) \/ Blocked(d) \/ Activate(d) \/ Ready(d) \/ CompleteClaimed(d) \/ Settle(d)
  /\ work' = IF driver'[d].pc # "call" THEN work
             ELSE LET t == driver'[d].at IN [work EXCEPT ![d] = Started(t, task'[t].attempts)]
  /\ JobGoesOn(d)
  /\ UNCHANGED <<overlapped, request, live, files, calls>>

(***************************************************************************)
(* The adapter.                                                             *)
(***************************************************************************)
Await(d) == Free /\ Resumed(d) /\ work[d].at = "model"

\* _engineering_live, _risk_live.
LiveAnswers(d) ==
  /\ Await(d) /\ calls < MaxCalls /\ calls' = calls + 1
  /\ \E recommended \in {"safe", "autonomous"} :
       work' = [work EXCEPT ![d].at = "write", ![d].counted = TRUE,
                            ![d].say = Derived(driver[d].at, calls + 1, recommended, TRUE)]
  /\ UNCHANGED <<vars, request, live, files, job>>

\* The deterministic handler does the task instead.
FallBack(d, counted) ==
  work' = [work EXCEPT ![d].at = "write", ![d].counted = counted,
                       ![d].say = Derived(driver[d].at, 0, "autonomous", FALSE)]

\* Mutant: only an invalid answer is made up for, not a failing Gateway.
GatewayFailsHard(d) ==
  /\ Await(d) /\ work' = [work EXCEPT ![d].at = "fail"]
  /\ UNCHANGED <<vars, request, live, files, calls, job>>

\* Also when the answer to be repaired was paid for already.
GatewayFails(d) ==
  /\ Await(d) /\ FallBack(d, FALSE)
  /\ UNCHANGED <<vars, request, live, files, calls, job>>

\* The answer and its repair do not validate; both calls count.
AnswersInvalid(d) ==
  /\ Await(d) /\ FallBack(d, TRUE)
  /\ UNCHANGED <<vars, request, live, files, calls, job>>

\* Mutant: the last write wins.
WriteLastWins(d) ==
  /\ work[d].at = "write" /\ work' = [work EXCEPT ![d].at = "register"]
  /\ stored' = [stored EXCEPT ![Head(work[d].todo)] = work[d].say]
  /\ UNCHANGED <<vars, request, live, listed, route, calls, job>>

\* The key of a write is run, task and name: other content under it is a
\* conflict, which no handler catches.
Write(d) ==
  /\ work[d].at = "write"
  /\ LET s == Head(work[d].todo) IN
       \/ /\ stored[s] \in {None, work[d].say} /\ work' = [work EXCEPT ![d].at = "register"]
          /\ stored' = [stored EXCEPT ![s] = work[d].say]
       \/ /\ stored[s] \notin {None, work[d].say} /\ work' = [work EXCEPT ![d].at = "fail"]
          /\ stored' = stored
  /\ UNCHANGED <<vars, request, live, listed, route, calls, job>>

\* With the last output the bundle is whole.
Register(d) ==
  /\ work[d].at = "register"
  /\ listed' = listed \cup {Head(work[d].todo)}
  /\ \/ /\ Len(work[d].todo) > 1 /\ UNCHANGED vars
        /\ work' = [work EXCEPT ![d].todo = Tail(@), ![d].at = "write"]
     \/ /\ Len(work[d].todo) = 1 /\ CallSucceeds(d, "bundle") /\ UNCHANGED overlapped
        /\ work' = [work EXCEPT ![d].todo = <<>>, ![d].at = "mark"]
  /\ UNCHANGED <<request, live, stored, route, calls, job>>

\* Mutant: calls are counted only when they succeed at once.
MarkUncounted(d) ==
  /\ work[d].at = "mark" /\ work' = [work EXCEPT ![d] = NoWork]
  /\ route' = [route EXCEPT ![driver[d].at] =
       IF @.executed THEN @ ELSE [executed |-> TRUE, call |-> work[d].say.maker, counted |-> FALSE]]
  /\ UNCHANGED <<vars, request, live, stored, listed, calls, job>>

\* mark_route_executed: the first execution stays.
Mark(d) ==
  /\ work[d].at = "mark" /\ work' = [work EXCEPT ![d] = NoWork]
  /\ route' = [route EXCEPT ![driver[d].at] =
       IF @.executed THEN @
       ELSE [executed |-> TRUE, call |-> work[d].say.maker, counted |-> work[d].counted]]
  /\ UNCHANGED <<vars, request, live, stored, listed, calls, job>>

\* The adapter raises, and the Controller takes the failure.
Fail(d) ==
  /\ work[d].at = "fail" /\ CallFails(d, NoContent)
  /\ work' = [work EXCEPT ![d] = NoWork] /\ JobGoesOn(d)
  /\ UNCHANGED <<overlapped, request, live, files, calls>>

(***************************************************************************)
(* Crashes: drivers, their work and the job live in memory only.            *)
(***************************************************************************)
\* A crash between two writes of the Controller.
TornControl(d) ==
  \/ /\ Free
     /\ \/ \E t \in Tasks : TornClaim(d, t) \/ TornAsk(d, t) \/ TornClose(d, t)
        \/ driver[d].pc = "recover" /\ \E t \in Tasks : TornFailure(d, t)
        \/ d # Job /\ \E t \in Tasks, n \in Attempt, decision \in {"approved", "rejected"} :
                        TornResolve(d, t, n, decision)
  \/ work[d].at = "fail" /\ TornFailure(d, driver[d].at)

Die ==
  /\ Crash \/ \E d \in Drivers : TornControl(d)
  /\ work' = [d \in Drivers |-> NoWork]
  /\ job' = IF job.status = "running" THEN [job EXCEPT !.status = "gone"] ELSE job
  /\ UNCHANGED <<overlapped, request, live, files, calls>>

Adapt(d) ==
  \/ LiveAnswers(d) \/ GatewayFails(d) \/ AnswersInvalid(d)
  \/ Write(d) \/ Register(d) \/ Mark(d) \/ Fail(d)

InsuranceNext ==
  \/ Refuse \/ Execute \/ Lapse \/ Die
  \/ \E d \in Drivers : Arrive(d) \/ Control(d) \/ Adapt(d)

InsuranceSpec == InsuranceInit /\ [][InsuranceNext]_insuranceVars

(***************************************************************************)
(* Properties.                                                              *)
(***************************************************************************)
InsuranceTypeOK ==
  /\ request \in RoutingRequest /\ live \subseteq TaskKeys
  /\ stored \in [Slots -> Content \cup {None}] /\ listed \subseteq Slots
  /\ route \in [TaskKeys -> [executed : BOOLEAN, call : Call, counted : BOOLEAN]]
  /\ work \in [Drivers -> Work]
  /\ calls \in Call
  /\ job \in [status : {"new", "refused", "running", "completed", "failed", "gone"}, told : BOOLEAN]

\* What a task read is what its inputs still are, whoever answered when, and
\* through all of it the final report keeps the mode the governance allows,
\* though Product asks and a model may recommend otherwise.
LineageHolds ==
  /\ \A s \in listed : \A input \in stored[s].read :
       input[1] \in listed /\ stored[input[1]].maker = input[2]
  /\ "verification-report" \in listed => stored["verification-report"].mode = "safe"

\* A route that says it was executed names the call that made the output, and
\* a job that reports no live call has shipped nothing a live call made.
LiveIsDisclosed ==
  /\ \A t \in live : route[t].executed => stored[t] # None /\ stored[t].maker = route[t].call
  /\ job.status = "completed" /\ ~job.told => \A t \in live : stored[t].maker = 0

\* The Founder has refused the release, or has granted it and it lapsed.
Rejected == \E n \in Attempt : approval["release-approval"][n] = "rejected"
Lapsed == \E n \in Attempt :
  approval["release-approval"][n] = "approved" /\ <<"release-approval", n>> \in expired

\* A request has gone through all the cycles it asked for, and was not done.
OutOfCycles == \E d \in Drivers :
  driver[d].pc = "settle" /\ driver[d].progress /\ driver[d].cycle = MaxCycles[d]

\* No answer of a live model, late, invalid or missing, no injected failure and
\* no overlap of requests fails the run: it takes a crash, the Founder, or a request
\* that allows too few cycles.
FailureHasCause == crashes > 0 \/ Rejected' \/ Lapsed \/ OutOfCycles

\* Health and latency of the live models never make a request unexecutable: some
\* deterministic specialist was declared unavailable.
RefusalHasCause == \E t \in TaskKeys : RULES[t].local \in request.unavailable

\* A workflow ends badly only for a reason of its own.
OutcomeHasCause ==
  [][/\ run # "failed" /\ run' = "failed" => FailureHasCause
     /\ job.status # "refused" /\ job'.status = "refused" => RefusalHasCause]_insuranceVars
=============================================================================
