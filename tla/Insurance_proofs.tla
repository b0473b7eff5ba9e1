--------------------------- MODULE Insurance_proofs ---------------------------
(***************************************************************************)
(* Theorems about Insurance, for every set of requests, every health and    *)
(* latency of the models, every number of attempts, live calls and crashes. *)
(***************************************************************************)
EXTENDS Insurance, WorkflowController_proofs

\* A task in which a failure is injected has a second attempt (the default
\* of Task.max_attempts is 2, and the workflow sets no other).
InjectionIsSpared == Injected \in TaskKeys => MaxAttempts > 1

SlotsOf(t) == {Outputs(t)[i] : i \in 1..Len(Outputs(t))}

\* What is left to write of the outputs of a task.
Left(t) ==
  IF t = "verification"
    THEN {Outputs(t), <<"final-artifacts", "verification-report">>, <<"verification-report">>}
    ELSE {<<t>>}

(***************************************************************************)
(* The inductive invariant: what is stored.                                 *)
(***************************************************************************)
\* With the outputs st of which those in li are listed: what the content c of
\* an output s was derived from is still what it was, and the mode that was
\* decided stays.
Sound(s, c, st, li) ==
  /\ \A input \in c.read : input[1] \in li /\ st[input[1]].maker = input[2]
  /\ s \in {"risk-review"} \cup SlotsOf("verification") => c.mode = "safe"
  /\ s = "artifact-synthesis" => \E m \in Call : <<"risk-review", m>> \in c.read

StoreInv ==
  /\ \A s \in listed : stored[s] # None
  /\ \A s \in Slots : stored[s] # None => Sound(s, stored[s], stored, listed)
  /\ \A t \in TaskKeys : task[t].out => SlotsOf(t) \subseteq listed

\* With the live tasks lv: what the adapter carries from one file to the next,
\* and past an await, for a task t.
WorkOK(w, t, st, li, lv) ==
  /\ w.at # "none" => t # "private-upload-policy"
  /\ w.at = "model" => t \in lv /\ Reads(t, TRUE) \subseteq li /\ w.todo = Outputs(t)
  /\ w.at \in {"write", "register"} =>
       w.todo \in Left(t) /\ \A s \in SlotsOf(t) : s \in li \/ \E i \in 1..Len(w.todo) : w.todo[i] = s
  /\ w.at \in {"write", "register", "mark"} =>
       /\ \A s \in SlotsOf(t) : Sound(s, w.say, st, li)
       /\ w.say.maker # 0 => w.counted
  /\ w.at = "register" => st[Head(w.todo)] = w.say
  /\ w.at = "mark" /\ t \in lv => st[t] = w.say

Writes == {"write", "register", "mark", "fail"}
Busy(d) == driver[d].pc \in Sync \/ work[d].at \in Writes

\* The adapter works for drivers that wait for it, for one at a time.
WorkInv ==
  /\ \A d \in Drivers :
       /\ work[d].at \in {"model", "write", "register", "fail"} => driver[d].pc = "call"
       /\ work[d].at = "mark" => driver[d].pc = "returned"
       /\ WorkOK(work[d], driver[d].at, stored, listed, live)
  /\ \A d, e \in Drivers : Busy(d) /\ Busy(e) => d = e

(***************************************************************************)
(* The inductive invariant: routes and the job.                             *)
(***************************************************************************)
RouteInv ==
  /\ live \subseteq {"engineering-plan", "risk-review"}
  /\ \A t \in live : route[t].executed =>
       /\ stored[t] # None /\ stored[t].maker = route[t].call
       /\ route[t].call # 0 => route[t].counted

\* Unless a crash came in between, a whole bundle has its route marked.
Marking(t) == \E d \in Drivers : work[d].at = "mark" /\ driver[d].at = t
MarkInv == crashes = 0 => \A t \in TaskKeys : task[t].out => route[t].executed \/ Marking(t)

\* Before the job has decided nothing has happened.
FreshInv ==
  job.status \in {"new", "refused"} =>
    /\ live = {} /\ crashes = 0 /\ run = "queued"
    /\ \A t \in TaskKeys : ~route[t].executed /\ task[t].status = "pending"
    /\ \A d \in Drivers : driver[d].pc = "new"

AskedInv == \A t \in TaskKeys, n \in Attempt : approval[t][n] # "none" => Policy[t] = "approve"

JobInv ==
  /\ FreshInv
  /\ job.status = "running" => crashes = 0
  /\ Active(Job) => job.status = "running"
  /\ job.status = "completed" /\ ~job.told =>
       \A t \in live : stored[t] # None /\ stored[t].maker = 0

(***************************************************************************)
(* The inductive invariant: a cycle in which nothing is done.               *)
(***************************************************************************)
CycleOK(d) ==
  LET pc == driver[d].pc  todo == driver[d].todo IN
  /\ driver[d].cycle <= MaxCycles[d]
  /\ pc \in {"call", "returned"} => driver[d].progress
  /\ pc \in Sync \ {"enter"} /\ ~driver[d].progress =>
       /\ IF pc = "recover" THEN todo = WithStatus("running") ELSE WithStatus("running") = {}
       /\ pc = "blocked" => todo = WithStatus("blocked")
       /\ pc \in {"activate", "ready", "settle"} => WithStatus("blocked") = {}
       /\ pc = "activate" => todo = Runnable
       /\ pc \in {"ready", "settle"} => Runnable = {}
       /\ pc = "ready" => todo = WithStatus("ready")
       /\ pc = "settle" => WithStatus("ready") = {}

CycleInv == \A d \in Drivers : CycleOK(d)

\* No plan is asked for.
NoPlan == plan = "none"

(***************************************************************************)
(* The inductive invariant: as long as no crash and no Founder interferes.  *)
(***************************************************************************)
Calm == crashes = 0 /\ ~Rejected /\ ~Lapsed /\ InjectionIsSpared

Release == "release-approval"

\* The task is held under this claim, past the injected failure.
Holds(t, n) == Owned(t, n) /\ (t = Injected => n # 1)

CalmTask(t) ==
  /\ task[t].status # "failed"
  /\ t = "private-upload-policy" => task[t].status \in {"pending", "ready", "cancelled"}
  /\ task[t].status \in {"pending", "ready", "blocked"} => task[t].claim = 0 /\ task[t].attempts < MaxAttempts
  /\ task[t].status = "running" =>
       /\ task[t].claim # 0
       /\ t = Release => task[t].link = task[t].claim /\ approval[t][task[t].claim] = "approved"
       /\ t = Injected /\ t # Release /\ task[t].claim = 1 =>
            \E d \in Drivers : work[d].at = "fail" /\ driver[d].at = t
  /\ \A n \in Attempt : approval[t][n] = "pending" => task[t].status = "waiting_approval" /\ task[t].link = n

\* What a driver remembers of the tasks it is still to go through.
CalmTodo(d) ==
  /\ InLoop(d, "recover") => \A u \in driver[d].todo :
       \/ task[u].status = "completed" /\ u # Release
       \/ Holds(u, driver[d].view[u].claim)
       \/ u = Release /\ Owned(u, driver[d].view[u].claim)
  /\ driver[d].pc \in {"recover", "ready", "call", "returned"} /\ Release \in driver[d].todo =>
       /\ driver[d].todo = {Release} /\ driver[d].pc \in {"recover", "ready"}
       /\ driver[d].pc = "recover" => driver[d].view[Release].approved
       /\ driver[d].pc = "ready" => task[Release].status = "ready" /\ ~driver[d].view[Release].approved

\* The task a driver is at.
CalmCall(d) ==
  LET t == driver[d].at  n == driver[d].view[t].claim IN
  /\ work[d].at \in {"model", "write", "register", "mark"} \/ driver[d].pc = "returned" =>
       task[t].status = "completed" \/ Holds(t, n)
  /\ work[d].at = "fail" =>
       task[t].status = "completed" \/ (t = Injected /\ n = 1 /\ Owned(t, n))

Unwritten(w) ==
  CASE w.at = "write" -> {w.todo[i] : i \in 1..Len(w.todo)}
    [] w.at = "register" -> {w.todo[i] : i \in 2..Len(w.todo)}
    [] OTHER -> {}

\* A task has its output s from the driver that is finishing it.
Finishing(t, s) ==
  \E d \in Drivers :
    /\ work[d].at \in {"write", "register"} \/ driver[d].pc = "returned"
    /\ driver[d].at = t /\ s \notin Unwritten(work[d])

\* What is stored belongs to a completed task, or is being finished.
Settled ==
  \A t \in TaskKeys : \A s \in SlotsOf(t) :
    stored[s] # None => task[t].status = "completed" \/ Finishing(t, s)

CalmBody ==
  /\ Settled
  /\ \A t \in TaskKeys : CalmTask(t)
  /\ \A d \in Drivers : CalmTodo(d) /\ CalmCall(d)

CalmInv == Calm => CalmBody
(***************************************************************************)
(* The tables.                                                              *)
(***************************************************************************)
LEMMA Keys ==
  TaskKeys = {"evidence-extraction", "executive-orchestration", "product-analysis", "finance-analysis",
              "engineering-plan", "risk-review", "private-upload-policy", "artifact-synthesis",
              "verification", "release-approval"}
BY DEF TaskKeys, RULES

LEMMA OutputFields ==
  ASSUME NEW t
  PROVE  /\ t \notin {"verification", "private-upload-policy"} => Outputs(t) = <<t>> /\ SlotsOf(t) = {t}
         /\ t = "private-upload-policy" => Outputs(t) = <<>> /\ SlotsOf(t) = {}
         /\ t = "verification" =>
              /\ Outputs(t) = <<"conflict-resolution-log", "final-artifacts", "verification-report">>
              /\ SlotsOf(t) = {"conflict-resolution-log", "final-artifacts", "verification-report"}
<1>1. CASE t \notin {"verification", "private-upload-policy"}
  <2>1. Outputs(t) = <<t>>
    BY <1>1 DEF Outputs
  <2> QED  BY <1>1, <2>1 DEF SlotsOf
<1>2. CASE t = "private-upload-policy"
  <2>1. Outputs(t) = <<>>
    BY <1>2 DEF Outputs
  <2> QED  BY <1>2, <2>1 DEF SlotsOf
<1>3. CASE t = "verification"
  <2>1. Outputs(t) = <<"conflict-resolution-log", "final-artifacts", "verification-report">>
    BY <1>3 DEF Outputs
  <2> QED  BY <1>3, <2>1 DEF SlotsOf
<1> QED  BY <1>1, <1>2, <1>3

LEMMA AllSlots ==
  /\ \A t \in TaskKeys : SlotsOf(t) \subseteq Slots
  /\ \A s \in Slots : \E t \in TaskKeys : s \in SlotsOf(t)
BY DEF Slots, SlotsOf

\* Two tasks have no output in common.
LEMMA SlotsDiffer ==
  ASSUME NEW t \in TaskKeys, NEW u \in TaskKeys, NEW s \in SlotsOf(t), s \in SlotsOf(u)
  PROVE  t = u
BY Keys, OutputFields

LEMMA LeftFields ==
  ASSUME NEW t \in TaskKeys, t # "private-upload-policy", NEW x \in Left(t)
  PROVE  /\ x \in Seq(Slots) /\ Len(x) \in 1..3 /\ Outputs(t) \in Left(t)
         /\ Head(x) = x[1] /\ Head(x) \in SlotsOf(t)
         /\ \A i \in 2..Len(x) : x[i] # Head(x)
         /\ Len(x) # 1 => Tail(x) \in Left(t)
         /\ Tail(x) \in Seq(Slots) /\ Len(Tail(x)) = Len(x) - 1 /\ \A i \in 1..(Len(x) - 1) : Tail(x)[i] = x[i + 1]
         /\ t # "verification" => x = <<t>>
<1>1. CASE t # "verification"
  <2>1. x = <<t>> /\ Outputs(t) = <<t>> /\ SlotsOf(t) = {t} /\ Left(t) = {<<t>>}
    BY <1>1, OutputFields DEF Left
  <2>2. t \in Slots
    BY <2>1, AllSlots
  <2> QED  BY <1>1, <2>1, <2>2
<1>2. CASE t = "verification"
  <2>1. {"conflict-resolution-log", "final-artifacts", "verification-report"} \subseteq Slots
    BY <1>2, OutputFields, AllSlots
  <2>2. Outputs(t) = <<"conflict-resolution-log", "final-artifacts", "verification-report">>
    BY <1>2, OutputFields
  <2>3. \/ x = <<"conflict-resolution-log", "final-artifacts", "verification-report">>
        \/ x = <<"final-artifacts", "verification-report">>
        \/ x = <<"verification-report">>
    BY <1>2, <2>2 DEF Left
  <2>4. SlotsOf(t) = {"conflict-resolution-log", "final-artifacts", "verification-report"}
    BY <1>2, OutputFields
  <2>5. CASE x = <<"conflict-resolution-log", "final-artifacts", "verification-report">>
    BY <1>2, <2>1, <2>2, <2>4, <2>5 DEF Left
  <2>6. CASE x = <<"final-artifacts", "verification-report">>
    BY <1>2, <2>1, <2>2, <2>4, <2>6 DEF Left
  <2>7. CASE x = <<"verification-report">>
    BY <1>2, <2>1, <2>2, <2>4, <2>7 DEF Left
  <2> QED  BY <2>3, <2>5, <2>6, <2>7
<1> QED  BY <1>1, <1>2

LEMMA ReadFields ==
  ASSUME NEW t \in TaskKeys
  PROVE  /\ Reads(t, TRUE) \subseteq Slots /\ Reads(t, FALSE) \subseteq Reads(t, TRUE)
<1>1. {"product-analysis", "finance-analysis", "engineering-plan", "risk-review",
       "artifact-synthesis", "verification-report"} \subseteq Slots
  BY Keys, OutputFields, AllSlots
<1> QED  BY <1>1, Keys DEF Reads

\* What the Controller was told of the tasks.
LEMMA Plan ==
  /\ Tasks = TaskKeys /\ ExpectedDenied = {"private-upload-policy"} /\ Contents = {"bundle"}
  /\ \A t \in TaskKeys : Deps[t] = DependsOn(t) /\ Policy[t] = Disposition(PolicyAction(t))
BY GoldenPlan DEF PlanDeps, PlanPolicy

\* What a task depends on has been done.
LEMMA DoneBefore ==
  ASSUME TaskInv, NEW t \in TaskKeys, task[t].status # "pending"
  PROVE  \A u \in DependsOn(t) :
           /\ u # "private-upload-policy" => task[u].status = "completed"
           /\ u = "private-upload-policy" => task[u].status \in {"completed", "cancelled"}
<1>1. \A u \in DependsOn(t) : Satisfied(u)
  BY Plan DEF TaskInv
<1> QED  BY <1>1, Plan DEF Satisfied

\* And what that depended on before it: everything a task reads is there.
LEMMA InputsThere ==
  ASSUME TaskInv, StoreInv, NEW t \in TaskKeys, task[t].status # "pending"
  PROVE  Reads(t, TRUE) \subseteq listed
<1> DEFINE Finished(u) == task[u].status = "completed"
<1>1. ASSUME NEW u \in TaskKeys, u = t \/ Finished(u)
      PROVE  \A v \in DependsOn(u) : v # "private-upload-policy" => Finished(v)
  BY <1>1, DoneBefore
<1>2. \A u \in TaskKeys : Finished(u) => SlotsOf(u) \subseteq listed
  BY Plan DEF TaskInv, StoreInv
<1> HIDE DEF Finished
<1>3. \A u \in TaskKeys : u \notin {"private-upload-policy", "verification"} /\ Finished(u) => u \in listed
  BY <1>2, OutputFields
<1>4. Finished("verification") => "verification-report" \in listed
  BY <1>2, Keys, OutputFields
<1>5. CASE t \in {"engineering-plan", "risk-review"}
  BY <1>1, <1>3, <1>5, Keys DEF DependsOn, Reads
<1>6. CASE t = "artifact-synthesis"
  <2>1. Finished("engineering-plan") /\ Finished("risk-review")
    BY <1>1, <1>6, Keys DEF DependsOn
  <2>2. Finished("product-analysis") /\ Finished("finance-analysis")
    BY <1>1, <2>1, Keys DEF DependsOn
  <2> QED  BY <1>3, <1>6, <2>1, <2>2, Keys DEF Reads
<1>7. CASE t = "verification"
  BY <1>1, <1>3, <1>7, Keys DEF DependsOn, Reads
<1>8. CASE t = "release-approval"
  BY <1>1, <1>4, <1>8, Keys DEF DependsOn, Reads
<1>9. CASE t \notin {"engineering-plan", "risk-review", "artifact-synthesis", "verification", "release-approval"}
  BY <1>9 DEF Reads
<1> QED  BY <1>5, <1>6, <1>7, <1>8, <1>9

\* The release waits for everything before it.
LEMMA ReleaseIsLast ==
  ASSUME TaskInv, task[Release].status # "pending"
  PROVE  \A t \in TaskKeys \ {Release} :
           /\ t # "private-upload-policy" => task[t].status = "completed"
           /\ task[t].status \in {"completed", "cancelled"}
<1> DEFINE Finished(u) == task[u].status = "completed"
<1>1. ASSUME NEW u \in TaskKeys, u = Release \/ Finished(u)
      PROVE  \A v \in DependsOn(u) : v # "private-upload-policy" => Finished(v)
  BY <1>1, DoneBefore
<1> HIDE DEF Finished
<1>2. Finished("verification")
  BY <1>1, Keys DEF DependsOn, Release
<1>3. Finished("artifact-synthesis")
  BY <1>1, <1>2, Keys DEF DependsOn
<1>4. Finished("engineering-plan") /\ Finished("risk-review")
  BY <1>1, <1>3, Keys DEF DependsOn
<1>5. Finished("product-analysis") /\ Finished("finance-analysis")
  BY <1>1, <1>4, Keys DEF DependsOn
<1>6. Finished("executive-orchestration")
  BY <1>1, <1>5, Keys DEF DependsOn
<1>7. Finished("evidence-extraction")
  BY <1>1, <1>6, Keys DEF DependsOn
<1>8. task["private-upload-policy"].status \in {"completed", "cancelled"}
  <2>1. task["artifact-synthesis"].status # "pending"
    BY <1>3 DEF Finished
  <2> QED  BY <2>1, DoneBefore, Keys DEF DependsOn
<1> QED  BY <1>2, <1>3, <1>4, <1>5, <1>6, <1>7, <1>8, Keys DEF Finished, Release

\* What the policy gate says of each task.
LEMMA Gate ==
  ASSUME NEW t
  PROVE  /\ Disposition(PolicyAction(t)) = "deny" <=> t = "private-upload-policy"
         /\ Disposition(PolicyAction(t)) = "approve" <=> t = "release-approval"
<1>1. CASE t = "private-upload-policy"
  <2>1. /\ PolicyAction(t).operation = "upload" /\ PolicyAction(t).command = "none"
        /\ "private_data" \in PolicyAction(t).risks
    BY <1>1 DEF PolicyAction, Local
  <2> QED  BY <1>1, <2>1 DEF Disposition, Denied
<1>2. CASE t = "release-approval"
  <2>1. /\ PolicyAction(t).operation = "message" /\ PolicyAction(t).command = "none"
        /\ PolicyAction(t).risks = {"external_write"} /\ ~PolicyAction(t).blockedTool
    BY <1>2 DEF PolicyAction, Local
  <2> QED  BY <1>2, <2>1 DEF Disposition, Denied, ApprovalRules
<1>3. CASE t \notin {"private-upload-policy", "release-approval"}
  <2>1. PolicyAction(t) = Local
    BY <1>3 DEF PolicyAction
  <2>2. /\ Local.operation = "read" /\ Local.command = "none" /\ ~Local.blockedTool /\ Local.risks = {}
    BY DEF Local
  <2> QED  BY <1>3, <2>1, <2>2 DEF Disposition, Denied, ApprovalRules
<1> QED  BY <1>1, <1>2, <1>3

LEMMA Policies ==
  ASSUME NEW t \in TaskKeys
  PROVE  /\ Policy[t] = "deny" <=> t = "private-upload-policy"
         /\ Policy[t] = "approve" <=> t = Release
BY Plan, Gate DEF Release

(***************************************************************************)
(* The router: a specialist that is available is good enough.               *)
(***************************************************************************)
LEMMA RuleFields ==
  ASSUME NEW t \in TaskKeys
  PROVE  /\ RULES[t].latency \in {500, 2000, 5000, 8000} /\ RULES[t].cost \in {0, 50}
         /\ RULES[t].local \notin {QWEN, STEP, GENERIC_LOCAL, HUMAN_REVIEW}
         /\ RULES[t].semantic \in BOOLEAN /\ RULES[t].raw \in BOOLEAN
         /\ RULES[t].semantic <=> t \in {"engineering-plan", "risk-review"}
         /\ RULES[t].raw => RULES[t].latency = 2000
BY Keys DEF RULES, Rule, QWEN, STEP, GENERIC_LOCAL, HUMAN_REVIEW

\* The share of a budget l that n leaves, in ten thousandths.
Share(l, n) == AtLeastZero(((l - n) * 10000) \div l)

LEMMA ShareFields ==
  ASSUME NEW l \in Nat \ {0}, NEW n \in Nat
  PROVE  Share(l, n) \in Nat /\ Share(l, n) <= 10000
<1> DEFINE m == (l - n) * 10000
<1>1. m \in Int /\ m <= 10000 * l
  OBVIOUS
<1> HIDE DEF m
<1>2. m \div l \in Int /\ m \div l <= 10000
  BY <1>1
<1>3. AtLeastZero(m \div l) \in Nat /\ AtLeastZero(m \div l) <= 10000
  BY <1>2 DEF AtLeastZero
<1> QED  BY <1>3 DEF m, Share

\* The candidates a restricted request leaves, their positions and latencies.
LEMMA CandidateFields ==
  ASSUME NEW q \in RoutingRequest, NEW t \in TaskKeys, NEW c \in Candidates(RULES[t])
  PROVE  /\ c \in {QWEN, STEP, RULES[t].local, GENERIC_LOCAL, HUMAN_REVIEW}
         /\ Position(RULES[t], c) \in 1..5 /\ Preferred(RULES[t])[Position(RULES[t], c)] = c
         /\ Latency(c, RULES[t], q) \in Nat
         /\ c # QWEN => Latency(c, RULES[t], q) = ListedLatency(c, RULES[t])
<1>1. PICK i \in 1..5 : Preferred(RULES[t])[i] = c
  BY DEF Candidates
<1>2. c \in {QWEN, STEP, RULES[t].local, GENERIC_LOCAL, HUMAN_REVIEW}
  BY <1>1, RuleFields DEF Preferred
<1>3. Position(RULES[t], c) \in 1..5 /\ Preferred(RULES[t])[Position(RULES[t], c)] = c
  BY <1>1 DEF Position
<1>4. PICK S \in SUBSET {QWEN} : q.latency \in [S -> Measured]
  BY DEF RoutingRequest
<1>5. ListedLatency(c, RULES[t]) \in Nat
  BY DEF ListedLatency
<1>6. c \in DOMAIN q.latency => c = QWEN /\ q.latency[c] \in Nat
  BY <1>4, Values
<1> QED  BY <1>2, <1>3, <1>5, <1>6 DEF Latency

Merit(c, r) ==
  Quality(c, r) + SemanticFit(c, r) + (IF c = r.local THEN 20 ELSE 0) + 10
    - (IF c = HUMAN_REVIEW THEN 200 ELSE 0)

\* Latency and cost decide less than the rest of the score.
LEMMA ScoreFields ==
  ASSUME NEW q \in RoutingRequest, NEW t \in TaskKeys, NEW c \in Candidates(RULES[t]), c # STEP
  PROVE  /\ Score(c, RULES[t], q) \in Int /\ Merit(c, RULES[t]) \in Int
         /\ Score(c, RULES[t], q) >= 1000 * Merit(c, RULES[t])
         /\ Score(c, RULES[t], q) <= 1000 * Merit(c, RULES[t]) + 20000
<1> DEFINE r == RULES[t]
<1> DEFINE x == Share(r.latency, Latency(c, r, q))
<1> DEFINE y == IF r.cost = 0 THEN IF Cost(c) = 0 THEN 10000 ELSE 0 ELSE Share(r.cost, Cost(c))
<1>1. x \in Nat /\ x <= 10000
  <2> DEFINE l == r.latency
  <2> DEFINE n == Latency(c, r, q)
  <2>1. n \in Nat
    BY CandidateFields
  <2>2. l \in Nat \ {0}
    BY RuleFields
  <2> HIDE DEF l, n
  <2>3. Share(l, n) \in Nat /\ Share(l, n) <= 10000
    BY <2>1, <2>2, ShareFields
  <2> QED  BY <2>3 DEF l, n
<1>2. y \in Nat /\ y <= 10000
  <2>1. CASE r.cost = 0
    BY <2>1
  <2>2. CASE r.cost # 0
    <3> DEFINE l == r.cost
    <3> DEFINE n == Cost(c)
    <3>1. n \in Nat
      BY DEF Cost
    <3>2. l \in Nat \ {0}
      BY <2>2, RuleFields
    <3> HIDE DEF l, n
    <3>3. Share(l, n) \in Nat /\ Share(l, n) <= 10000
      BY <3>1, <3>2, ShareFields
    <3> QED  BY <2>2, <3>3 DEF l, n
  <2> QED  BY <2>1, <2>2
<1>3. Quality(c, r) \in Int /\ SemanticFit(c, r) \in Int
  BY DEF Quality, SemanticFit
<1>4. q.restricted
  BY DEF RoutingRequest
<1>5. Merit(c, r) \in Int
  BY <1>3 DEF Merit
<1>6. Score(c, r, q) = 1000 * Merit(c, r) + x + y
  BY <1>4 DEF Score, Merit, Share
<1> HIDE DEF x, y, r
<1>7. /\ Score(c, r, q) \in Int /\ Merit(c, r) \in Int
      /\ Score(c, r, q) >= 1000 * Merit(c, r) /\ Score(c, r, q) <= 1000 * Merit(c, r) + 20000
  BY <1>1, <1>2, <1>5, <1>6
<1> QED  BY <1>7 DEF r

\* Of the candidates that are left one is best.
LEMMA SelectedIsBest ==
  ASSUME NEW q \in RoutingRequest, NEW t \in TaskKeys, Viable(RULES[t], q) # {}
  PROVE  /\ Selected(RULES[t], q) \in Viable(RULES[t], q)
         /\ \A d \in Viable(RULES[t], q) : Score(Selected(RULES[t], q), RULES[t], q) >= Score(d, RULES[t], q)
<1> DEFINE r == RULES[t]
<1> DEFINE V == Viable(r, q)
<1> DEFINE Worth(c) == 10 * Score(c, r, q) - Position(r, c)
<1>1. \A c \in V : c \in Candidates(r) /\ c \in {QWEN, r.local, GENERIC_LOCAL, HUMAN_REVIEW} /\ c # STEP
  <2> SUFFICES ASSUME NEW c \in V PROVE c \in Candidates(r) /\ c # STEP
    BY CandidateFields
  <2>1. q.restricted
    BY DEF RoutingRequest
  <2> QED  BY <2>1 DEF Viable, Excluded
<1>2. \A c \in V : Score(c, r, q) \in Int /\ Position(r, c) \in 1..5 /\ Preferred(r)[Position(r, c)] = c
  BY <1>1, ScoreFields, CandidateFields
<1>3. \A c \in V : Worth(c) \in Int
  BY <1>2
<1> HIDE DEF Worth
<1>4. \E m \in V : \A c \in V : Worth(m) >= Worth(c)
  BY <1>1, <1>3
<1>5. PICK m \in V : \A c \in V : Worth(m) >= Worth(c)
  BY <1>4
<1>6. \A d \in V \ {m} : \/ Score(m, r, q) > Score(d, r, q)
                         \/ Score(m, r, q) = Score(d, r, q) /\ Position(r, m) < Position(r, d)
  BY <1>2, <1>5 DEF Worth
<1> DEFINE Best(c) == \A d \in V \ {c} : \/ Score(c, r, q) > Score(d, r, q)
                                         \/ Score(c, r, q) = Score(d, r, q) /\ Position(r, c) < Position(r, d)
<1>7. Selected(r, q) = CHOOSE c \in V : Best(c)
  BY DEF Selected
<1>8. Best(m)
  BY <1>6
<1>9. Selected(r, q) \in V /\ Best(Selected(r, q))
  <2> HIDE DEF Best
  <2> QED  BY <1>7, <1>8
<1> QED  BY <1>2, <1>9

\* _exclusion_reason and _decision: with its specialist available a task is
\* executable, whatever the live models measure.
LEMMA SpecialistSuffices ==
  ASSUME request \in RoutingRequest, NEW t \in TaskKeys, RULES[t].local \notin request.unavailable
  PROVE  ~NotExecutable(t)
<1> DEFINE r == RULES[t]
<1> DEFINE q == request
<1>1. r.local \in Candidates(r)
  BY RuleFields DEF Candidates, Preferred
<1>2. Latency(r.local, r, q) <= r.latency /\ Cost(r.local) <= r.cost
  <2>1. Latency(r.local, r, q) = ListedLatency(r.local, r)
    BY <1>1, RuleFields, CandidateFields
  <2> QED  BY <2>1, RuleFields DEF ListedLatency, Cost
<1>3. r.local \in Viable(r, q)
  <2>1. /\ r.local \notin q.unavailable /\ r.local \notin Live
        /\ r.local # QWEN /\ r.local # STEP
    BY RuleFields DEF Live
  <2>2. ~(Latency(r.local, r, q) > r.latency) /\ ~(Cost(r.local) > r.cost)
    <3>1. Latency(r.local, r, q) \in Int /\ r.latency \in Int /\ Cost(r.local) \in Int /\ r.cost \in Int
      BY <1>1, RuleFields, CandidateFields DEF Cost
    <3> HIDE DEF r, q
    <3> QED  BY <1>2, <3>1
  <2> HIDE DEF r, q
  <2>3. ~Excluded(r.local, r, q)
    BY <2>1, <2>2 DEF Excluded
  <2> QED  BY <1>1, <2>3 DEF Viable
<1>4. /\ Selected(r, q) \in Viable(r, q)
      /\ Score(Selected(r, q), r, q) >= Score(r.local, r, q)
  BY <1>3, SelectedIsBest
<1>5. Merit(r.local, r) >= 95 /\ (~r.semantic /\ ~r.raw => Merit(r.local, r) >= 128)
  BY RuleFields DEF Merit, Quality, SemanticFit, Live
<1>6. Score(r.local, r, q) \in Int /\ Score(r.local, r, q) >= 95000 /\ (~r.semantic /\ ~r.raw => Score(r.local, r, q) >= 128000)
  <2>1. /\ Score(r.local, r, q) \in Int /\ Merit(r.local, r) \in Int
        /\ Score(r.local, r, q) >= 1000 * Merit(r.local, r)
    <3>1. r.local # STEP
      BY RuleFields
    <3> DEFINE c == r.local
    <3>2. c \in Candidates(RULES[t]) /\ c # STEP /\ q \in RoutingRequest
      BY <1>1, <3>1
    <3> HIDE DEF c, q
    <3>3. /\ Score(c, RULES[t], q) \in Int /\ Merit(c, RULES[t]) \in Int
          /\ Score(c, RULES[t], q) >= 1000 * Merit(c, RULES[t])
      BY <3>2, ScoreFields
    <3> QED  BY <3>3 DEF c, q
  <2> HIDE DEF r, q
  <2> QED  BY <1>5, <2>1
<1>7. Selected(r, q) # HUMAN_REVIEW
  <2> SUFFICES ASSUME Selected(r, q) = HUMAN_REVIEW PROVE FALSE
    OBVIOUS
  <2>1. Merit(HUMAN_REVIEW, r) = -90
    BY RuleFields DEF Merit, Quality, SemanticFit, Live, QWEN, STEP, GENERIC_LOCAL, HUMAN_REVIEW
  <2>2. HUMAN_REVIEW \in Candidates(r) /\ HUMAN_REVIEW # STEP
    BY <1>4 DEF Viable, HUMAN_REVIEW, STEP
  <2> DEFINE c == HUMAN_REVIEW
  <2>3. c \in Candidates(RULES[t]) /\ c # STEP /\ q \in RoutingRequest
    BY <2>2
  <2>4. Score(c, r, q) \in Int /\ Score(c, r, q) <= 1000 * Merit(c, r) + 20000
    <3> HIDE DEF c, q
    <3>1. Score(c, RULES[t], q) \in Int /\ Score(c, RULES[t], q) <= 1000 * Merit(c, RULES[t]) + 20000
      BY <2>3, ScoreFields
    <3> QED  BY <3>1
  <2> DEFINE high == Score(HUMAN_REVIEW, r, q)
  <2> DEFINE low == Score(r.local, r, q)
  <2>5. high \in Int /\ low \in Int /\ high >= low /\ low >= 95000 /\ high <= -70000
    <3>1. high >= low
      BY <1>4
    <3>2. high <= 1000 * (-90) + 20000
      BY <2>1, <2>4
    <3> HIDE DEF high
    <3> QED  BY <1>6, <2>4, <3>1, <3>2 DEF high
  <2> HIDE DEF high, low
  <2> QED  BY <2>5
<1>8. Selected(r, q) \in Live => r.semantic
  <2> SUFFICES ASSUME Selected(r, q) \in Live, ~r.semantic PROVE FALSE
    BY RuleFields
  <2>1. Selected(r, q) = QWEN /\ QWEN \in Candidates(r) /\ ~r.raw /\ QWEN # STEP
    <3>1. Selected(r, q) \in Candidates(r) /\ ~Excluded(Selected(r, q), r, q)
      BY <1>4 DEF Viable
    <3>2. q.restricted
      BY DEF RoutingRequest
    <3>3. Selected(r, q) # STEP
      BY <3>1, <3>2 DEF Excluded
    <3>4. Selected(r, q) = QWEN
      BY <3>3 DEF Live
    <3>5. ~r.raw
      BY <3>1, <3>4 DEF Excluded
    <3> QED  BY <3>1, <3>4, <3>5 DEF QWEN, STEP
  <2>2. Merit(QWEN, r) = 78
    <3>1. QWEN # r.local
      BY RuleFields
    <3>2. Quality(QWEN, r) = 88
      BY DEF Quality, QWEN, STEP, HUMAN_REVIEW, GENERIC_LOCAL
    <3>3. SemanticFit(QWEN, r) = -20
      BY <3>1 DEF SemanticFit, Live
    <3>4. QWEN # HUMAN_REVIEW
      BY DEF QWEN, HUMAN_REVIEW
    <3> QED  BY <3>1, <3>2, <3>3, <3>4 DEF Merit
  <2>3. Score(QWEN, r, q) <= 1000 * Merit(QWEN, r) + 20000 /\ Score(QWEN, r, q) \in Int
    <3> DEFINE c == QWEN
    <3>1. c \in Candidates(RULES[t]) /\ c # STEP /\ q \in RoutingRequest
      BY <2>1
    <3> HIDE DEF c, q
    <3>2. Score(c, RULES[t], q) \in Int /\ Score(c, RULES[t], q) <= 1000 * Merit(c, RULES[t]) + 20000
      BY <3>1, ScoreFields
    <3> QED  BY <3>2 DEF c, q
  <2>4. Score(r.local, r, q) >= 128000 /\ Score(r.local, r, q) \in Int
    BY <1>6, <2>1
  <2> QED  BY <1>4, <2>1, <2>2, <2>3, <2>4
<1> QED  BY <1>3, <1>7, <1>8, RuleFields DEF NotExecutable, SelectedFor

(***************************************************************************)
(* The workflow is a run of the Workflow Controller.                        *)
(***************************************************************************)
LEMMA ControlSteps ==
  ASSUME TypeOK, NEW d \in Drivers
  PROVE  /\ Control(d) => Step(d)
         /\ Fail(d) => Step(d)
         /\ Register(d) => Step(d) \/ UNCHANGED vars
         /\ Arrive(d) => Request(d)
         /\ Execute => Request(Job)
         /\ TornControl(d) /\ UNCHANGED overlapped => Torn(d)
<1>1. Control(d) => Step(d)
  BY DEF Control, Step
<1>2. Fail(d) => Step(d)
  BY DEF Fail, Step
<1>3. Register(d) => Step(d) \/ UNCHANGED vars
  BY Plan DEF Register, Step
<1>4. TornControl(d) /\ UNCHANGED overlapped => Torn(d)
  <2>1. driver[d].at \in Tasks
    BY DriverFields
  <2> QED  BY <2>1 DEF TornControl, Torn
<1> QED  BY <1>1, <1>2, <1>3, <1>4 DEF Arrive, Execute

LEMMA ControllerSteps ==
  ASSUME TypeOK, [InsuranceNext]_insuranceVars
  PROVE  [Next]_vars
<1>1. CASE Refuse \/ UNCHANGED insuranceVars
  BY <1>1 DEF Refuse, insuranceVars
<1>2. CASE Execute
  BY <1>2, ControlSteps, JobDrives DEF Next
<1>3. CASE Lapse
  BY <1>3 DEF Lapse, Next
<1>4. CASE Die
  <2>1. UNCHANGED overlapped
    BY <1>4 DEF Die
  <2> QED  BY <1>4, <2>1, ControlSteps DEF Die, Next
<1>5. ASSUME NEW d \in Drivers, Arrive(d) \/ Control(d) \/ Register(d) \/ Fail(d)
      PROVE  [Next]_vars
  BY <1>5, ControlSteps DEF Next
<1>6. ASSUME NEW d \in Drivers, LiveAnswers(d) \/ GatewayFails(d) \/ AnswersInvalid(d) \/ Write(d) \/ Mark(d)
      PROVE  UNCHANGED vars
  BY <1>6 DEF LiveAnswers, GatewayFails, AnswersInvalid, Write, Mark
<1> QED  BY <1>1, <1>2, <1>3, <1>4, <1>5, <1>6 DEF InsuranceNext, Adapt

\* Every run of the insurance workflow is a run of the Controller with the ten
\* tasks of TASK_SPECS, and what holds of every run of it holds here.
THEOREM IsControlledAlways == InsuranceSpec => Spec
<1>1. InsuranceInit => Init /\ IInv
  BY InitIInv DEF InsuranceInit
<1>2. IInv /\ [InsuranceNext]_insuranceVars => [Next]_vars
  BY ControllerSteps DEF IInv
<1>3. IInv /\ [Next]_vars => IInv'
  BY NextIInv
<1> QED  BY <1>1, <1>2, <1>3, PTL DEF InsuranceSpec, Spec

(***************************************************************************)
(* Records and what changes in them.                                        *)
(***************************************************************************)
RouteRecord == [executed : BOOLEAN, call : Call, counted : BOOLEAN]
WorkAt == {"none", "model", "write", "register", "mark", "fail"}

LEMMA Numbers ==
  /\ 0 \in Call /\ Call \subseteq Nat
  /\ \A n \in Call : n < MaxCalls => n + 1 \in Call \ {0}
BY Values DEF Call

LEMMA StoreFields ==
  ASSUME InsuranceTypeOK
  PROVE  /\ route \in [TaskKeys -> RouteRecord]
         /\ \A t \in TaskKeys : /\ route[t] \in RouteRecord /\ route[t].executed \in BOOLEAN
                                /\ route[t].call \in Call /\ route[t].counted \in BOOLEAN
         /\ listed \subseteq Slots /\ live \subseteq TaskKeys
         /\ \A s \in Slots : stored[s] # None => stored[s] \in Content /\ stored[s].maker \in Call
<1>1. route \in [TaskKeys -> RouteRecord]
  BY DEF InsuranceTypeOK, RouteRecord
<1>2. \A t \in TaskKeys : route[t] \in RouteRecord
  BY <1>1
<1>3. \A s \in Slots : stored[s] # None => stored[s] \in Content
  BY DEF InsuranceTypeOK
<1>4. \A s \in Slots : stored[s] # None => stored[s].maker \in Call
  BY <1>3 DEF Content
<1>5. listed \subseteq Slots /\ live \subseteq TaskKeys
  BY DEF InsuranceTypeOK
<1> QED  BY <1>1, <1>2, <1>3, <1>4, <1>5 DEF RouteRecord

LEMMA WorkFields ==
  ASSUME NEW w \in Work
  PROVE  /\ w.at \in WorkAt /\ w.todo \in Seq(Slots) /\ w.counted \in BOOLEAN
         /\ w.say \in Content /\ w.say # None /\ w.say.maker \in Call
<1>1. w.say \in Content
  BY DEF Work
<1>2. w.say.maker \in Call
  BY <1>1 DEF Content
<1> QED  BY <1>1, <1>2, Values DEF Work, WorkAt

LEMMA NoWorkFields ==
  /\ NoWork \in Work /\ NoWork.at = "none"
  /\ Silent \in Content
<1>1. Silent \in Content
  BY Numbers DEF Silent, Content, Mode
<1>2. <<>> \in Seq(Slots)
  OBVIOUS
<1> QED  BY <1>1, <1>2 DEF NoWork, Work

\* The work for one driver changes to r.
WorkBecomes(d, r) ==
  /\ work' \in [Drivers -> Work] /\ work'[d] = r
  /\ \A e \in Drivers \ {d} : work'[e] = work[e]

LEMMA WorkChanges ==
  ASSUME InsuranceTypeOK, NEW d \in Drivers, NEW r \in Work, work' = [work EXCEPT ![d] = r]
  PROVE  WorkBecomes(d, r)
BY DEF InsuranceTypeOK, WorkBecomes

LEMMA WorkTypes ==
  ASSUME InsuranceTypeOK
  PROVE  \A d \in Drivers : work[d] \in Work /\ work[d].at \in WorkAt
BY WorkFields DEF InsuranceTypeOK

LEMMA LiveFields ==
  ASSUME RouteInv, NEW t \in live
  PROVE  /\ t \in TaskKeys /\ t \in Slots /\ t \notin {"private-upload-policy", "verification"}
         /\ Outputs(t) = <<t>> /\ SlotsOf(t) = {t}
<1>1. t \in TaskKeys /\ t \notin {"private-upload-policy", "verification"}
  BY Keys DEF RouteInv
<1>2. Outputs(t) = <<t>> /\ SlotsOf(t) = {t}
  BY <1>1, OutputFields
<1> QED  BY <1>1, <1>2, AllSlots

(***************************************************************************)
(* The store only grows.                                                    *)
(***************************************************************************)
\* Stored outputs and executed routes stay, lists grow.
Grows ==
  /\ live' = live /\ listed \subseteq listed' /\ listed' \subseteq Slots
  /\ stored' \in [Slots -> Content \cup {None}]
  /\ \A s \in Slots : stored[s] # None => stored'[s] = stored[s]
  /\ \A t \in TaskKeys : route[t].executed => route'[t].executed

LEMMA NothingWritten ==
  ASSUME InsuranceTypeOK, live' = live, UNCHANGED files
  PROVE  Grows /\ UNCHANGED <<live, stored, listed, route>>
BY DEF InsuranceTypeOK, Grows, files

LEMMA SoundStays ==
  ASSUME InsuranceTypeOK, StoreInv, Grows
  PROVE  \A s \in Slots, c \in Content :
           Sound(s, c, stored, listed) => Sound(s, c, stored', listed')
<1> SUFFICES ASSUME NEW s \in Slots, NEW c \in Content, Sound(s, c, stored, listed)
             PROVE  Sound(s, c, stored', listed')
  OBVIOUS
<1>1. ASSUME NEW input \in c.read
      PROVE  input[1] \in listed' /\ stored'[input[1]].maker = input[2]
  <2>1. input[1] \in listed /\ stored[input[1]].maker = input[2]
    BY DEF Sound
  <2>2. input[1] \in Slots /\ stored[input[1]] # None
    BY <2>1 DEF InsuranceTypeOK, StoreInv
  <2> QED  BY <2>1, <2>2 DEF Grows
<1> QED  BY <1>1 DEF Sound

\* Work that is in hand relies on nothing that changes.
LEMMA WorkStays ==
  ASSUME InsuranceTypeOK, StoreInv, RouteInv, Grows, NEW w \in Work, NEW t \in TaskKeys,
         WorkOK(w, t, stored, listed, live)
  PROVE  WorkOK(w, t, stored', listed', live')
<1>1. w.say \in Content /\ w.say # None
  BY WorkFields
<1>2. \A s \in SlotsOf(t) : Sound(s, w.say, stored, listed) => Sound(s, w.say, stored', listed')
  BY <1>1, SoundStays, AllSlots
<1>3. \A s \in Slots : stored[s] = w.say => stored'[s] = w.say
  BY <1>1 DEF Grows
<1>4. w.at = "register" => Head(w.todo) \in Slots
  <2> SUFFICES ASSUME w.at = "register" PROVE Head(w.todo) \in Slots
    OBVIOUS
  <2>1. t # "private-upload-policy" /\ w.todo \in Left(t)
    BY DEF WorkOK
  <2> QED  BY <2>1, LeftFields, AllSlots
<1>5. \A u \in live : u \in Slots
  BY LiveFields
<1>6. live' = live /\ listed \subseteq listed'
  BY DEF Grows
<1>7. /\ w.at # "none" => t # "private-upload-policy"
      /\ w.at = "model" => t \in live' /\ Reads(t, TRUE) \subseteq listed' /\ w.todo = Outputs(t)
  BY <1>6 DEF WorkOK
<1>8. w.at \in {"write", "register"} =>
        w.todo \in Left(t) /\ \A s \in SlotsOf(t) : s \in listed' \/ \E i \in 1..Len(w.todo) : w.todo[i] = s
  BY <1>6 DEF WorkOK
<1>9. w.at \in {"write", "register", "mark"} =>
        /\ \A s \in SlotsOf(t) : Sound(s, w.say, stored', listed')
        /\ w.say.maker # 0 => w.counted
  BY <1>2 DEF WorkOK
<1>10. /\ w.at = "register" => stored'[Head(w.todo)] = w.say
       /\ w.at = "mark" /\ t \in live' => stored'[t] = w.say
  BY <1>3, <1>4, <1>5, <1>6 DEF WorkOK
<1> QED  BY <1>7, <1>8, <1>9, <1>10 DEF WorkOK

LEMMA NoWorkOK ==
  ASSUME NEW w, NEW t, NEW st, NEW li, NEW lv, w.at = "none"
  PROVE  WorkOK(w, t, st, li, lv)
BY DEF WorkOK

LEMMA RoutesStay ==
  ASSUME RouteInv, InsuranceTypeOK, Grows, route' = route
  PROVE  RouteInv'
<1>1. live' = live /\ \A s \in Slots : stored[s] # None => stored'[s] = stored[s]
  BY DEF Grows
<1> QED  BY <1>1, LiveFields DEF RouteInv

LEMMA OutputsLeft ==
  ASSUME NEW t \in TaskKeys, t # "private-upload-policy"
  PROVE  /\ Outputs(t) \in Left(t) /\ Outputs(t) \in Seq(Slots)
         /\ \A s \in SlotsOf(t) : \E i \in 1..Len(Outputs(t)) : Outputs(t)[i] = s
<1>1. Outputs(t) \in Left(t)
  BY OutputFields DEF Left
<1> QED  BY <1>1, LeftFields DEF SlotsOf

\* What is derived from listed outputs is sound.
LEMMA DerivedSound ==
  ASSUME InsuranceTypeOK, StoreInv, NEW t \in TaskKeys, t # "private-upload-policy", NEW maker \in Call,
         NEW asked \in {"safe", "autonomous"}, NEW isLive \in BOOLEAN, Reads(t, isLive) \subseteq listed
  PROVE  /\ Derived(t, maker, asked, isLive) \in Content
         /\ Derived(t, maker, asked, isLive).maker = maker
         /\ \A s \in SlotsOf(t) : Sound(s, Derived(t, maker, asked, isLive), stored, listed)
<1> DEFINE D == Derived(t, maker, asked, isLive)
<1>1. /\ D.maker = maker /\ D.mode = ModeOf(t, asked)
      /\ D.read = {<<s, stored[s].maker>> : s \in Reads(t, isLive)}
      /\ D = [maker |-> maker, mode |-> ModeOf(t, asked), read |-> D.read]
  BY DEF Derived
<1>2. \A s \in Reads(t, isLive) : s \in Slots /\ stored[s] \in Content /\ stored[s].maker \in Call
  BY StoreFields DEF StoreInv
<1>3. D.read \in SUBSET (Slots \X Call)
  BY <1>1, <1>2
<1>4. ASSUME t = "verification"
      PROVE  stored["risk-review"] \in Content /\ stored["risk-review"].mode = "safe"
  <2>1. "artifact-synthesis" \in listed
    BY <1>4 DEF Reads
  <2>2. Sound("artifact-synthesis", stored["artifact-synthesis"], stored, listed)
    BY <2>1, StoreFields DEF StoreInv
  <2>3. "risk-review" \in listed
    BY <2>2 DEF Sound
  <2>4. stored["risk-review"] # None /\ "risk-review" \in Slots
    BY <2>3, StoreFields DEF StoreInv
  <2>5. Sound("risk-review", stored["risk-review"], stored, listed)
    BY <2>4 DEF StoreInv
  <2> QED  BY <2>4, <2>5, StoreFields DEF Sound
<1>5. D.mode \in Mode /\ (t \in {"risk-review", "verification"} => D.mode = "safe")
  <2>1. CASE t = "product-analysis"
    BY <1>1, <2>1 DEF ModeOf, Mode
  <2>2. CASE t = "risk-review"
    BY <1>1, <2>2 DEF ModeOf, Mode, AcceptedMode
  <2>3. CASE t = "artifact-synthesis"
    <3>1. "product-analysis" \in Reads(t, isLive)
      BY <2>3 DEF Reads
    <3>2. stored["product-analysis"].mode \in Mode
      BY <1>2, <3>1 DEF Content
    <3> QED  BY <1>1, <2>3, <3>2 DEF ModeOf
  <2>4. CASE t = "verification"
    BY <1>1, <1>4, <2>4 DEF ModeOf, Mode
  <2>5. CASE t \notin {"product-analysis", "risk-review", "artifact-synthesis", "verification"}
    BY <1>1, <2>5 DEF ModeOf, Mode
  <2> QED  BY <2>1, <2>2, <2>3, <2>4, <2>5
<1>6. D \in Content
  BY <1>1, <1>3, <1>5 DEF Content
<1>7. ASSUME NEW s \in SlotsOf(t)
      PROVE  Sound(s, D, stored, listed)
  <2>1. \A input \in D.read : input[1] \in listed /\ stored[input[1]].maker = input[2]
    BY <1>1
  <2>2. s \in {"risk-review"} \cup SlotsOf("verification") => D.mode = "safe"
    <3>1. s = "risk-review" => t = "risk-review"
      BY <1>7, OutputFields
    <3>2. s \in SlotsOf("verification") => t = "verification"
      BY <1>7, SlotsDiffer, Keys
    <3> QED  BY <1>5, <3>1, <3>2
  <2>3. s = "artifact-synthesis" => \E m \in Call : <<"risk-review", m>> \in D.read
    <3> SUFFICES ASSUME s = "artifact-synthesis" PROVE \E m \in Call : <<"risk-review", m>> \in D.read
      OBVIOUS
    <3>1. t = "artifact-synthesis"
      BY <1>7, OutputFields
    <3>2. "risk-review" \in Reads(t, isLive)
      BY <3>1 DEF Reads
    <3> QED  BY <1>1, <1>2, <3>2
  <2> HIDE DEF D
  <2> QED  BY <2>1, <2>2, <2>3 DEF Sound
<1> QED  BY <1>1, <1>6, <1>7


(***************************************************************************)
(* What the Controller does with a driver.                                  *)
(***************************************************************************)
Turn(d) == Enter(d) \/ Recover(d) \/ Blocked(d) \/ Activate(d) \/ Ready(d) \/ CompleteClaimed(d) \/ Settle(d)

LEMMA TurnAtSync ==
  ASSUME NEW d, Turn(d)
  PROVE  driver[d].pc \in Sync
BY DEF Turn, Enter, Recover, Blocked, Activate, Ready, CompleteClaimed, Settle, Sync

LEMMA CycleStarts ==
  ASSUME Known, NEW d \in Drivers, NewCycle(d), Enter(d) \/ driver[d].cycle < MaxCycles[d]
  PROVE  /\ driver' \in [Drivers -> DriverRecord] /\ OthersStay(d)
         /\ driver'[d].pc = "recover" /\ driver'[d].todo = WithStatus("running")
         /\ driver'[d].view = Seen(WithStatus("running"))
<1>1. driver[d].cycle < MaxCycles[d]
  BY NaturalLimits DEF Enter, Known, DriverInv, DriverOK
<1> QED  BY <1>1, NewCycleFields DEF Known

\* Only a task that was taken up in one of the two loops is dispatched.
LEMMA WhoDispatches ==
  ASSUME Known, NEW d \in Drivers, Turn(d), driver'[d].pc = "call"
  PROVE  LET t == First(driver[d].todo) IN
         /\ driver[d].todo # {} /\ t \in driver[d].todo /\ t \in Tasks /\ driver'[d].at = t
         /\ \/ driver[d].pc = "recover" /\ RecoverResume(d, t) /\ UNCHANGED <<run, approval>>
            \/ driver[d].pc = "ready" /\ ClaimAndDispatch(d, t)
         /\ Policy[t] # "deny" /\ task[t].status # "pending"
<1> USE DEF Known
<1> DEFINE t == First(driver[d].todo)
<1>1. ~Raise(d) /\ ~End(d)
  BY StopFields DEF Ended
<1>2. ASSUME NEW q \in PC \ {"call"}, NEW S \in SUBSET Tasks, Goto(d, q, S) PROVE FALSE
  BY <1>2, GotoFields
<1>3. ASSUME driver[d].pc # "call", driver[d].todo # {}, Done(d) PROVE FALSE
  BY <1>3, DoneFields
<1>4. ~Enter(d)
  BY <1>1, CycleStarts DEF Enter
<1>5. ~Settle(d)
  BY <1>1, CycleStarts DEF Settle, FailRun
<1>6. ~Blocked(d)
  <2>1. "activate" \in PC \ {"call"} /\ Runnable \in SUBSET Tasks
    BY DEF PC, Sync, Runnable, WithStatus
  <2> QED  BY <1>1, <1>2, <1>3, <2>1 DEF Blocked, FailRun
<1>7. ~Activate(d)
  <2> SUFFICES ASSUME Activate(d) PROVE FALSE
    OBVIOUS
  <2>1. driver[d].todo = {}
    BY <1>3 DEF Activate
  <2>2. driver[d] \in DriverRecord
    BY DriverFields
  <2> QED  BY <2>1, <2>2 DEF Activate, TypeOK, DriverRecord
<1>8. ~CompleteClaimed(d)
  <2> SUFFICES ASSUME CompleteClaimed(d) PROVE FALSE
    OBVIOUS
  <2>1. driver' = [driver EXCEPT ![d] = Back(d)]
    BY <1>1 DEF CompleteClaimed, Unowned
  <2> QED  BY <2>1, BackFields, DriverFields
<1>9. ASSUME driver[d].todo # {}, driver[d].pc \in {"recover", "ready"}
      PROVE  t \in driver[d].todo /\ t \in Tasks /\ task[t].status # "pending"
             /\ driver[d].view[t] \in View
  BY <1>9, FirstIn, DriverFields DEF DriverInv, DriverOK
<1>10. CASE Recover(d)
  <2>1. driver[d].todo # {} /\ driver[d].pc = "recover" /\ UNCHANGED <<run, approval>>
    <3>1. "blocked" \in PC \ {"call"} /\ WithStatus("blocked") \in SUBSET Tasks
      BY DEF PC, Sync, WithStatus
    <3> QED  BY <1>2, <1>10, <3>1 DEF Recover
  <2>2. RecoverUnclaimed(d, t) \/ RecoverFinished(d, t) \/ RecoverResume(d, t) \/ RecoverRefused(d, t)
    BY <1>10, <2>1 DEF Recover
  <2>3. t \in driver[d].todo /\ t \in Tasks /\ task[t].status # "pending" /\ driver[d].view[t] \in View
    BY <1>9, <2>1
  <2> HIDE DEF t
  <2>4. RecoverResume(d, t)
    BY <1>1, <1>3, <2>1, <2>2 DEF RecoverUnclaimed, RecoverFinished, RecoverRefused
  <2>5. driver[d].view[t].claim \in 0..MaxAttempts
    BY <2>3 DEF View
  <2>6. driver'[d].at = t
    BY <2>3, <2>4, <2>5, DispatchFields DEF RecoverResume
  <2>7. Policy[t] # "deny"
    BY <2>4 DEF RecoverResume, MayResume
  <2> QED  BY <2>1, <2>3, <2>4, <2>6, <2>7 DEF t
<1>11. CASE Ready(d)
  <2>1. driver[d].todo # {} /\ driver[d].pc = "ready"
    <3>1. "settle" \in PC \ {"call"} /\ {} \in SUBSET Tasks
      BY DEF PC, Sync
    <3> QED  BY <1>2, <1>11, <3>1 DEF Ready
  <2>2. \/ Deny(d, t) \/ AskApproval(d, t) \/ AskAgain(d, t) \/ AskRefused(d, t)
        \/ ClaimAndDispatch(d, t) \/ ClaimRefused(d, t)
    BY <1>11, <2>1 DEF Ready
  <2>3. t \in driver[d].todo /\ t \in Tasks /\ task[t].status # "pending"
    BY <1>9, <2>1
  <2> HIDE DEF t
  <2>4. ClaimAndDispatch(d, t)
    BY <1>1, <1>3, <2>1, <2>2 DEF Deny, AskApproval, AskAgain, AskRefused, ClaimRefused, Close
  <2>5. task[t].attempts + 1 \in 0..MaxAttempts
    BY <2>3, <2>4, TaskFields, NaturalLimits DEF ClaimAndDispatch, CanClaim
  <2>6. driver'[d].at = t
    BY <2>3, <2>4, <2>5, DispatchFields DEF ClaimAndDispatch
  <2>7. Policy[t] # "deny"
    BY <2>4 DEF ClaimAndDispatch, Executes
  <2> QED  BY <2>1, <2>3, <2>4, <2>6, <2>7 DEF t
<1> QED  BY <1>4, <1>5, <1>6, <1>7, <1>8, <1>10, <1>11 DEF Turn

(***************************************************************************)
(* Where an adapter is at work.                                             *)
(***************************************************************************)
Base == InsuranceTypeOK /\ StoreInv /\ WorkInv /\ RouteInv

LEMMA AtWork ==
  ASSUME TypeOK, InsuranceTypeOK, WorkInv, NEW d \in Drivers
  PROVE  /\ work[d] \in Work /\ work[d].at \in WorkAt
         /\ work[d].at # "none" => driver[d].pc \in {"call", "returned"}
         /\ work[d].at = "mark" <=> work[d].at # "none" /\ driver[d].pc = "returned"
         /\ driver[d].at \in TaskKeys
         /\ work[d].at # "none" => driver[d].at # "private-upload-policy"
<1>1. work[d] \in Work /\ work[d].at \in WorkAt
  BY WorkTypes
<1>2. driver[d].at \in TaskKeys
  BY DriverFields, Plan
<1>3. work[d].at # "none" => driver[d].at # "private-upload-policy"
  BY DEF WorkInv, WorkOK
<1> QED  BY <1>1, <1>2, <1>3 DEF WorkInv, WorkAt

\* Whoever acts between two awaits is alone there.
LEMMA OnlyBusy ==
  ASSUME WorkInv, NEW d \in Drivers, Busy(d)
  PROVE  \A e \in Drivers \ {d} : ~Busy(e)
BY DEF WorkInv

\* Nobody is: then whoever acts is alone.
LEMMA NobodyBusy ==
  ASSUME TypeOK, InsuranceTypeOK, Free, Quiet
  PROVE  \A e \in Drivers : ~Busy(e)
BY DEF Free, Quiet, Busy, Writes

LEMMA ControlBusy ==
  ASSUME WorkInv, NEW d \in Drivers, Control(d)
  PROVE  /\ Turn(d) /\ Busy(d) /\ (\A e \in Drivers \ {d} : ~Busy(e))
         /\ work[d].at = "none" /\ driver[d].pc \in Sync
<1>1. Turn(d) /\ Free
  BY DEF Control, Turn
<1>2. driver[d].pc \in Sync
  BY <1>1, TurnAtSync
<1>3. work[d].at \in {"none", "model"} /\ driver[d].pc # "call"
  BY <1>1, <1>2 DEF Free, Sync
<1>4. work[d].at = "none"
  BY <1>3 DEF WorkInv
<1> QED  BY <1>1, <1>2, <1>4, OnlyBusy DEF Busy

\* One driver and its work move, in a store that grows.
LEMMA WorkStep ==
  ASSUME TypeOK, Base, Grows, NEW d \in Drivers, \A e \in Drivers \ {d} : ~Busy(e),
         OthersStay(d), \A e \in Drivers \ {d} : work'[e] = work[e],
         work'[d].at \in {"model", "write", "register", "fail"} => driver'[d].pc = "call",
         work'[d].at = "mark" => driver'[d].pc = "returned",
         WorkOK(work'[d], driver'[d].at, stored', listed', live')
  PROVE  WorkInv'
<1>1. ASSUME NEW e \in Drivers \ {d}
      PROVE  /\ work'[e].at \in {"model", "write", "register", "fail"} => driver'[e].pc = "call"
             /\ work'[e].at = "mark" => driver'[e].pc = "returned"
             /\ WorkOK(work'[e], driver'[e].at, stored', listed', live')
             /\ ~Busy(e)'
  <2>1. driver'[e] = driver[e] /\ work'[e] = work[e]
    BY DEF OthersStay
  <2>2. work[e] \in Work /\ driver[e].at \in TaskKeys
    BY AtWork DEF Base
  <2>3. WorkOK(work[e], driver[e].at, stored, listed, live)
    BY DEF Base, WorkInv
  <2>4. WorkOK(work[e], driver[e].at, stored', listed', live')
    BY <2>2, <2>3, WorkStays DEF Base
  <2> QED  BY <2>1, <2>4 DEF Base, WorkInv, Busy
<1> QED  BY <1>1 DEF WorkInv

\* No file is written.
LEMMA NoFileStep ==
  ASSUME Base, live' = live, UNCHANGED files, \A t \in Tasks : task'[t].out = task[t].out
  PROVE  Grows /\ StoreInv' /\ RouteInv'
<1>1. Grows /\ UNCHANGED <<live, stored, listed, route>>
  BY NothingWritten DEF Base
<1>2. RouteInv'
  BY <1>1, RoutesStay DEF Base
<1>3. StoreInv'
  BY <1>1, Plan DEF Base, StoreInv
<1> QED  BY <1>1, <1>2, <1>3

(***************************************************************************)
(* Whether a bundle is whole only a successful call changes.                *)
(***************************************************************************)
OutKept == \A u \in Tasks : task'[u].out = task[u].out

LEMMA OutOfUpdate ==
  ASSUME TypeOK, NEW t, t \in Tasks, NEW r, r.out = task[t].out, task' = [task EXCEPT ![t] = r]
  PROVE  OutKept
BY DEF TypeOK, OutKept

LEMMA OutOfStatus ==
  ASSUME TypeOK, NEW t, t \in Tasks, NEW s, SetStatus(t, s)
  PROVE  OutKept
<1>1. [task[t] EXCEPT !.status = s].out = task[t].out
  BY TaskFields DEF TaskRecord
<1>2. task' = [task EXCEPT ![t] = [task[t] EXCEPT !.status = s]]
  BY DEF SetStatus, TypeOK
<1> QED  BY <1>1, <1>2, OutOfUpdate

LEMMA OutOfFailed ==
  ASSUME TypeOK, NEW t, t \in Tasks, NEW n
  PROVE  FailedAttempt(t, n).out = task[t].out
BY TaskFields DEF FailedAttempt, TaskRecord

LEMMA OutOfFiles ==
  ASSUME TypeOK, NEW t, t \in Tasks
  PROVE  LET found == IF task[t].part = NoContent THEN [task EXCEPT ![t].part = NoContent] ELSE task
         IN  found = task
<1>1. task[t].part = NoContent => [task EXCEPT ![t].part = NoContent] = task
  BY TaskFields DEF TaskRecord, TypeOK
<1> QED  BY <1>1

LEMMA OutOfUnowned ==
  ASSUME TypeOK, NEW d, NEW t, t \in Tasks, Unowned(d, t, task)
  PROVE  OutKept
<1>1. CASE task' = task
  BY <1>1 DEF OutKept
<1>2. CASE task' = [task EXCEPT ![t].status = "failed"]
  BY <1>2, OutOfStatus DEF SetStatus
<1> QED  BY <1>1, <1>2 DEF Unowned

LEMMA OutOfTurn ==
  ASSUME Known, NEW d \in Drivers, Turn(d)
  PROVE  OutKept
<1> USE DEF Known
<1> DEFINE t == First(driver[d].todo)
<1>1. CASE task' = task
  BY <1>1 DEF OutKept
<1>2. driver[d].todo # {} => t \in Tasks
  BY FirstIn, DriverFields
<1>3. ASSUME NEW u, u \in Tasks, RecordFailure(u) \/ Complete(u) PROVE OutKept
  <2>1. CASE RecordFailure(u)
    BY <1>3, <2>1, OutOfFailed, OutOfUpdate DEF RecordFailure
  <2>2. CASE Complete(u)
    <3>1. [task[u] EXCEPT !.status = "completed", !.claim = 0].out = task[u].out
      BY <1>3, TaskFields DEF TaskRecord
    <3>2. task' = [task EXCEPT ![u] = [task[u] EXCEPT !.status = "completed", !.claim = 0]]
      BY <1>3, <2>2, TaskFields DEF Complete, TypeOK, TaskRecord
    <3> QED  BY <1>3, <3>1, <3>2, OutOfUpdate
  <2> QED  BY <1>3, <2>1, <2>2
<1>4. CASE Recover(d) /\ driver[d].todo # {}
  <2>1. RecoverUnclaimed(d, t) \/ RecoverFinished(d, t) \/ RecoverResume(d, t) \/ RecoverRefused(d, t)
    BY <1>4 DEF Recover
  <2>2. t \in Tasks
    BY <1>2, <1>4
  <2> HIDE DEF t
  <2> QED  BY <1>1, <1>3, <2>1, <2>2, OutOfStatus DEF RecoverUnclaimed, RecoverFinished, RecoverResume, RecoverRefused
<1>5. CASE Blocked(d)
  BY <1>1, <1>2, <1>5, OutOfStatus DEF Blocked
<1>6. CASE Activate(d)
  BY <1>1, <1>2, <1>6, OutOfStatus DEF Activate
<1>7. CASE Ready(d) /\ driver[d].todo # {}
  <2>1. \/ Deny(d, t) \/ AskApproval(d, t) \/ AskAgain(d, t) \/ AskRefused(d, t)
        \/ ClaimAndDispatch(d, t) \/ ClaimRefused(d, t)
    BY <1>7 DEF Ready
  <2>2. t \in Tasks
    BY <1>2, <1>7
  <2> HIDE DEF t
  <2> DEFINE n == task[t].attempts + 1
  <2>3. ASSUME NEW s, Close(d, t, s) PROVE OutKept
    BY <1>1, <2>2, <2>3, OutOfStatus DEF Close
  <2>4. CASE AskApproval(d, t)
    <3>1. task' = [task EXCEPT ![t] = [task[t] EXCEPT !.status = "waiting_approval", !.claim = n, !.attempts = n, !.link = n]]
      BY <2>2, <2>4, TaskFields DEF AskApproval, TypeOK, TaskRecord
    <3>2. [task[t] EXCEPT !.status = "waiting_approval", !.claim = n, !.attempts = n, !.link = n].out = task[t].out
      BY <2>2, TaskFields DEF TaskRecord
    <3> QED  BY <2>2, <3>1, <3>2, OutOfUpdate
  <2>5. CASE ClaimAndDispatch(d, t)
    <3>1. task' = [task EXCEPT ![t] = [task[t] EXCEPT !.status = "running", !.claim = n, !.attempts = n]]
      BY <2>2, <2>5, TaskFields DEF ClaimAndDispatch, TypeOK, TaskRecord
    <3>2. [task[t] EXCEPT !.status = "running", !.claim = n, !.attempts = n].out = task[t].out
      BY <2>2, TaskFields DEF TaskRecord
    <3> QED  BY <2>2, <3>1, <3>2, OutOfUpdate
  <2>6. CASE AskAgain(d, t)
    BY <2>2, <2>6, OutOfFailed, OutOfUpdate DEF AskAgain
  <2>7. CASE Deny(d, t)
    BY <2>3, <2>7 DEF Deny
  <2>8. CASE AskRefused(d, t)
    BY <1>1, <1>3, <2>2, <2>3, <2>8 DEF AskRefused
  <2>9. CASE ClaimRefused(d, t)
    BY <1>1, <2>2, <2>9, OutOfStatus DEF ClaimRefused
  <2> QED  BY <2>1, <2>4, <2>5, <2>6, <2>7, <2>8, <2>9
<1>8. CASE CompleteClaimed(d)
  <2>1. driver[d].at \in Tasks
    BY DriverFields
  <2> QED  BY <1>3, <1>8, <2>1, OutOfUnowned DEF CompleteClaimed
<1>9. ASSUME Enter(d) \/ Settle(d) \/ (driver[d].todo = {} /\ (Recover(d) \/ Ready(d))) PROVE task' = task
  BY <1>9 DEF Enter, Settle, Recover, Ready
<1> QED  BY <1>1, <1>4, <1>5, <1>6, <1>7, <1>8, <1>9 DEF Turn

\* The failure of a task, as the Controller records it.
LEMMA FailCases ==
  ASSUME TypeOK, NEW d \in Drivers, CallFails(d, NoContent)
  PROVE  LET t == driver[d].at IN
         /\ Resumed(d) /\ t \in Tasks /\ UNCHANGED <<run, plan, approval, expired, called, crashes>>
         /\ \/ /\ Owned(t, driver[d].view[t].claim)
               /\ RecordFailure(t) /\ driver' = [driver EXCEPT ![d] = Back(d)]
            \/ ~Owned(t, driver[d].view[t].claim) /\ Unowned(d, t, task)
<1> DEFINE t == driver[d].at
<1> DEFINE found == IF task[t].part = NoContent THEN [task EXCEPT ![t].part = NoContent] ELSE task
<1>1. t \in Tasks
  BY DriverFields
<1> HIDE DEF t
<1>2. found = task
  BY <1>1, OutOfFiles
<1>3. CASE Owned(t, driver[d].view[t].claim)
  <2> DEFINE f == FailedAttempt(t, task[t].attempts)
  <2>1. task' = [found EXCEPT ![t] = [f EXCEPT !.part = found[t].part]] /\ driver' = [driver EXCEPT ![d] = Back(d)]
    BY <1>3 DEF CallFails, t
  <2>2. f.part = task[t].part /\ [f EXCEPT !.part = f.part] = f
    BY <1>1, TaskFields DEF FailedAttempt, TaskRecord
  <2> HIDE DEF found, f
  <2>3. task' = [task EXCEPT ![t] = f]
    BY <1>2, <2>1, <2>2
  <2> QED  BY <1>1, <1>3, <2>1, <2>3 DEF CallFails, RecordFailure, t, f
<1>4. CASE ~Owned(t, driver[d].view[t].claim)
  <2>1. Unowned(d, t, found)
    BY <1>4 DEF CallFails, t
  <2> HIDE DEF found
  <2>2. Unowned(d, t, task)
    BY <1>2, <2>1
  <2> QED  BY <1>1, <1>4, <2>2 DEF CallFails, t
<1> QED  BY <1>3, <1>4

LEMMA OutOfFail ==
  ASSUME TypeOK, NEW d \in Drivers, CallFails(d, NoContent)
  PROVE  OutKept
<1> DEFINE t == driver[d].at
<1>1. t \in Tasks /\ (RecordFailure(t) \/ Unowned(d, t, task))
  BY FailCases
<1> HIDE DEF t
<1>2. CASE RecordFailure(t)
  BY <1>1, <1>2, OutOfFailed, OutOfUpdate DEF RecordFailure
<1> QED  BY <1>1, <1>2, OutOfUnowned

LEMMA OutOfRequest ==
  ASSUME TypeOK, NEW d \in Drivers, Request(d)
  PROVE  OutKept /\ driver[d].pc = "new" /\ driver'[d].pc = "enter" /\ OthersStay(d) /\ Quiet
<1>1. driver[d].pc = "new" /\ Goto(d, "enter", {}) /\ Quiet
  BY DEF Request, Drive, ResolvePlan, Resolve
<1>2. "enter" \in PC /\ {} \in SUBSET Tasks
  BY DEF PC, Sync
<1>3. driver'[d].pc = "enter" /\ OthersStay(d)
  BY <1>1, <1>2, GotoFields
<1>4. OutKept
  <2>1. task' = task \/ \E t \in Tasks : \E s : SetStatus(t, s)
    BY DEF Request, Drive, ResolvePlan, Resolve
  <2> QED  BY <2>1, OutOfStatus DEF OutKept
<1> QED  BY <1>1, <1>3, <1>4

LEMMA OutOfDie ==
  ASSUME TypeOK, Die
  PROVE  OutKept /\ \E lost : CrashAll(lost)
<1>1. CASE Crash
  BY <1>1 DEF Crash, OutKept
<1>2. ASSUME NEW d \in Drivers, TornControl(d) PROVE OutKept /\ \E lost : CrashAll(lost)
  <2>1. driver[d].at \in Tasks
    BY DriverFields
  <2>2. ASSUME NEW t \in Tasks, TornClaim(d, t) \/ TornClose(d, t) \/ TornFailure(d, t)
        PROVE  OutKept /\ \E lost : CrashAll(lost)
    BY <2>2, OutOfStatus DEF TornClaim, TornClose, TornFailure
  <2>3. ASSUME NEW t \in Tasks, NEW n \in Attempt, NEW decision \in Decision, TornResolve(d, t, n, decision)
        PROVE  OutKept /\ \E lost : CrashAll(lost)
    <3>1. task' = task \/ \E s : SetStatus(t, s)
      BY <2>3 DEF TornResolve
    <3> QED  BY <2>3, <3>1, OutOfStatus DEF TornResolve, OutKept
  <2>4. ASSUME NEW t \in Tasks, TornAsk(d, t) PROVE OutKept /\ \E lost : CrashAll(lost)
    <3> DEFINE n == task[t].attempts + 1
    <3> DEFINE claimed == [task EXCEPT ![t].status = "running", ![t].claim = n, ![t].attempts = n]
    <3>1. \/ task' = claimed
          \/ task' = [claimed EXCEPT ![t].link = n]
          \/ task' = [claimed EXCEPT ![t].link = n, ![t].status = "waiting_approval"]
      BY <2>4 DEF TornAsk
    <3>2. OutKept
      <4>1. CASE task' = claimed
        BY <4>1, TaskFields DEF TypeOK, TaskRecord, OutKept
      <4>2. CASE task' = [claimed EXCEPT ![t].link = n]
        BY <4>2, TaskFields DEF TypeOK, TaskRecord, OutKept
      <4>3. CASE task' = [claimed EXCEPT ![t].link = n, ![t].status = "waiting_approval"]
        BY <4>3, TaskFields DEF TypeOK, TaskRecord, OutKept
      <4> QED  BY <3>1, <4>1, <4>2, <4>3
    <3> QED  BY <2>4, <3>2 DEF TornAsk
  <2> QED  BY <1>2, <2>1, <2>2, <2>3, <2>4 DEF TornControl, Decision
<1>3. Crash => CrashAll({})
  BY DEF Crash
<1> QED  BY <1>1, <1>2, <1>3 DEF Die

(***************************************************************************)
(* What is stored and listed, step by step.                                 *)
(***************************************************************************)
JobStatus == {"new", "refused", "running", "completed", "failed", "gone"}
JobRecord == [status : JobStatus, told : BOOLEAN]

LEMMA JobTyped ==
  ASSUME InsuranceTypeOK, NEW d \in Drivers, JobGoesOn(d)
  PROVE  /\ job' \in JobRecord
         /\ d # Job \/ driver'[d].pc \notin Ended => job' = job
<1>1. job \in JobRecord
  BY DEF InsuranceTypeOK, JobRecord, JobStatus
<1>2. CASE d # Job \/ driver'[d].pc \notin Ended
  BY <1>1, <1>2 DEF JobGoesOn
<1>3. CASE ~(d # Job \/ driver'[d].pc \notin Ended)
  <2>1. PICK b \in BOOLEAN : b = (\E t \in TaskKeys : route[t].counted)
    OBVIOUS
  <2>2. PICK s \in {"completed", "failed"} : job' = [status |-> s, told |-> b]
    BY <1>3, <2>1 DEF JobGoesOn
  <2> QED  BY <1>3, <2>2 DEF JobRecord, JobStatus
<1> QED  BY <1>2, <1>3

LEMMA StartedOK ==
  ASSUME Base, NEW t \in TaskKeys, NEW n, t # "private-upload-policy", Reads(t, TRUE) \subseteq listed
  PROVE  /\ Started(t, n) \in Work /\ WorkOK(Started(t, n), t, stored, listed, live)
         /\ Started(t, n).at \in {"model", "write", "fail"}
         /\ Started(t, n).at = "fail" <=> n = 1 /\ t = Injected
         /\ Started(t, n).at = "write" => Started(t, n).todo = Outputs(t)
<1> USE DEF Base
<1>1. Reads(t, t \in live) \subseteq listed /\ Reads(t, FALSE) \subseteq listed
  <2>1. t \in live \/ t \notin live
    OBVIOUS
  <2>2. CASE t \in live
    <3>1. (t \in live) = TRUE
      BY <2>2
    <3> QED  BY <3>1, ReadFields
  <2>3. CASE t \notin live
    <3>1. (t \in live) = FALSE
      BY <2>3
    <3> QED  BY <3>1, ReadFields
  <2> QED  BY <2>1, <2>2, <2>3
<1> DEFINE at == IF n = 1 /\ t = Injected THEN "fail" ELSE IF t \in live THEN "model" ELSE "write"
<1> DEFINE D == Derived(t, 0, "autonomous", FALSE)
<1> DEFINE say == IF at = "write" THEN D ELSE Silent
<1> DEFINE w == [at |-> at, todo |-> Outputs(t), counted |-> FALSE, say |-> say]
<1>2. Started(t, n) = w
  BY <1>1 DEF Started
<1>3. /\ D \in Content /\ D.maker = 0 /\ \A s \in SlotsOf(t) : Sound(s, D, stored, listed)
  BY <1>1, Numbers, DerivedSound
<1>4. say \in Content
  BY <1>3, NoWorkFields
<1>5. at \in {"model", "write", "fail"} /\ (at = "fail" <=> n = 1 /\ t = Injected) /\ (at = "model" => t \in live)
  OBVIOUS
<1>6. at = "write" => say = D
  OBVIOUS
<1>7. /\ Outputs(t) \in Left(t) /\ Outputs(t) \in Seq(Slots)
      /\ \A s \in SlotsOf(t) : \E i \in 1..Len(Outputs(t)) : Outputs(t)[i] = s
  BY OutputsLeft
<1> HIDE DEF at, say, D
<1>8. w \in Work /\ w.at = at /\ w.todo = Outputs(t) /\ w.say = say
  BY <1>4, <1>5, <1>7 DEF Work
<1> HIDE DEF w
<1>9. WorkOK(w, t, stored, listed, live)
  BY <1>3, <1>5, <1>6, <1>7, <1>8 DEF WorkOK
<1> QED  BY <1>2, <1>5, <1>8, <1>9

LEMMA BaseControl ==
  ASSUME IInv, Base, TypeOK', NEW d \in Drivers, Control(d)
  PROVE  Base'
<1> USE DEF Base
<1>0. Known /\ LoopInv /\ TaskInv /\ TypeOK
  BY DEF IInv, Known
<1>1. /\ Turn(d) /\ (\A e \in Drivers \ {d} : ~Busy(e)) /\ work[d].at = "none"
  BY ControlBusy
<1>2. UNCHANGED <<request, live, files, calls>> /\ JobGoesOn(d)
  BY DEF Control
<1>3. OthersStay(d)
  BY <1>0, ControlSteps, StepOfDriver DEF StepOK
<1>4. Grows /\ StoreInv' /\ RouteInv'
  BY <1>0, <1>1, <1>2, OutOfTurn, NoFileStep DEF OutKept
<1>5. /\ work' \in [Drivers -> Work] /\ \A e \in Drivers \ {d} : work'[e] = work[e]
      /\ work'[d].at \in {"model", "write", "register", "fail"} => driver'[d].pc = "call"
      /\ work'[d].at # "mark" /\ WorkOK(work'[d], driver'[d].at, stored, listed, live)
  <2>1. CASE driver'[d].pc # "call"
    <3>1. work' = work
      BY <2>1 DEF Control
    <3> QED  BY <1>1, <3>1, NoWorkOK DEF InsuranceTypeOK
  <2>2. CASE driver'[d].pc = "call"
    <3> DEFINE t == driver'[d].at
    <3> DEFINE n == task'[t].attempts
    <3>1. work' = [work EXCEPT ![d] = Started(t, n)]
      BY <2>2 DEF Control
    <3>2. t \in TaskKeys /\ Policy[t] # "deny" /\ task[t].status # "pending"
      BY <1>0, <1>1, <2>2, WhoDispatches, Plan
    <3>3. t # "private-upload-policy" /\ Reads(t, TRUE) \subseteq listed
      BY <1>0, <3>2, Policies, InputsThere
    <3> HIDE DEF t, n
    <3>4. /\ Started(t, n) \in Work /\ WorkOK(Started(t, n), t, stored, listed, live)
          /\ Started(t, n).at \in {"model", "write", "fail"}
      BY <3>2, <3>3, StartedOK
    <3>5. WorkBecomes(d, Started(t, n))
      BY <3>1, <3>4, WorkChanges
    <3> QED  BY <2>2, <3>4, <3>5 DEF WorkBecomes, t
  <2> QED  BY <2>1, <2>2
<1>6. WorkInv'
  <2>1. stored' = stored /\ listed' = listed /\ live' = live
    BY <1>2 DEF files
  <2> QED  BY <1>0, <1>1, <1>3, <1>4, <1>5, <2>1, WorkStep
<1>7. InsuranceTypeOK'
  <2>1. job' \in JobRecord
    BY <1>2, JobTyped
  <2> QED  BY <1>2, <1>5, <2>1 DEF InsuranceTypeOK, files, JobRecord, JobStatus
<1> QED  BY <1>4, <1>6, <1>7

LEMMA BaseFail ==
  ASSUME IInv, Base, TypeOK', NEW d \in Drivers, Fail(d)
  PROVE  Base'
<1> USE DEF Base
<1>0. Known /\ LoopInv /\ TypeOK
  BY DEF IInv, Known
<1>1. /\ CallFails(d, NoContent) /\ UNCHANGED <<request, live, files, calls>> /\ JobGoesOn(d)
      /\ work[d].at = "fail" /\ work' = [work EXCEPT ![d] = NoWork]
  BY DEF Fail
<1>2. \A e \in Drivers \ {d} : ~Busy(e)
  BY <1>1, OnlyBusy DEF Busy, Writes
<1>3. OthersStay(d)
  BY <1>0, ControlSteps, StepOfDriver DEF StepOK
<1>4. Grows /\ StoreInv' /\ RouteInv'
  BY <1>0, <1>1, OutOfFail, NoFileStep DEF OutKept
<1>5. WorkBecomes(d, NoWork)
  BY <1>1, WorkChanges, NoWorkFields
<1>6. WorkInv'
  BY <1>0, <1>2, <1>3, <1>4, <1>5, NoWorkFields, NoWorkOK, WorkStep DEF WorkBecomes
<1>7. InsuranceTypeOK'
  <2>1. job' \in JobRecord
    BY <1>1, JobTyped
  <2> QED  BY <1>1, <1>5, <2>1 DEF InsuranceTypeOK, files, JobRecord, JobStatus, WorkBecomes
<1> QED  BY <1>4, <1>6, <1>7

\* Requests and decisions, and time: nobody is between two awaits.
LEMMA BaseRequest ==
  ASSUME IInv, Base, TypeOK', NEW d \in Drivers, Request(d), Free, UNCHANGED <<files, work, calls>>,
         live' = live, request' \in RoutingRequest, job' \in JobRecord
  PROVE  Base'
<1> USE DEF Base
<1>0. Known /\ LoopInv /\ TypeOK
  BY DEF IInv, Known
<1>1. OutKept /\ driver[d].pc = "new" /\ driver'[d].pc = "enter" /\ OthersStay(d) /\ Quiet
  BY <1>0, OutOfRequest
<1>2. \A e \in Drivers \ {d} : ~Busy(e)
  BY <1>0, <1>1, NobodyBusy
<1>3. Grows /\ StoreInv' /\ RouteInv'
  BY <1>1, NoFileStep DEF OutKept
<1>4. work[d].at = "none"
  BY <1>0, <1>1, AtWork
<1>5. WorkInv'
  BY <1>0, <1>1, <1>2, <1>3, <1>4, NoWorkOK, WorkStep
<1>6. InsuranceTypeOK'
  BY DEF InsuranceTypeOK, files, JobRecord, JobStatus
<1> QED  BY <1>3, <1>5, <1>6

LEMMA BaseDie ==
  ASSUME IInv, Base, TypeOK', Die
  PROVE  Base' /\ \A d \in Drivers : work'[d] = NoWork
<1> USE DEF Base
<1>0. Known /\ LoopInv /\ TypeOK
  BY DEF IInv, Known
<1>1. /\ UNCHANGED <<request, live, files, calls>> /\ work' = [d \in Drivers |-> NoWork]
      /\ job' = IF job.status = "running" THEN [job EXCEPT !.status = "gone"] ELSE job
  BY DEF Die
<1>2. PICK lost : CrashAll(lost)
  BY <1>0, OutOfDie
<1>3. Grows /\ StoreInv' /\ RouteInv'
  BY <1>0, <1>1, OutOfDie, NoFileStep DEF OutKept
<1>4. \A d \in Drivers : work'[d] = NoWork /\ driver'[d].pc \notin Sync
  BY <1>0, <1>1, <1>2, CrashFields DEF Sync, Ended
<1>5. WorkInv'
  BY <1>4, NoWorkFields, NoWorkOK DEF WorkInv, Busy, Writes
<1>6. InsuranceTypeOK'
  <2>1. job' \in JobRecord
    BY <1>1 DEF InsuranceTypeOK, JobRecord, JobStatus
  <2>2. work' \in [Drivers -> Work]
    BY <1>1, NoWorkFields
  <2> QED  BY <1>1, <2>1, <2>2 DEF InsuranceTypeOK, files, JobRecord, JobStatus
<1> QED  BY <1>3, <1>4, <1>5, <1>6

(***************************************************************************)
(* The adapter's own steps.                                                 *)
(***************************************************************************)
LEMMA WorkIs ==
  ASSUME InsuranceTypeOK, NEW d \in Drivers
  PROVE  /\ work[d] \in Work /\ work[d].todo \in Seq(Slots) /\ work[d].say \in Content /\ work[d].counted \in BOOLEAN
         /\ work[d].at \in WorkAt
<1>1. work[d] \in Work
  BY DEF InsuranceTypeOK
<1> QED  BY <1>1 DEF Work, WorkAt

\* The content to write becomes known.
Says(d, say, counted) ==
  work' = [work EXCEPT ![d].at = "write", ![d].counted = counted, ![d].say = say]

LEMMA SaysWork ==
  ASSUME InsuranceTypeOK, NEW d \in Drivers, NEW say \in Content, NEW counted \in BOOLEAN, Says(d, say, counted)
  PROVE  /\ work' \in [Drivers -> Work] /\ \A e \in Drivers \ {d} : work'[e] = work[e]
         /\ work'[d].at = "write" /\ work'[d].todo = work[d].todo /\ work'[d].say = say /\ work'[d].counted = counted
<1>1. work[d] \in Work
  BY WorkIs
<1> DEFINE r == [work[d] EXCEPT !.at = "write", !.counted = counted, !.say = say]
<1>2. work' = [work EXCEPT ![d] = r]
  <2>1. work \in [Drivers -> Work]
    BY DEF InsuranceTypeOK
  <2> QED  BY <1>1, <2>1 DEF Says, Work
<1>3. /\ r \in Work /\ r.at = "write" /\ r.todo = work[d].todo /\ r.say = say /\ r.counted = counted
  BY <1>1 DEF Work
<1> HIDE DEF r
<1>4. WorkBecomes(d, r)
  BY <1>2, <1>3, WorkChanges
<1> QED  BY <1>3, <1>4 DEF WorkBecomes

LEMMA GoesTo ==
  ASSUME InsuranceTypeOK, NEW d \in Drivers, NEW at \in WorkAt, work' = [work EXCEPT ![d].at = at]
  PROVE  /\ work' \in [Drivers -> Work] /\ \A e \in Drivers \ {d} : work'[e] = work[e]
         /\ work'[d].at = at /\ work'[d].todo = work[d].todo /\ work'[d].say = work[d].say
         /\ work'[d].counted = work[d].counted
<1>1. work[d] \in Work
  BY WorkIs
<1> DEFINE r == [work[d] EXCEPT !.at = at]
<1>2. work' = [work EXCEPT ![d] = r]
  BY DEF InsuranceTypeOK
<1>3. /\ r \in Work /\ r.at = at /\ r.todo = work[d].todo /\ r.say = work[d].say /\ r.counted = work[d].counted
  BY <1>1 DEF Work, WorkAt
<1> HIDE DEF r
<1>4. WorkBecomes(d, r)
  BY <1>2, <1>3, WorkChanges
<1> QED  BY <1>3, <1>4 DEF WorkBecomes

\* An answer, or the deterministic handler in its place.
Answers(d) == LiveAnswers(d) \/ GatewayFails(d) \/ AnswersInvalid(d)

LEMMA AnswerStep ==
  ASSUME IInv, Base, NEW d \in Drivers, Answers(d)
  PROVE  /\ UNCHANGED <<vars, request, live, files, job>> /\ calls' \in Call /\ Free /\ Quiet
         /\ work[d].at = "model" /\ driver[d].pc = "call"
         /\ work' \in [Drivers -> Work] /\ \A e \in Drivers \ {d} : work'[e] = work[e]
         /\ work'[d].at = "write" /\ work'[d].todo = Outputs(driver[d].at)
         /\ (work'[d].say.maker # 0 => work'[d].counted)
         /\ \A s \in SlotsOf(driver[d].at) : Sound(s, work'[d].say, stored, listed)
<1> USE DEF Base
<1> DEFINE t == driver[d].at
<1>0. TypeOK
  BY DEF IInv
<1>1. /\ UNCHANGED <<vars, request, live, files, job>> /\ Await(d)
  BY DEF Answers, LiveAnswers, GatewayFails, AnswersInvalid
<1>2. Free /\ Quiet /\ work[d].at = "model" /\ driver[d].pc = "call"
  BY <1>1 DEF Await, Resumed
<1>3. t \in TaskKeys /\ t # "private-upload-policy" /\ Reads(t, TRUE) \subseteq listed /\ Reads(t, FALSE) \subseteq listed
      /\ work[d].todo = Outputs(t)
  <2>1. t \in TaskKeys /\ t # "private-upload-policy"
    BY <1>0, <1>2, AtWork
  <2>2. Reads(t, TRUE) \subseteq listed /\ work[d].todo = Outputs(t)
    BY <1>2 DEF WorkInv, WorkOK
  <2> QED  BY <2>1, <2>2, ReadFields
<1>4. PICK maker \in Call, asked \in {"safe", "autonomous"}, isLive \in BOOLEAN, counted \in BOOLEAN :
        Says(d, Derived(t, maker, asked, isLive), counted) /\ (maker # 0 => counted) /\ calls' \in Call
  <2>1. CASE LiveAnswers(d)
    <3>1. calls' \in Call /\ calls' = calls + 1 /\ calls + 1 \in Call
      BY <2>1, Numbers DEF LiveAnswers, InsuranceTypeOK
    <3>2. PICK asked \in {"safe", "autonomous"} : Says(d, Derived(t, calls + 1, asked, TRUE), TRUE)
      BY <2>1 DEF LiveAnswers, Says
    <3> QED  BY <3>1, <3>2
  <2>2. CASE GatewayFails(d)
    <3>1. calls' \in Call /\ 0 \in Call
      BY <2>2, Numbers DEF GatewayFails, InsuranceTypeOK
    <3>2. Says(d, Derived(t, 0, "autonomous", FALSE), FALSE)
      BY <2>2 DEF GatewayFails, FallBack, Says
    <3> QED  BY <3>1, <3>2
  <2>3. CASE AnswersInvalid(d)
    <3>1. calls' \in Call /\ 0 \in Call
      BY <2>3, Numbers DEF AnswersInvalid, InsuranceTypeOK
    <3>2. Says(d, Derived(t, 0, "autonomous", FALSE), TRUE)
      BY <2>3 DEF AnswersInvalid, FallBack, Says
    <3> QED  BY <3>1, <3>2
  <2> QED  BY <2>1, <2>2, <2>3 DEF Answers
<1> DEFINE D == Derived(t, maker, asked, isLive)
<1>5. D \in Content /\ D.maker = maker /\ \A s \in SlotsOf(t) : Sound(s, D, stored, listed)
  <2>1. Reads(t, isLive) \subseteq listed
    BY <1>3
  <2> QED  BY <1>3, <2>1, DerivedSound
<1> HIDE DEF t, D
<1>6. Says(d, D, counted)
  BY <1>4 DEF D
<1>7. /\ work' \in [Drivers -> Work] /\ \A e \in Drivers \ {d} : work'[e] = work[e]
      /\ work'[d].at = "write" /\ work'[d].todo = work[d].todo /\ work'[d].say = D /\ work'[d].counted = counted
  BY <1>5, <1>6, SaysWork
<1> QED  BY <1>1, <1>2, <1>3, <1>4, <1>5, <1>7 DEF t

LEMMA VarsStay ==
  ASSUME UNCHANGED vars
  PROVE  /\ UNCHANGED <<run, plan, task, approval, expired, driver, called, crashes, overlapped>>
         /\ OutKept /\ \A d : OthersStay(d)
BY DEF vars, OutKept, OthersStay

LEMMA BaseAnswer ==
  ASSUME IInv, Base, NEW d \in Drivers, Answers(d)
  PROVE  Base'
<1> USE DEF Base
<1>0. TypeOK
  BY DEF IInv
<1>1. /\ UNCHANGED <<vars, request, live, files, job>> /\ calls' \in Call /\ Free /\ Quiet
      /\ work[d].at = "model" /\ driver[d].pc = "call"
      /\ work' \in [Drivers -> Work] /\ \A e \in Drivers \ {d} : work'[e] = work[e]
      /\ work'[d].at = "write" /\ work'[d].todo = Outputs(driver[d].at)
      /\ (work'[d].say.maker # 0 => work'[d].counted)
      /\ \A s \in SlotsOf(driver[d].at) : Sound(s, work'[d].say, stored, listed)
  BY AnswerStep
<1>2. UNCHANGED <<task, driver>> /\ OutKept /\ OthersStay(d)
  BY <1>1, VarsStay
<1>3. Grows /\ StoreInv' /\ RouteInv'
  BY <1>1, <1>2, NoFileStep DEF OutKept
<1>4. \A e \in Drivers \ {d} : ~Busy(e)
  BY <1>0, <1>1, NobodyBusy
<1>5. WorkOK(work'[d], driver'[d].at, stored', listed', live')
  <2>1. driver[d].at \in TaskKeys /\ driver[d].at # "private-upload-policy"
    BY <1>0, <1>1, AtWork
  <2> QED  BY <1>1, <1>2, <2>1, OutputsLeft DEF WorkOK, files
<1>6. WorkInv'
  BY <1>0, <1>1, <1>2, <1>3, <1>4, <1>5, WorkStep
<1>7. InsuranceTypeOK'
  BY <1>1 DEF InsuranceTypeOK, files
<1> QED  BY <1>3, <1>6, <1>7

\* What is being written is of the task and new, or the same.
LEMMA AtHand ==
  ASSUME IInv, Base, NEW d \in Drivers, work[d].at \in {"write", "register"}
  PROVE  LET t == driver[d].at  todo == work[d].todo  say == work[d].say IN
         /\ t \in TaskKeys /\ t # "private-upload-policy" /\ todo \in Left(t)
         /\ Head(todo) \in SlotsOf(t) /\ Head(todo) \in Slots
         /\ say \in Content /\ say # None
         /\ \A s \in SlotsOf(t) : Sound(s, say, stored, listed)
         /\ \A s \in SlotsOf(t) : s \in listed \/ \E i \in 1..Len(todo) : todo[i] = s
         /\ (say.maker # 0 => work[d].counted)
         /\ driver[d].pc = "call" /\ \A e \in Drivers \ {d} : ~Busy(e)
<1> USE DEF Base
<1>0. TypeOK
  BY DEF IInv
<1>1. driver[d].at \in TaskKeys /\ driver[d].at # "private-upload-policy" /\ work[d] \in Work
  BY <1>0, AtWork
<1>2. /\ work[d].todo \in Left(driver[d].at)
      /\ \A s \in SlotsOf(driver[d].at) : s \in listed \/ \E i \in 1..Len(work[d].todo) : work[d].todo[i] = s
      /\ \A s \in SlotsOf(driver[d].at) : Sound(s, work[d].say, stored, listed)
      /\ (work[d].say.maker # 0 => work[d].counted) /\ driver[d].pc = "call"
  BY DEF WorkInv, WorkOK
<1>3. Head(work[d].todo) \in SlotsOf(driver[d].at)
  BY <1>1, <1>2, LeftFields
<1>4. Head(work[d].todo) \in Slots
  BY <1>1, <1>3, AllSlots
<1>5. work[d].say \in Content /\ work[d].say # None
  BY <1>1, WorkFields
<1>6. \A e \in Drivers \ {d} : ~Busy(e)
  BY OnlyBusy DEF Busy, Writes
<1> QED  BY <1>1, <1>2, <1>3, <1>4, <1>5, <1>6

\* The first writer of an output, or one who has the same to say.
Agrees(d) == stored[Head(work[d].todo)] \in {None, work[d].say}

LEMMA WriteStep ==
  ASSUME IInv, Base, NEW d \in Drivers, Write(d)
  PROVE  /\ UNCHANGED <<vars, request, live, listed, route, calls, job>> /\ work[d].at = "write"
         /\ work' \in [Drivers -> Work] /\ \A e \in Drivers \ {d} : work'[e] = work[e]
         /\ work'[d].todo = work[d].todo /\ work'[d].say = work[d].say /\ work'[d].counted = work[d].counted
         /\ IF Agrees(d)
            THEN work'[d].at = "register" /\ stored' = [stored EXCEPT ![Head(work[d].todo)] = work[d].say]
            ELSE work'[d].at = "fail" /\ stored' = stored
<1>1. PICK at \in {"register", "fail"} :
        /\ work' = [work EXCEPT ![d].at = at]
        /\ IF Agrees(d)
           THEN at = "register" /\ stored' = [stored EXCEPT ![Head(work[d].todo)] = work[d].say]
           ELSE at = "fail" /\ stored' = stored
  BY DEF Write, Agrees
<1>2. at \in WorkAt /\ InsuranceTypeOK
  BY DEF WorkAt, Base
<1>3. /\ work' \in [Drivers -> Work] /\ \A e \in Drivers \ {d} : work'[e] = work[e]
      /\ work'[d].at = at /\ work'[d].todo = work[d].todo /\ work'[d].say = work[d].say
      /\ work'[d].counted = work[d].counted
  BY <1>1, <1>2, GoesTo
<1> QED  BY <1>1, <1>3 DEF Write

LEMMA BaseWrite ==
  ASSUME IInv, Base, NEW d \in Drivers, Write(d)
  PROVE  Base'
<1> USE DEF Base
<1>0. TypeOK
  BY DEF IInv
<1> DEFINE t == driver[d].at
<1> DEFINE say == work[d].say
<1> DEFINE x == Head(work[d].todo)
<1>1. /\ UNCHANGED <<vars, request, live, listed, route, calls, job>> /\ work[d].at = "write"
      /\ work' \in [Drivers -> Work] /\ \A e \in Drivers \ {d} : work'[e] = work[e]
      /\ work'[d].todo = work[d].todo /\ work'[d].say = say /\ work'[d].counted = work[d].counted
  BY WriteStep
<1>2. UNCHANGED <<task, driver>> /\ OthersStay(d)
  BY <1>1, VarsStay
<1>3. /\ t \in TaskKeys /\ t # "private-upload-policy" /\ work[d].todo \in Left(t)
      /\ x \in SlotsOf(t) /\ x \in Slots /\ say \in Content /\ say # None
      /\ \A s \in SlotsOf(t) : Sound(s, say, stored, listed)
      /\ \A s \in SlotsOf(t) : s \in listed \/ \E i \in 1..Len(work[d].todo) : work[d].todo[i] = s
      /\ (say.maker # 0 => work[d].counted)
      /\ driver[d].pc = "call" /\ \A e \in Drivers \ {d} : ~Busy(e)
  BY <1>1, AtHand
<1> HIDE DEF x, say, t
<1>4. CASE Agrees(d)
  <2>1. work'[d].at = "register" /\ stored' = [stored EXCEPT ![x] = say] /\ (stored[x] = None \/ stored[x] = say)
    BY <1>4, WriteStep DEF x, say, Agrees
  <2>2. /\ stored' \in [Slots -> Content \cup {None}] /\ stored'[x] = say
        /\ \A s \in Slots \ {x} : stored'[s] = stored[s]
    BY <1>3, <2>1 DEF InsuranceTypeOK
  <2>3. Grows
    BY <1>1, <2>1, <2>2 DEF Grows, InsuranceTypeOK
  <2>4. StoreInv'
    <3>1. \A s \in listed' : stored'[s] # None
      BY <1>1, <1>3, <2>2, StoreFields DEF StoreInv
    <3>2. ASSUME NEW s \in Slots, stored'[s] # None PROVE Sound(s, stored'[s], stored', listed')
      <4>1. stored'[s] \in Content /\ Sound(s, stored'[s], stored, listed)
        BY <1>3, <2>1, <2>2, <3>2 DEF StoreInv
      <4> QED  BY <2>3, <4>1, SoundStays
    <3> QED  BY <1>1, <1>2, <3>1, <3>2 DEF StoreInv
  <2>5. RouteInv'
    BY <1>1, <2>3, RoutesStay
  <2>6. \A s \in SlotsOf(t) : Sound(s, say, stored', listed')
    BY <1>3, <2>3, SoundStays, AllSlots
  <2>7. WorkOK(work'[d], t, stored', listed', live')
    <3>1. stored'[Head(work'[d].todo)] = work'[d].say
      BY <1>1, <2>2 DEF x
    <3>2. /\ work'[d].todo \in Left(t)
          /\ \A s \in SlotsOf(t) : s \in listed' \/ \E i \in 1..Len(work'[d].todo) : work'[d].todo[i] = s
          /\ \A s \in SlotsOf(t) : Sound(s, work'[d].say, stored', listed')
          /\ work'[d].say.maker # 0 => work'[d].counted
      BY <1>1, <1>3, <2>6
    <3> QED  BY <1>3, <2>1, <3>1, <3>2 DEF WorkOK
  <2>8. WorkInv'
    BY <1>0, <1>1, <1>2, <1>3, <2>1, <2>3, <2>7, WorkStep DEF t
  <2>9. InsuranceTypeOK'
    BY <1>1, <2>2 DEF InsuranceTypeOK
  <2> QED  BY <2>4, <2>5, <2>8, <2>9
<1>5. CASE ~Agrees(d)
  <2>1. work'[d].at = "fail" /\ stored' = stored
    BY <1>5, WriteStep
  <2>2. Grows /\ StoreInv' /\ RouteInv'
    BY <1>1, <1>2, <2>1, NoFileStep DEF files
  <2>3. WorkOK(work'[d], t, stored', listed', live')
    BY <1>3, <2>1 DEF WorkOK
  <2>4. WorkInv'
    BY <1>0, <1>1, <1>2, <1>3, <2>1, <2>2, <2>3, WorkStep DEF t
  <2>5. InsuranceTypeOK'
    BY <1>1, <2>1 DEF InsuranceTypeOK
  <2> QED  BY <2>2, <2>4, <2>5
<1> QED  BY <1>4, <1>5

\* With the last output of a task its bundle is whole.
LastOutput(d) == Len(work[d].todo) = 1

LEMMA RegisterStep ==
  ASSUME IInv, Base, NEW d \in Drivers, Register(d)
  PROVE  /\ UNCHANGED <<request, live, stored, route, calls, job>> /\ work[d].at = "register"
         /\ listed' = listed \cup {Head(work[d].todo)}
         /\ work' \in [Drivers -> Work] /\ \A e \in Drivers \ {d} : work'[e] = work[e]
         /\ work'[d].say = work[d].say /\ work'[d].counted = work[d].counted
         /\ IF LastOutput(d)
            THEN /\ work'[d].at = "mark" /\ work'[d].todo = <<>>
                 /\ CallSucceeds(d, "bundle") /\ UNCHANGED overlapped
            ELSE work'[d].at = "write" /\ work'[d].todo = Tail(work[d].todo) /\ UNCHANGED vars
<1> USE DEF Base
<1>1. UNCHANGED <<request, live, stored, route, calls, job>> /\ work[d].at = "register"
      /\ listed' = listed \cup {Head(work[d].todo)}
  BY DEF Register
<1>2. /\ Tail(work[d].todo) \in Seq(Slots) /\ Len(work[d].todo) \in 1..3 /\ <<>> \in Seq(Slots)
  BY <1>1, AtHand, LeftFields
<1>3. PICK at \in {"mark", "write"}, todo \in Seq(Slots) :
        /\ work' = [work EXCEPT ![d].todo = todo, ![d].at = at]
        /\ IF LastOutput(d)
            THEN at = "mark" /\ todo = <<>> /\ CallSucceeds(d, "bundle") /\ UNCHANGED overlapped
            ELSE at = "write" /\ todo = Tail(work[d].todo) /\ UNCHANGED vars
  <2>1. CASE LastOutput(d)
    <3>1. work' = [work EXCEPT ![d].todo = <<>>, ![d].at = "mark"] /\ CallSucceeds(d, "bundle") /\ UNCHANGED overlapped
      BY <1>2, <2>1 DEF Register, LastOutput
    <3>2. <<>> \in Seq(Slots)
      OBVIOUS
    <3> QED  BY <2>1, <3>1, <3>2
  <2>2. CASE ~LastOutput(d)
    <3> DEFINE x == Tail(work[d].todo)
    <3>1. work' = [work EXCEPT ![d].todo = Tail(@), ![d].at = "write"] /\ UNCHANGED vars
      BY <1>2, <2>2 DEF Register, LastOutput
    <3>2. work' = [work EXCEPT ![d].todo = x, ![d].at = "write"]
      BY <3>1 DEF InsuranceTypeOK
    <3>3. x \in Seq(Slots)
      BY <1>2
    <3> HIDE DEF x
    <3> QED  BY <2>2, <3>1, <3>2, <3>3 DEF x
  <2> QED  BY <2>1, <2>2
<1>4. work[d] \in Work /\ at \in WorkAt
  BY WorkIs DEF WorkAt
<1> DEFINE r == [work[d] EXCEPT !.todo = todo, !.at = at]
<1>5. work' = [work EXCEPT ![d] = r]
  BY <1>3 DEF InsuranceTypeOK, Work
<1>6. /\ r \in Work /\ r.at = at /\ r.todo = todo /\ r.say = work[d].say /\ r.counted = work[d].counted
  BY <1>4 DEF Work, WorkAt
<1> HIDE DEF r
<1>7. WorkBecomes(d, r)
  BY <1>5, <1>6, WorkChanges
<1> QED  BY <1>1, <1>3, <1>6, <1>7 DEF WorkBecomes

\* A call that succeeds.
LEMMA SucceedFields ==
  ASSUME TypeOK, NEW d \in Drivers, CallSucceeds(d, "bundle")
  PROVE  LET t == driver[d].at IN
         /\ t \in Tasks /\ Resumed(d) /\ OthersStay(d) /\ driver'[d].pc = "returned" /\ driver'[d].at = t
         /\ driver'[d].view = driver[d].view /\ driver'[d].todo = driver[d].todo /\ driver'[d].via = driver[d].via
         /\ task'[t].out /\ \A u \in Tasks \ {t} : task'[u] = task[u]
         /\ \A u \in Tasks : task'[u].status = task[u].status /\ KeepsClaim(u)
         /\ UNCHANGED <<run, plan, approval, expired, called, crashes>>
<1> DEFINE t == driver[d].at
<1>1. t \in Tasks /\ driver[d] \in DriverRecord
  BY DriverFields
<1>2. /\ OthersStay(d) /\ driver'[d].pc = "returned" /\ driver'[d].at = t
      /\ driver'[d].view = driver[d].view /\ driver'[d].todo = driver[d].todo /\ driver'[d].via = driver[d].via
  BY <1>1 DEF CallSucceeds, TypeOK, DriverRecord, OthersStay
<1> HIDE DEF t
<1>3. task[t] \in TaskRecord
  BY <1>1, TaskFields
<1>4. task' = [task EXCEPT ![t].part = "bundle", ![t].out = TRUE]
  BY DEF CallSucceeds, t
<1>5. /\ task'[t].out /\ task'[t].status = task[t].status /\ KeepsClaim(t)
      /\ \A u \in Tasks \ {t} : task'[u] = task[u]
  BY <1>1, <1>3, <1>4 DEF TypeOK, TaskRecord, KeepsClaim
<1>6. \A u \in Tasks : task'[u].status = task[u].status /\ KeepsClaim(u)
  BY <1>5 DEF KeepsClaim
<1> QED  BY <1>1, <1>2, <1>5, <1>6 DEF CallSucceeds, t

LEMMA BaseRegister ==
  ASSUME IInv, Base, NEW d \in Drivers, Register(d)
  PROVE  Base'
<1> USE DEF Base
<1>0. TypeOK
  BY DEF IInv
<1> DEFINE t == driver[d].at
<1> DEFINE say == work[d].say
<1> DEFINE todo == work[d].todo
<1> DEFINE x == Head(todo)
<1>1. /\ UNCHANGED <<request, live, stored, route, calls, job>> /\ work[d].at = "register"
      /\ listed' = listed \cup {x}
      /\ work' \in [Drivers -> Work] /\ \A e \in Drivers \ {d} : work'[e] = work[e]
      /\ work'[d].say = say /\ work'[d].counted = work[d].counted
  BY RegisterStep
<1>2. /\ t \in TaskKeys /\ t # "private-upload-policy" /\ todo \in Left(t)
      /\ x \in SlotsOf(t) /\ x \in Slots /\ say \in Content /\ say # None
      /\ \A s \in SlotsOf(t) : Sound(s, say, stored, listed)
      /\ \A s \in SlotsOf(t) : s \in listed \/ \E i \in 1..Len(todo) : todo[i] = s
      /\ (say.maker # 0 => work[d].counted)
      /\ driver[d].pc = "call" /\ \A e \in Drivers \ {d} : ~Busy(e)
  BY <1>1, AtHand
<1>3. stored[x] = say
  BY <1>1 DEF WorkInv, WorkOK
<1>4. /\ Len(todo) \in 1..3 /\ x = todo[1]
      /\ Len(todo) # 1 => Tail(todo) \in Left(t)
      /\ Len(Tail(todo)) = Len(todo) - 1 /\ \A i \in 1..(Len(todo) - 1) : Tail(todo)[i] = todo[i + 1]
      /\ t # "verification" => todo = <<t>>
  BY <1>2, LeftFields
<1>5. Grows
  BY <1>1, <1>2 DEF Grows, InsuranceTypeOK
<1>6. \A s \in Slots, c \in Content : Sound(s, c, stored, listed) => Sound(s, c, stored', listed')
  BY <1>5, SoundStays
<1>7. /\ \A s \in listed' : stored'[s] # None
      /\ \A s \in Slots : stored'[s] # None => Sound(s, stored'[s], stored', listed')
  <2>1. \A s \in listed' : stored'[s] # None
    BY <1>1, <1>2, <1>3 DEF StoreInv
  <2>2. \A s \in Slots : stored'[s] # None => Sound(s, stored'[s], stored', listed')
    BY <1>1, <1>6, StoreFields DEF StoreInv
  <2> QED  BY <2>1, <2>2
<1>8. RouteInv'
  BY <1>1, <1>5, RoutesStay
<1>9. \A s \in SlotsOf(t) : Sound(s, say, stored', listed')
  BY <1>2, <1>6, AllSlots
<1>10. InsuranceTypeOK'
  BY <1>1, <1>2 DEF InsuranceTypeOK
<1>11. CASE LastOutput(d)
  <2>1. work'[d].at = "mark" /\ CallSucceeds(d, "bundle")
    BY <1>11, RegisterStep
  <2>2. /\ OthersStay(d) /\ driver'[d].pc = "returned" /\ driver'[d].at = t
        /\ \A u \in Tasks \ {t} : task'[u] = task[u]
    BY <1>0, <2>1, SucceedFields
  <2>3. SlotsOf(t) \subseteq listed'
    BY <1>1, <1>2, <1>4, <1>11 DEF LastOutput
  <2>4. t \in live' => stored'[t] = say
    BY <1>1, <1>2, <1>3, <1>4, LiveFields
  <2>5. WorkOK(work'[d], t, stored', listed', live')
    BY <1>1, <1>2, <1>9, <2>1, <2>4 DEF WorkOK
  <2>6. WorkInv'
    BY <1>0, <1>1, <1>2, <1>5, <2>1, <2>2, <2>5, WorkStep
  <2>7. \A u \in TaskKeys : task'[u].out => SlotsOf(u) \subseteq listed'
    BY <1>1, <2>2, <2>3, Plan DEF StoreInv
  <2> QED  BY <1>7, <1>8, <1>10, <2>6, <2>7 DEF StoreInv
<1>12. CASE ~LastOutput(d)
  <2>1. work'[d].at = "write" /\ work'[d].todo = Tail(todo) /\ UNCHANGED vars /\ Len(todo) # 1
    BY <1>12, RegisterStep DEF LastOutput
  <2>2. UNCHANGED <<task, driver>> /\ OthersStay(d)
    BY <2>1, VarsStay
  <2>3. \A s \in SlotsOf(t) : s \in listed' \/ \E i \in 1..Len(Tail(todo)) : Tail(todo)[i] = s
    <3> SUFFICES ASSUME NEW s \in SlotsOf(t), s \notin listed'
                 PROVE  \E i \in 1..Len(Tail(todo)) : Tail(todo)[i] = s
      OBVIOUS
    <3>1. PICK i \in 1..Len(todo) : todo[i] = s
      BY <1>1, <1>2
    <3>2. i # 1
      BY <1>1, <1>4, <3>1
    <3>3. i - 1 \in 1..(Len(todo) - 1) /\ (i - 1) + 1 = i
      BY <1>4, <3>2
    <3>4. Tail(todo)[i - 1] = s
      BY <1>4, <3>1, <3>3
    <3> QED  BY <1>4, <3>3, <3>4
  <2>4. WorkOK(work'[d], t, stored', listed', live')
    <3> HIDE DEF t, say, todo, x
    <3>1. /\ work'[d].todo \in Left(t)
          /\ \A s \in SlotsOf(t) : s \in listed' \/ \E i \in 1..Len(work'[d].todo) : work'[d].todo[i] = s
      BY <1>4, <2>1, <2>3
    <3>2. /\ \A s \in SlotsOf(t) : Sound(s, work'[d].say, stored', listed')
          /\ work'[d].say.maker # 0 => work'[d].counted
      BY <1>1, <1>2, <1>9
    <3> QED  BY <1>2, <2>1, <3>1, <3>2 DEF WorkOK
  <2>5. WorkInv'
    BY <1>0, <1>1, <1>2, <1>5, <2>1, <2>2, <2>4, WorkStep
  <2>6. \A u \in TaskKeys : task'[u].out => SlotsOf(u) \subseteq listed'
    BY <1>1, <2>2 DEF StoreInv
  <2> QED  BY <1>7, <1>8, <1>10, <2>5, <2>6 DEF StoreInv
<1> QED  BY <1>11, <1>12

LEMMA MarkStep ==
  ASSUME IInv, Base, NEW d \in Drivers, Mark(d)
  PROVE  LET t == driver[d].at IN
         /\ UNCHANGED <<vars, request, live, stored, listed, calls, job>> /\ work[d].at = "mark"
         /\ WorkBecomes(d, NoWork) /\ t \in TaskKeys /\ driver[d].pc = "returned"
         /\ route' \in [TaskKeys -> RouteRecord] /\ route'[t].executed
         /\ IF route[t].executed THEN route'[t] = route[t]
            ELSE route'[t].call = work[d].say.maker /\ route'[t].counted = work[d].counted
         /\ \A u \in TaskKeys \ {t} : route'[u] = route[u]
<1> USE DEF Base
<1> DEFINE t == driver[d].at
<1> DEFINE r == IF route[t].executed THEN route[t]
                ELSE [executed |-> TRUE, call |-> work[d].say.maker, counted |-> work[d].counted]
<1>1. /\ UNCHANGED <<vars, request, live, stored, listed, calls, job>> /\ work[d].at = "mark"
      /\ work' = [work EXCEPT ![d] = NoWork]
  BY DEF Mark
<1>2. t \in TaskKeys /\ driver[d].pc = "returned" /\ work[d] \in Work
  BY <1>1, AtWork DEF IInv
<1> HIDE DEF t
<1>3. route' = [route EXCEPT ![t] = r]
  BY <1>2, StoreFields DEF Mark, t
<1>4. r \in RouteRecord /\ r.executed
      /\ IF route[t].executed THEN r = route[t] ELSE r.call = work[d].say.maker /\ r.counted = work[d].counted
  <2>1. work[d].say.maker \in Call /\ work[d].counted \in BOOLEAN
    BY <1>2, WorkFields
  <2>2. route[t] \in RouteRecord
    BY <1>2, StoreFields
  <2> QED  BY <2>1, <2>2 DEF RouteRecord
<1> HIDE DEF r
<1>5. route' \in [TaskKeys -> RouteRecord] /\ route'[t] = r /\ \A u \in TaskKeys \ {t} : route'[u] = route[u]
  BY <1>2, <1>3, <1>4, StoreFields
<1>6. WorkBecomes(d, NoWork)
  BY <1>1, WorkChanges, NoWorkFields
<1> QED  BY <1>1, <1>2, <1>4, <1>5, <1>6 DEF t

LEMMA BaseMark ==
  ASSUME IInv, Base, NEW d \in Drivers, Mark(d)
  PROVE  Base'
<1> USE DEF Base
<1>0. TypeOK
  BY DEF IInv
<1> DEFINE t == driver[d].at
<1>1. /\ UNCHANGED <<vars, request, live, stored, listed, calls, job>> /\ work[d].at = "mark"
      /\ WorkBecomes(d, NoWork) /\ t \in TaskKeys /\ driver[d].pc = "returned"
      /\ route' \in [TaskKeys -> RouteRecord] /\ route'[t].executed
      /\ IF route[t].executed THEN route'[t] = route[t]
         ELSE route'[t].call = work[d].say.maker /\ route'[t].counted = work[d].counted
      /\ \A u \in TaskKeys \ {t} : route'[u] = route[u]
  BY MarkStep
<1>2. UNCHANGED <<task, driver>> /\ OthersStay(d)
  BY <1>1, VarsStay
<1>3. (work[d].say.maker # 0 => work[d].counted) /\ (t \in live => stored[t] = work[d].say) /\ work[d].say # None
  BY <1>1, AtWork, WorkFields DEF WorkInv, WorkOK, IInv
<1>4. Grows
  BY <1>1 DEF Grows, InsuranceTypeOK
<1>5. StoreInv'
  BY <1>1, <1>2 DEF StoreInv
<1>6. RouteInv'
  <2>1. live' \subseteq {"engineering-plan", "risk-review"}
    BY <1>1 DEF RouteInv
  <2>2. ASSUME NEW u \in live, route'[u].executed
        PROVE  /\ stored[u] # None /\ stored[u].maker = route'[u].call
               /\ route'[u].call # 0 => route'[u].counted
    <3>1. CASE u = t /\ ~route[t].executed
      BY <1>1, <1>3, <2>2, <3>1
    <3>2. CASE u # t \/ route[t].executed
      <4>1. route'[u] = route[u]
        BY <1>1, <2>2, <3>2, LiveFields
      <4> QED  BY <2>2, <4>1 DEF RouteInv
    <3> QED  BY <3>1, <3>2
  <2> QED  BY <1>1, <2>1, <2>2 DEF RouteInv
<1>7. \A e \in Drivers \ {d} : ~Busy(e)
  BY <1>1, OnlyBusy DEF Busy, Writes
<1>8. WorkInv'
  BY <1>0, <1>1, <1>2, <1>4, <1>7, NoWorkFields, NoWorkOK, WorkStep DEF WorkBecomes
<1>9. InsuranceTypeOK'
  BY <1>1 DEF InsuranceTypeOK, RouteRecord, WorkBecomes
<1> QED  BY <1>5, <1>6, <1>8, <1>9

(***************************************************************************)
(* Before the job has decided, and every step after.                        *)
(***************************************************************************)
LEMMA InsuranceSteps ==
  ASSUME [InsuranceNext]_insuranceVars
  PROVE  \/ Refuse \/ Execute \/ Lapse \/ Die \/ UNCHANGED insuranceVars
         \/ \E d \in Drivers : \/ Arrive(d) \/ Control(d) \/ Fail(d)
                               \/ Answers(d) \/ Write(d) \/ Register(d) \/ Mark(d)
BY DEF InsuranceNext, Adapt, Answers

\* No approval was asked for yet.
LEMMA NothingAsked ==
  ASSUME Known, NEW t \in Tasks, task[t].status = "pending", NEW n \in Attempt
  PROVE  approval[t][n] = "none"
<1>1. task[t].attempts = 0 /\ (approval[t][n] # "none" => n <= task[t].attempts)
  BY DEF Known, TaskInv
<1>2. n \in Nat /\ n # 0
  BY NaturalLimits DEF Attempt
<1> QED  BY <1>1, <1>2

Undecided == job.status \in {"new", "refused"}

LEMMA FreshIsIdle ==
  ASSUME IInv, Base, FreshInv, Undecided
  PROVE  /\ \A d \in Drivers : driver[d].pc = "new" /\ work[d].at = "none"
         /\ ~Die /\ Free
         /\ \A d \in Drivers : ~(Arrive(d) \/ Control(d) \/ Fail(d) \/ Answers(d) \/ Write(d) \/ Register(d) \/ Mark(d))
<1>0. Known /\ TypeOK /\ InsuranceTypeOK /\ WorkInv
  BY DEF IInv, Known, Base
<1>1. \A d \in Drivers : driver[d].pc = "new" /\ work[d].at = "none"
  BY <1>0, AtWork DEF FreshInv, Undecided
<1>2. \A t \in Tasks, n \in Attempt : approval[t][n] = "none"
  BY <1>0, NothingAsked, Plan DEF FreshInv, Undecided
<1>3. ~Die
  <2>1. ~Crash
    BY <1>1 DEF Crash, Active, Sync
  <2>2. ASSUME NEW d \in Drivers, TornControl(d) PROVE FALSE
    <3>1. driver[d].pc = "new" /\ work[d].at = "none"
      BY <1>1
    <3>2. \A t : ~TornClaim(d, t) /\ ~TornAsk(d, t) /\ ~TornClose(d, t) /\ ~TornFailure(d, t)
      BY <3>1 DEF TornClaim, TornAsk, TornClose, TornFailure, AtTask, Resumed
    <3>3. \A t \in Tasks, n \in Attempt, decision \in Decision : ~TornResolve(d, t, n, decision)
      BY <1>2 DEF TornResolve, Resolvable
    <3> QED  BY <2>2, <3>2, <3>3 DEF TornControl, Decision
  <2> QED  BY <2>1, <2>2 DEF Die
<1>4. ASSUME NEW d \in Drivers
      PROVE  ~(Arrive(d) \/ Control(d) \/ Fail(d) \/ Answers(d) \/ Write(d) \/ Register(d) \/ Mark(d))
  <2>1. ~Arrive(d)
    BY DEF Arrive, Undecided
  <2>2. ~Control(d)
    BY <1>0, <1>1, ControlBusy DEF Sync
  <2>3. ~(Fail(d) \/ Write(d) \/ Register(d) \/ Mark(d))
    BY <1>1 DEF Fail, Write, Register, Mark
  <2>4. ~Answers(d)
    BY <1>1 DEF Answers, LiveAnswers, GatewayFails, AnswersInvalid, Await
  <2> QED  BY <2>1, <2>2, <2>3, <2>4
<1> QED  BY <1>1, <1>3, <1>4 DEF Free

\* The requests a run starts with is the end of routing.
LEMMA LeftOfRequest ==
  ASSUME request \in RoutingRequest,
         request' = [request EXCEPT !.unavailable = {}, !.healthy = {}, !.latency = <<>>]
  PROVE  request' \in RoutingRequest
<1>1. <<>> \in UNION {[S -> Measured] : S \in SUBSET {QWEN}}
  <2>1. {} \in SUBSET {QWEN} /\ <<>> \in [{} -> Measured]
    OBVIOUS
  <2> QED  BY <2>1
<1>2. {} \in SUBSET Declarable /\ {} \in SUBSET Live
  OBVIOUS
<1> DEFINE L == UNION {[S -> Measured] : S \in SUBSET {QWEN}}
<1> HIDE DEF L
<1>3. RoutingRequest = [unavailable : SUBSET Declarable, healthy : SUBSET Live, latency : L, restricted : {TRUE}, cloud : {FALSE}]
  BY DEF RoutingRequest, L
<1>4. <<>> \in L
  BY <1>1 DEF L
<1> QED  BY <1>2, <1>3, <1>4

LEMMA BaseExecute ==
  ASSUME IInv, Base, FreshInv, TypeOK', Execute
  PROVE  /\ Base' /\ Request(Job) /\ crashes' = 0 /\ UNCHANGED <<files, work, calls, crashes>>
         /\ job'.status = "running" /\ job'.told = job.told /\ OutKept
<1> USE DEF Base
<1>0. TypeOK
  BY DEF IInv
<1>1. /\ job.status = "new" /\ ~\E t \in TaskKeys : NotExecutable(t)
      /\ job' = [job EXCEPT !.status = "running"] /\ Request(Job) /\ live' = LiveRoutes
      /\ request' = [request EXCEPT !.unavailable = {}, !.healthy = {}, !.latency = <<>>]
      /\ UNCHANGED <<files, work, calls>>
  BY DEF Execute
<1>2. Undecided /\ crashes = 0 /\ \A d \in Drivers : work[d].at = "none"
  BY <1>1, FreshIsIdle DEF Undecided, FreshInv
<1>3. OutKept /\ crashes' = crashes
  BY <1>0, <1>1, JobDrives, OutOfRequest DEF Request, Drive, ResolvePlan, Resolve
<1>4. job' \in JobRecord /\ job'.status = "running" /\ job'.told = job.told
  BY <1>1 DEF InsuranceTypeOK, JobRecord, JobStatus
<1>5. live' \subseteq {"engineering-plan", "risk-review"} /\ live' \subseteq TaskKeys
  BY <1>1 DEF LiveRoutes, NotExecutable
<1>6. InsuranceTypeOK'
  <2>1. request' \in RoutingRequest
    BY <1>1, LeftOfRequest DEF InsuranceTypeOK
  <2> QED  BY <1>1, <1>4, <1>5, <2>1 DEF InsuranceTypeOK, files, JobRecord, JobStatus
<1>7. StoreInv'
  BY <1>1, <1>3, Plan DEF StoreInv, files, OutKept
<1>8. RouteInv'
  <2>1. \A t \in TaskKeys : ~route'[t].executed
    BY <1>1, <1>2 DEF FreshInv, Undecided, files
  <2> QED  BY <1>5, <2>1 DEF RouteInv
<1>9. WorkInv'
  <2>1. \A d \in Drivers : work'[d].at = "none"
    BY <1>1, <1>2
  <2>2. \A d \in Drivers : WorkOK(work'[d], driver'[d].at, stored', listed', live')
    BY <2>1, NoWorkOK
  <2>3. \A d \in Drivers \ {Job} : driver'[d].pc = "new"
    BY <1>0, <1>1, <1>2, JobDrives, OutOfRequest DEF OthersStay, FreshInv, Undecided
  <2>4. \A d, e \in Drivers : Busy(d)' /\ Busy(e)' => d = e
    BY <2>1, <2>3 DEF Busy, Writes, Sync
  <2> QED  BY <2>1, <2>2, <2>4 DEF WorkInv
<1> QED  BY <1>1, <1>2, <1>3, <1>4, <1>6, <1>7, <1>8, <1>9

LEMMA BaseStep ==
  ASSUME IInv, IInv', Base, FreshInv, [InsuranceNext]_insuranceVars
  PROVE  Base'
<1>0. TypeOK /\ TypeOK' /\ InsuranceTypeOK /\ job \in JobRecord
  BY DEF IInv, Base, InsuranceTypeOK, JobRecord, JobStatus
<1>1. ASSUME UNCHANGED <<vars, live, files, work>>, request' \in RoutingRequest, calls' = calls, job' \in JobRecord
      PROVE  Base'
  <2>1. UNCHANGED <<stored, listed, route, task, driver>>
    BY <1>1 DEF vars, files
  <2> QED  BY <1>1, <2>1 DEF Base, InsuranceTypeOK, StoreInv, WorkInv, RouteInv, Busy, JobRecord, JobStatus
<1>2. CASE Refuse \/ UNCHANGED insuranceVars
  <2>1. job' \in JobRecord /\ UNCHANGED <<vars, request, live, files, work, calls>>
    BY <1>0, <1>2 DEF Refuse, insuranceVars, files, JobRecord, JobStatus
  <2> QED  BY <1>0, <1>1, <2>1 DEF InsuranceTypeOK
<1>3. CASE Execute
  BY <1>0, <1>3, BaseExecute
<1>4. CASE Lapse
  <2>1. UNCHANGED <<task, driver, live, files, stored, listed, route, work, request, calls, job>>
    BY <1>4 DEF Lapse, Expire, files
  <2> QED  BY <2>1 DEF Base, InsuranceTypeOK, StoreInv, WorkInv, RouteInv, Busy
<1>5. CASE Die
  BY <1>0, <1>5, BaseDie
<1>6. ASSUME NEW d \in Drivers, Arrive(d) PROVE Base'
  BY <1>0, <1>6, BaseRequest DEF Arrive, InsuranceTypeOK
<1>7. ASSUME NEW d \in Drivers, Control(d) \/ Fail(d) \/ Answers(d) \/ Write(d) \/ Register(d) \/ Mark(d)
      PROVE  Base'
  BY <1>0, <1>7, BaseControl, BaseFail, BaseAnswer, BaseWrite, BaseRegister, BaseMark
<1> QED  BY <1>2, <1>3, <1>4, <1>5, <1>6, <1>7, InsuranceSteps

\* Nothing goes back to before the decision.
LEMMA FreshStep ==
  ASSUME IInv, Base, FreshInv, [InsuranceNext]_insuranceVars
  PROVE  FreshInv'
<1>0. job \in JobRecord /\ TypeOK /\ InsuranceTypeOK
  BY DEF IInv, Base, InsuranceTypeOK, JobRecord, JobStatus
<1>1. CASE Undecided
  <2>1. Refuse \/ Execute \/ Lapse \/ UNCHANGED insuranceVars
    BY <1>1, FreshIsIdle, InsuranceSteps
  <2>2. CASE Refuse \/ UNCHANGED insuranceVars
    BY <1>1, <2>2 DEF Refuse, insuranceVars, vars, files, FreshInv, Undecided
  <2>3. CASE Execute
    <3>1. job'.status = "running"
      BY <1>0, <2>3 DEF Execute, JobRecord, JobStatus
    <3> QED  BY <3>1 DEF FreshInv
  <2>4. CASE Lapse
    BY <1>1, <2>4 DEF Lapse, Expire, files, FreshInv, Undecided
  <2> QED  BY <2>1, <2>2, <2>3, <2>4
<1>2. CASE ~Undecided
  <2> SUFFICES job'.status \notin {"new", "refused"}
    BY DEF FreshInv
  <2>1. ASSUME job' = job PROVE job'.status \notin {"new", "refused"}
    BY <1>2, <2>1 DEF Undecided
  <2>2. ASSUME NEW d \in Drivers, JobGoesOn(d) PROVE job'.status \notin {"new", "refused"}
    <3>1. job' = job \/ job'.status \in {"completed", "failed"}
      BY <2>2 DEF JobGoesOn
    <3> QED  BY <2>1, <3>1
  <2>3. CASE Refuse \/ Execute
    BY <1>2, <2>3 DEF Undecided, Refuse, Execute
  <2>4. CASE Lapse \/ UNCHANGED insuranceVars
    BY <2>1, <2>4 DEF Lapse, insuranceVars
  <2>5. CASE Die
    BY <1>0, <1>2, <2>5 DEF Die, Undecided, JobRecord
  <2>6. ASSUME NEW d \in Drivers, Arrive(d) \/ Answers(d) \/ Write(d) \/ Register(d) \/ Mark(d)
        PROVE  job' = job
    BY <2>6 DEF Arrive, Answers, LiveAnswers, GatewayFails, AnswersInvalid, Write, Register, Mark
  <2>7. ASSUME NEW d \in Drivers, Control(d) \/ Fail(d) PROVE JobGoesOn(d)
    BY <2>7 DEF Control, Fail
  <2> QED  BY <2>1, <2>2, <2>3, <2>4, <2>5, <2>6, <2>7, InsuranceSteps
<1> QED  BY <1>1, <1>2

LEMMA InitBase == InsuranceInit => IInv /\ Base /\ FreshInv
<1> SUFFICES ASSUME InsuranceInit PROVE IInv /\ Base /\ FreshInv
  OBVIOUS
<1>1. IInv /\ TypeOK
  BY InitIInv DEF InsuranceInit, IInv
<1>2. /\ request \in RoutingRequest /\ live = {} /\ stored = [s \in Slots |-> None] /\ listed = {}
      /\ route = [t \in TaskKeys |-> NewRoute] /\ work = [d \in Drivers |-> NoWork]
      /\ calls = 0 /\ job = NewJob /\ Init /\ run = "queued"
  BY DEF InsuranceInit
<1>3. InsuranceTypeOK
  <2>1. NewRoute \in [executed : BOOLEAN, call : Call, counted : BOOLEAN]
    BY Numbers DEF NewRoute
  <2>2. job \in [status : {"new", "refused", "running", "completed", "failed", "gone"}, told : BOOLEAN]
    BY <1>2 DEF NewJob
  <2> QED  BY <1>2, <2>1, <2>2, Numbers, NoWorkFields DEF InsuranceTypeOK
<1>4. task = New({}) /\ crashes = 0 /\ driver = [d \in Drivers |-> Idle("new")]
  BY <1>2 DEF Init
<1>5. \A t \in Tasks : ~task[t].out /\ task[t].status = "pending"
  BY <1>4 DEF New
<1>6. \A d \in Drivers : driver[d].pc = "new" /\ work[d].at = "none"
  <2>1. Idle("new").pc = "new"
    BY IdleFields DEF PC
  <2> QED  BY <1>2, <1>4, <2>1, NoWorkFields
<1>7. StoreInv
  BY <1>2, <1>5, Plan DEF StoreInv
<1>8. WorkInv
  BY <1>6, NoWorkOK DEF WorkInv, Busy, Writes, Sync
<1>9. \A t \in TaskKeys : ~route[t].executed
  BY <1>2 DEF NewRoute
<1>10. RouteInv
  BY <1>2, <1>9 DEF RouteInv
<1>11. FreshInv
  BY <1>2, <1>4, <1>5, <1>6, <1>9, Plan DEF FreshInv
<1> QED  BY <1>1, <1>3, <1>7, <1>8, <1>10, <1>11 DEF Base

LEMMA BaseAlways == InsuranceSpec => [](IInv /\ Base /\ FreshInv)
<1>1. IInv /\ Base /\ FreshInv /\ [InsuranceNext]_insuranceVars => IInv' /\ Base' /\ FreshInv'
  <2> SUFFICES ASSUME IInv, Base, FreshInv, [InsuranceNext]_insuranceVars PROVE IInv' /\ Base' /\ FreshInv'
    OBVIOUS
  <2>1. [Next]_vars
    BY ControllerSteps DEF IInv
  <2>2. IInv'
    BY <2>1, NextIInv
  <2> QED  BY <2>2, BaseStep, FreshStep
<1> QED  BY <1>1, InitBase, PTL DEF InsuranceSpec

\* Type correctness of the workflow and of what it stores.
THEOREM InsuranceTypeOKAlways == InsuranceSpec => []InsuranceTypeOK
<1>1. Base => InsuranceTypeOK
  BY DEF Base
<1> QED  BY <1>1, BaseAlways, PTL

\* Whoever answered when, what a task read is what its inputs still are, and
\* the final report keeps the mode the governance allows: no answer of a
\* model, no overlap of requests and no crash can change that.
THEOREM LineageHoldsAlways == InsuranceSpec => []LineageHolds
<1>1. Base => LineageHolds
  <2> SUFFICES ASSUME Base PROVE LineageHolds
    OBVIOUS
  <2>1. \A s \in listed : s \in Slots /\ Sound(s, stored[s], stored, listed)
    BY DEF Base, StoreInv, InsuranceTypeOK
  <2>2. "verification-report" \in SlotsOf("verification")
    BY OutputFields
  <2> QED  BY <2>1, <2>2 DEF LineageHolds, Sound
<1> QED  BY <1>1, BaseAlways, PTL

(***************************************************************************)
(* A bundle that is whole has its route marked, and what a completed job    *)
(* says of the live calls is true.                                          *)
(***************************************************************************)
Steady == IInv /\ Base /\ FreshInv /\ MarkInv /\ AskedInv /\ JobInv

\* A marking that is under way goes on, unless its driver moves.
LEMMA MarkingStays ==
  ASSUME NEW d \in Drivers, OthersStay(d), \A e \in Drivers \ {d} : work'[e] = work[e],
         work[d].at # "mark"
  PROVE  \A t : Marking(t) => Marking(t)'
BY DEF Marking, OthersStay

LEMMA MarksKept ==
  ASSUME MarkInv, crashes' = crashes, route' = route, OutKept, \A t : Marking(t) => Marking(t)'
  PROVE  MarkInv'
<1>1. \A t \in TaskKeys : task'[t].out = task[t].out
  BY Plan DEF OutKept
<1> QED  BY <1>1 DEF MarkInv

LEMMA OneWorks ==
  ASSUME IInv, Base, NEW d \in Drivers, Control(d) \/ Fail(d)
  PROVE  /\ OthersStay(d) /\ (\A e \in Drivers \ {d} : work'[e] = work[e])
         /\ OutKept /\ UNCHANGED <<live, stored, listed, route, crashes>> /\ JobGoesOn(d)
         /\ work[d].at # "mark" /\ Active(d) /\ \A e \in Drivers \ {d} : ~Busy(e)
<1>0. Known /\ TypeOK /\ InsuranceTypeOK /\ WorkInv
  BY DEF IInv, Known, Base
<1>1. OthersStay(d)
  BY <1>0, ControlSteps, StepOfDriver DEF StepOK
<1>2. CASE Control(d)
  <2>1. Turn(d) /\ (\A e \in Drivers \ {d} : ~Busy(e)) /\ work[d].at = "none" /\ driver[d].pc \in Sync
    BY <1>0, <1>2, ControlBusy
  <2>2. OutKept /\ crashes' = crashes
    BY <1>0, <2>1, OutOfTurn DEF Turn, Enter, Recover, Blocked, Activate, Ready, CompleteClaimed, Settle
  <2>3. \A e \in Drivers \ {d} : work'[e] = work[e]
    <3> DEFINE r == Started(driver'[d].at, task'[driver'[d].at].attempts)
    <3>1. work' = work \/ work' = [work EXCEPT ![d] = r]
      BY <1>2 DEF Control
    <3> HIDE DEF r
    <3> QED  BY <1>0, <3>1 DEF InsuranceTypeOK
  <2> QED  BY <1>1, <1>2, <2>1, <2>2, <2>3 DEF Control, files, Active
<1>3. CASE Fail(d)
  <2>1. CallFails(d, NoContent) /\ JobGoesOn(d) /\ work[d].at = "fail" /\ UNCHANGED <<live, files>>
    BY <1>3 DEF Fail
  <2>2. OutKept /\ crashes' = crashes /\ driver[d].pc = "call"
    BY <1>0, <2>1, OutOfFail DEF CallFails, Resumed
  <2>3. \A e \in Drivers \ {d} : work'[e] = work[e]
    BY <1>3 DEF Fail, InsuranceTypeOK
  <2>4. \A e \in Drivers \ {d} : ~Busy(e)
    BY <1>0, <2>1, OnlyBusy DEF Busy, Writes
  <2> QED  BY <1>1, <2>1, <2>2, <2>3, <2>4 DEF files, Active
<1> QED  BY <1>2, <1>3

LEMMA MarkInvStep ==
  ASSUME IInv, IInv', Base, FreshInv, MarkInv, [InsuranceNext]_insuranceVars
  PROVE  MarkInv'
<1>0. TypeOK /\ InsuranceTypeOK /\ TypeOK' /\ TaskInv
  BY DEF IInv, Base
<1>1. ASSUME UNCHANGED <<task, driver, crashes, work, route>> PROVE MarkInv'
  BY <1>1 DEF MarkInv, Marking
<1>2. CASE Refuse \/ Lapse \/ UNCHANGED insuranceVars
  <2>1. UNCHANGED <<task, driver, crashes, work, route>>
    BY <1>2 DEF Refuse, Lapse, Expire, insuranceVars, vars, files
  <2> QED  BY <1>1, <2>1
<1>3. CASE Execute
  <2>1. \A t \in TaskKeys : ~task'[t].out
    <3>1. \A t \in TaskKeys : task'[t].out = task[t].out
      BY <1>0, <1>3, BaseExecute, Plan DEF OutKept
    <3>2. \A t \in TaskKeys : task[t].out => route[t].executed
      <4>1. Undecided
        BY <1>3 DEF Execute, Undecided
      <4>2. crashes = 0 /\ \A t : ~Marking(t)
        BY <4>1, FreshIsIdle DEF Marking, FreshInv, Undecided
      <4> QED  BY <4>2 DEF MarkInv
    <3>3. \A t \in TaskKeys : ~route[t].executed
      BY <1>3 DEF Execute, FreshInv
    <3> QED  BY <3>1, <3>2, <3>3
  <2> QED  BY <2>1 DEF MarkInv
<1>4. CASE Die
  <2>1. crashes' # 0
    BY <1>0, <1>4, OutOfDie, CrashFields
  <2> QED  BY <2>1 DEF MarkInv
<1>5. ASSUME NEW d \in Drivers, Arrive(d) PROVE MarkInv'
  <2>1. /\ Request(d) /\ UNCHANGED <<files, work>> /\ OutKept /\ driver[d].pc = "new" /\ OthersStay(d)
        /\ crashes' = crashes
    BY <1>0, <1>5, OutOfRequest DEF Arrive, Request, Drive, ResolvePlan, Resolve
  <2>2. work[d].at # "mark"
    BY <2>1 DEF Base, WorkInv
  <2> QED  BY <2>1, <2>2, MarkingStays, MarksKept DEF files
<1>6. ASSUME NEW d \in Drivers, Control(d) \/ Fail(d) PROVE MarkInv'
  BY <1>6, OneWorks, MarkingStays, MarksKept
<1>7. ASSUME NEW d \in Drivers, Answers(d) PROVE MarkInv'
  BY <1>7, AnswerStep, VarsStay, MarkingStays, MarksKept DEF files
<1>8. ASSUME NEW d \in Drivers, Write(d) PROVE MarkInv'
  BY <1>8, WriteStep, VarsStay, MarkingStays, MarksKept
<1>9. ASSUME NEW d \in Drivers, Register(d) PROVE MarkInv'
  <2>1. /\ route' = route /\ work[d].at = "register" /\ \A e \in Drivers \ {d} : work'[e] = work[e]
    BY <1>9, RegisterStep
  <2>2. CASE LastOutput(d)
    <3>0. PICK t \in Tasks : t = driver[d].at
      BY <1>0, DriverFields
    <3>1. CallSucceeds(d, "bundle") /\ work'[d].at = "mark"
      BY <1>9, <2>2, RegisterStep
    <3>2. /\ OthersStay(d) /\ driver'[d].at = t /\ crashes' = crashes
          /\ \A u \in Tasks \ {t} : task'[u] = task[u]
      BY <1>0, <3>0, <3>1, SucceedFields
    <3>3. \A u : Marking(u) => Marking(u)'
      BY <2>1, <3>2, MarkingStays
    <3>4. Marking(t)'
      BY <3>1, <3>2 DEF Marking
    <3> QED  BY <2>1, <3>2, <3>3, <3>4, Plan DEF MarkInv
  <2>3. CASE ~LastOutput(d)
    BY <1>9, <2>1, <2>3, RegisterStep, VarsStay, MarkingStays, MarksKept
  <2> QED  BY <2>2, <2>3
<1>10. ASSUME NEW d \in Drivers, Mark(d) PROVE MarkInv'
  <2>0. PICK t \in Tasks : t = driver[d].at
    BY <1>0, DriverFields
  <2>1. /\ UNCHANGED vars /\ WorkBecomes(d, NoWork) /\ route'[t].executed
        /\ \A u \in TaskKeys \ {t} : route'[u] = route[u]
    BY <1>10, <2>0, MarkStep
  <2>2. UNCHANGED <<task, driver, crashes>>
    BY <2>1, VarsStay
  <2>3. ASSUME NEW u \in TaskKeys \ {t}, Marking(u) PROVE Marking(u)'
    BY <2>0, <2>1, <2>2, <2>3 DEF Marking, WorkBecomes
  <2> QED  BY <2>1, <2>2, <2>3 DEF MarkInv
<1> QED  BY <1>2, <1>3, <1>4, <1>5, <1>6, <1>7, <1>8, <1>9, <1>10, InsuranceSteps

\* Only what the policy wants approved is put to the Founder.
LEMMA AskedStep ==
  ASSUME Known, AskedInv, [Next]_vars
  PROVE  AskedInv'
<1> USE DEF Known
<1>1. ASSUME approval' = approval PROVE AskedInv'
  BY <1>1 DEF AskedInv
<1>2. ASSUME NEW t \in Tasks, NEW n \in Attempt, NEW s, approval' = [approval EXCEPT ![t][n] = s],
             Policy[t] = "approve" \/ approval[t][n] # "none"
      PROVE  AskedInv'
  <2>1. \A u \in Tasks, m \in Attempt : u # t \/ m # n => approval'[u][m] = approval[u][m]
    BY <1>2 DEF TypeOK
  <2>2. Policy[t] = "approve"
    BY <1>2, Plan DEF AskedInv
  <2> QED  BY <2>1, <2>2, Plan DEF AskedInv
<1>3. ASSUME NEW t \in Tasks, NEW d, NeedsApproval(d, t), CanClaim(t),
             approval' = approval \/ approval' = [approval EXCEPT ![t][task[t].attempts + 1] = "pending"]
      PROVE  AskedInv'
  <2>1. task[t].attempts + 1 \in Attempt
    BY <1>3, TaskFields, NaturalLimits DEF CanClaim, Attempt
  <2>2. Policy[t] = "approve"
    BY <1>3 DEF NeedsApproval
  <2> QED  BY <1>1, <1>2, <1>3, <2>1, <2>2
<1>4. ASSUME NEW d \in Drivers, Ready(d) PROVE AskedInv'
  <2> DEFINE t == First(driver[d].todo)
  <2>1. CASE driver[d].todo = {}
    BY <1>1, <1>4, <2>1 DEF Ready
  <2>2. CASE driver[d].todo # {}
    <3>1. t \in Tasks
      BY <2>2, FirstIn, DriverFields
    <3>2. \/ Deny(d, t) \/ AskApproval(d, t) \/ AskAgain(d, t) \/ AskRefused(d, t)
          \/ ClaimAndDispatch(d, t) \/ ClaimRefused(d, t)
      BY <1>4, <2>2 DEF Ready
    <3> HIDE DEF t
    <3>3. CASE AskApproval(d, t)
      <4>1. /\ NeedsApproval(d, t) /\ CanClaim(t)
            /\ approval' = [approval EXCEPT ![t][task[t].attempts + 1] = "pending"]
        BY <3>3 DEF AskApproval
      <4> QED  BY <1>3, <3>1, <4>1
    <3> QED  BY <1>1, <3>2, <3>3 DEF Deny, AskAgain, AskRefused, ClaimAndDispatch, ClaimRefused
  <2> QED  BY <2>1, <2>2
<1>5. ASSUME NEW d \in Drivers, Step(d), ~Ready(d) PROVE approval' = approval
  BY <1>5 DEF Step, Enter, Recover, Blocked, Activate, CallSucceeds, CallFails, CompleteClaimed, Settle
<1>6. ASSUME NEW d, NEW t \in Tasks, NEW n \in Attempt, NEW decision,
             Resolve(d, t, n, decision) \/ TornResolve(d, t, n, decision)
      PROVE  AskedInv'
  <2>1. approval' = [approval EXCEPT ![t][n] = decision] /\ approval[t][n] # "none"
    BY <1>6 DEF Resolve, TornResolve, Resolvable
  <2> QED  BY <1>2, <2>1
<1>7. ASSUME NEW d \in Drivers, Request(d) PROVE AskedInv'
  BY <1>1, <1>6, <1>7 DEF Request, Drive, ResolvePlan
<1>8. ASSUME NEW d \in Drivers, Torn(d) PROVE AskedInv'
  <2>1. ASSUME NEW t \in Tasks, TornAsk(d, t) PROVE AskedInv'
    BY <1>3, <2>1 DEF TornAsk
  <2>2. ASSUME NEW t \in Tasks, TornClaim(d, t) \/ TornFailure(d, t) \/ TornClose(d, t) PROVE approval' = approval
    BY <2>2 DEF TornClaim, TornFailure, TornClose
  <2>3. ASSUME NEW x, TornResolvePlan(d, x) \/ TornWrite(d, x) PROVE approval' = approval
    BY <2>3 DEF TornResolvePlan, TornWrite
  <2> QED  BY <1>1, <1>6, <1>8, <2>1, <2>2, <2>3 DEF Torn
<1>9. ASSUME Crash \/ UNCHANGED vars \/ \E t \in Tasks, n \in Attempt : Expire(t, n) PROVE approval' = approval
  BY <1>9 DEF Crash, vars, Expire
<1> QED  BY <1>1, <1>4, <1>5, <1>7, <1>8, <1>9 DEF Next

\* A job that ends with the release put to the Founder has every live task
\* done and marked.
LEMMA JobEnds ==
  ASSUME Steady, NEW d \in Drivers, Control(d) \/ Fail(d), d = Job, JobGoesOn(d),
         job'.status = "completed", ~job'.told, job' # job
  PROVE  \A t \in live : stored[t] # None /\ stored[t].maker = 0
<1>0. TypeOK /\ TaskInv /\ Base /\ AskedInv /\ MarkInv /\ JobInv
  BY DEF Steady, IInv
<1>1. crashes = 0
  BY <1>0, OneWorks DEF Steady, JobInv
<1>2. PICK p \in Pending : TRUE
  BY DEF JobGoesOn
<1>3. ~\E t \in TaskKeys : route[t].counted
  BY DEF JobGoesOn
<1>4. p[1] \in TaskKeys /\ p[2] \in Attempt /\ approval[p[1]][p[2]] = "pending"
  BY <1>2, Plan DEF Pending
<1>5. p[1] = Release
  BY <1>0, <1>4, Policies DEF AskedInv
<1>6. task[Release].status # "pending"
  <2> SUFFICES ASSUME task[Release].status = "pending" PROVE FALSE
    OBVIOUS
  <2>1. Known
    BY DEF Steady, IInv, Known
  <2> QED  BY <1>4, <1>5, <2>1, NothingAsked, Plan
<1>7. \A t \in live : t \in TaskKeys /\ t # Release /\ t # "private-upload-policy"
  BY <1>0 DEF Base, RouteInv, InsuranceTypeOK, Release
<1>8. \A t \in live : task[t].status = "completed" /\ task[t].out
  BY <1>0, <1>6, <1>7, ReleaseIsLast, Plan DEF TaskInv
<1>9. \A t : ~Marking(t)
  BY OneWorks DEF Marking, Busy, Writes, Steady
<1> QED  BY <1>0, <1>1, <1>3, <1>7, <1>8, <1>9 DEF MarkInv, Base, RouteInv

\* What is stored stays.
LEMMA StoredStays ==
  ASSUME IInv, Base, [InsuranceNext]_insuranceVars, ~Execute
  PROVE  live' = live /\ \A s \in Slots : stored[s] # None => stored'[s] = stored[s]
<1>1. CASE stored' = stored /\ live' = live
  BY <1>1
<1>2. ASSUME NEW d \in Drivers, Write(d)
      PROVE  live' = live /\ \A s \in Slots : stored[s] # None => stored'[s] = stored[s]
  <2>1. /\ live' = live
        /\ \/ stored' = stored
           \/ Agrees(d) /\ stored' = [stored EXCEPT ![Head(work[d].todo)] = work[d].say]
    BY <1>2, WriteStep
  <2> QED  BY <2>1 DEF Agrees, Base, InsuranceTypeOK
<1>3. ASSUME NEW d \in Drivers, Arrive(d) \/ Control(d) \/ Fail(d) \/ Answers(d) \/ Register(d) \/ Mark(d)
      PROVE  stored' = stored /\ live' = live
  BY <1>3 DEF Arrive, Control, Fail, Answers, LiveAnswers, GatewayFails, AnswersInvalid, Register, Mark, files
<1>4. ASSUME Refuse \/ Lapse \/ Die \/ UNCHANGED insuranceVars PROVE stored' = stored /\ live' = live
  BY <1>4 DEF Refuse, Lapse, Die, insuranceVars, files
<1> QED  BY <1>1, <1>2, <1>3, <1>4, InsuranceSteps

LEMMA JobStep ==
  ASSUME Steady, TypeOK', FreshInv', [InsuranceNext]_insuranceVars
  PROVE  JobInv'
<1>0. TypeOK /\ TypeOK' /\ IInv /\ Base /\ FreshInv /\ JobInv /\ InsuranceTypeOK
  BY DEF Steady, IInv, Base
<1> DEFINE JobOK == /\ job.status = "running" => crashes = 0
                    /\ Active(Job) => job.status = "running"
<1> DEFINE Told == job.status = "completed" /\ ~job.told =>
                     \A t \in live : stored[t] # None /\ stored[t].maker = 0
<1>1. ASSUME UNCHANGED <<job, crashes>>, driver'[Job] = driver[Job] PROVE JobOK'
  BY <1>0, <1>1 DEF JobInv, Active
<1>2. ASSUME job' = job, ~Execute PROVE Told'
  <2>1. live' = live /\ \A s \in Slots : stored[s] # None => stored'[s] = stored[s]
    BY <1>0, <1>2, StoredStays
  <2>2. live \subseteq Slots
    BY <1>0, LiveFields DEF Base
  <2> QED  BY <1>0, <1>2, <2>1, <2>2 DEF JobInv
<1>3. JobOK /\ Told
  BY <1>0 DEF JobInv
<1> SUFFICES JobOK' /\ Told'
  BY <1>0 DEF JobInv
<1>4. ASSUME job'.status \in {"refused", "running", "failed", "gone"} PROVE Told'
  BY <1>4
<1>5. CASE Refuse
  <2>1. UNCHANGED vars /\ job'.status = "refused" /\ job.status = "new"
    BY <1>0, <1>5 DEF Refuse, InsuranceTypeOK
  <2>2. ~Active(Job) /\ driver' = driver
    BY <1>3, <2>1, VarsStay
  <2> QED  BY <1>4, <2>1, <2>2 DEF Active
<1>6. CASE Execute
  <2>1. crashes' = 0 /\ job'.status = "running"
    BY <1>0, <1>6, BaseExecute
  <2> QED  BY <1>4, <2>1
<1>7. CASE Lapse \/ UNCHANGED insuranceVars
  <2>1. UNCHANGED <<job, crashes, driver, live, stored>>
    BY <1>7 DEF Lapse, Expire, insuranceVars, vars, files
  <2> QED  BY <1>1, <1>3, <2>1
<1>8. CASE Die
  <2>1. job'.status # "running"
    BY <1>0, <1>8 DEF Die, InsuranceTypeOK
  <2>2. ~Active(Job)'
    BY <1>0, <1>8, OutOfDie, CrashFields, JobDrives DEF Active, Sync, Ended
  <2>3. job' = job \/ job'.status = "gone"
    BY <1>0, <1>8 DEF Die, InsuranceTypeOK
  <2>4. ~Execute
    BY <1>0, <1>8, FreshIsIdle DEF Execute, Undecided
  <2> QED  BY <1>2, <1>4, <2>1, <2>2, <2>3, <2>4
<1>9. ASSUME NEW d \in Drivers, Arrive(d) PROVE JobOK' /\ Told'
  <2>1. Request(d) /\ d # Job /\ UNCHANGED <<job, files, live>>
    BY <1>9 DEF Arrive
  <2>2. OthersStay(d) /\ crashes' = crashes
    BY <1>0, <2>1, OutOfRequest DEF Request, Drive, ResolvePlan, Resolve
  <2>3. UNCHANGED <<stored, live>>
    BY <2>1 DEF files
  <2> QED  BY <1>1, <1>3, <2>1, <2>2, <2>3, JobDrives DEF OthersStay
<1>10. ASSUME NEW d \in Drivers, Control(d) \/ Fail(d) PROVE JobOK' /\ Told'
  <2>1. /\ OthersStay(d) /\ UNCHANGED <<live, stored, crashes>> /\ JobGoesOn(d) /\ Active(d)
    BY <1>0, <1>10, OneWorks
  <2>2. Told'
    <3> SUFFICES ASSUME job' # job, job'.status = "completed", ~job'.told
                 PROVE  \A t \in live : stored[t] # None /\ stored[t].maker = 0
      BY <1>3, <2>1
    <3>1. d = Job
      BY <2>1 DEF JobGoesOn
    <3> QED  BY <1>10, <2>1, <3>1, JobEnds
  <2>3. CASE job' = job /\ (d # Job \/ driver'[Job].pc \notin Ended)
    <3>1. d # Job => driver'[Job] = driver[Job]
      BY <2>1, JobDrives DEF OthersStay
    <3>2. d = Job => job.status = "running" /\ crashes = 0
      BY <1>3, <2>1
    <3> QED  BY <1>1, <2>1, <2>2, <2>3, <3>1, <3>2
  <2>4. CASE d = Job /\ driver'[Job].pc \in Ended
    <3>1. job'.status \in {"completed", "failed"}
      BY <2>1, <2>4 DEF JobGoesOn
    <3>2. ~Active(Job)'
      BY <2>4 DEF Active, Ended, Sync
    <3> QED  BY <2>2, <3>1, <3>2
  <2> QED  BY <2>1, <2>3, <2>4 DEF JobGoesOn
<1>11. ASSUME NEW d \in Drivers, Answers(d) \/ Write(d) \/ Register(d) \/ Mark(d) PROVE JobOK' /\ Told'
  <2>1. job' = job /\ ~Execute
    <3>1. job' = job
      BY <1>11 DEF Answers, LiveAnswers, GatewayFails, AnswersInvalid, Write, Register, Mark
    <3>2. ~Undecided
      BY <1>0, <1>11, FreshIsIdle
    <3> QED  BY <3>1, <3>2 DEF Execute, Undecided
  <2>2. crashes' = crashes /\ OthersStay(d) /\ (driver'[d] = driver[d] \/ driver[d].pc = "call")
    <3>1. CASE UNCHANGED vars
      BY <3>1, VarsStay
    <3>2. CASE CallSucceeds(d, "bundle")
      BY <1>0, <3>2, SucceedFields DEF Resumed
    <3>3. UNCHANGED vars \/ CallSucceeds(d, "bundle")
      BY <1>0, <1>11, AnswerStep, WriteStep, RegisterStep, MarkStep
    <3> QED  BY <3>1, <3>2, <3>3
  <2>3. driver'[Job] = driver[Job] \/ (d = Job /\ Active(Job))
    BY <2>2, JobDrives DEF OthersStay, Active
  <2> QED  BY <1>1, <1>2, <1>3, <2>1, <2>2, <2>3
<1> QED  BY <1>5, <1>6, <1>7, <1>8, <1>9, <1>10, <1>11, InsuranceSteps

(***************************************************************************)
(* LiveIsDisclosed.                                                         *)
(***************************************************************************)
LEMMA SteadyAlways == InsuranceSpec => []Steady
<1>1. InsuranceInit => Steady
  <2> SUFFICES ASSUME InsuranceInit PROVE Steady
    OBVIOUS
  <2>1. IInv /\ Base /\ FreshInv
    BY InitBase
  <2>2. /\ job = NewJob /\ Init
    BY DEF InsuranceInit
  <2>3. /\ approval = [t \in Tasks |-> [n \in Attempt |-> "none"]] /\ driver = [d \in Drivers |-> Idle("new")]
    BY <2>2 DEF Init
  <2>4. driver[Job].pc = "new" /\ job.status = "new"
    BY <2>2, <2>3, JobDrives, IdleFields DEF PC, NewJob
  <2>5. JobInv
    BY <2>1, <2>4 DEF JobInv, Active, Sync
  <2>6. AskedInv
    BY <2>3, Plan DEF AskedInv
  <2>7. \A t \in TaskKeys : ~task[t].out
    BY <2>2, Plan DEF Init, New
  <2> QED  BY <2>1, <2>5, <2>6, <2>7 DEF Steady, MarkInv
<1>2. Steady /\ [InsuranceNext]_insuranceVars => Steady'
  <2> SUFFICES ASSUME Steady, [InsuranceNext]_insuranceVars PROVE Steady'
    OBVIOUS
  <2>1. IInv /\ Base /\ FreshInv /\ MarkInv /\ AskedInv /\ Known
    BY DEF Steady, IInv, Known
  <2>2. [Next]_vars
    BY <2>1, ControllerSteps DEF IInv
  <2>3. IInv'
    BY <2>1, <2>2, NextIInv
  <2>4. Base' /\ FreshInv' /\ MarkInv' /\ AskedInv' /\ JobInv'
    BY <2>1, <2>2, <2>3, BaseStep, FreshStep, MarkInvStep, AskedStep, JobStep DEF IInv
  <2> QED  BY <2>3, <2>4 DEF Steady
<1> QED  BY <1>1, <1>2, PTL DEF InsuranceSpec

\* A route that says it was executed names the call that made the output, and
\* a job that completes without telling of live calls has shipped nothing they
\* made: whatever fails, is late or loses its claim, for every overlap of
\* requests and every crash.
THEOREM LiveIsDisclosedAlways == InsuranceSpec => []LiveIsDisclosed
<1>1. Steady => LiveIsDisclosed
  BY DEF Steady, JobInv, Base, RouteInv, LiveIsDisclosed
<1> QED  BY <1>1, SteadyAlways, PTL

(***************************************************************************)
(* A cycle in which nothing is done has nothing left to do.                 *)
(***************************************************************************)
LEMMA DispatchProgress ==
  ASSUME TypeOK, NEW d \in Drivers, NEW t, NEW n, NEW via, Dispatch(d, t, n, via)
  PROVE  driver'[d].progress = TRUE
<1> DEFINE r == [driver[d] EXCEPT !.pc = "call", !.at = t, !.via = via, !.todo = driver[d].todo \ {t},
                         !.view = [driver[d].view EXCEPT ![t] = [Blank EXCEPT !.claim = n]],
                         !.progress = TRUE]
<1>1. driver[d] \in DriverRecord
  BY DriverFields
<1>2. driver' = [driver EXCEPT ![d] = r]
  BY DEF Dispatch, TypeOK
<1>3. r.progress = TRUE
  BY <1>1 DEF DriverRecord
<1> QED  BY <1>2, <1>3 DEF TypeOK

LEMMA GotoProgress ==
  ASSUME TypeOK, NEW d \in Drivers, NEW q \in PC, NEW S \in SUBSET Tasks, Goto(d, q, S)
  PROVE  driver'[d].progress = driver[d].progress
<1> DEFINE r == [driver[d] EXCEPT !.pc = q, !.todo = S]
<1>1. driver[d] \in DriverRecord
  BY DriverFields
<1>2. driver' = [driver EXCEPT ![d] = r]
  BY DEF Goto, TypeOK
<1>3. r.progress = driver[d].progress
  BY <1>1 DEF DriverRecord
<1> QED  BY <1>2, <1>3 DEF TypeOK

LEMMA BackProgress ==
  ASSUME TypeOK, NEW d \in Drivers, driver' = [driver EXCEPT ![d] = Back(d)]
  PROVE  driver'[d].progress = driver[d].progress
<1>1. driver[d] \in DriverRecord
  BY DriverFields
<1>2. Back(d).progress = driver[d].progress
  BY <1>1 DEF Back, DriverRecord
<1> QED  BY <1>2 DEF TypeOK

LEMMA StopCycle ==
  ASSUME TypeOK, NEW d \in Drivers, End(d) \/ Raise(d)
  PROVE  driver'[d].cycle = 0 /\ driver'[d].pc \in Ended
<1>1. PICK q \in Ended : driver' = [driver EXCEPT ![d] = Idle(q)]
  BY DEF End, Raise, Ended, Idle
<1>2. Idle(q).cycle = 0 /\ Idle(q).pc = q
  BY IdleFields DEF PC
<1> QED  BY <1>1, <1>2 DEF TypeOK

LEMMA NewCycleCycle ==
  ASSUME TypeOK, NEW d \in Drivers, NewCycle(d)
  PROVE  driver'[d].cycle = driver[d].cycle + 1 /\ driver'[d].pc = "recover" /\ driver'[d].todo = WithStatus("running")
<1> DEFINE S == WithStatus("running")
           v == Seen(S)
           c == driver[d].cycle + 1
           r == [Idle("recover") EXCEPT !.todo = S, !.view = v, !.cycle = c]
<1>1. r.cycle = c /\ r.pc = "recover" /\ r.todo = S
  <2> HIDE DEF S, v, c
  <2> QED  BY DEF Idle
<1>2. driver'[d] = r
  BY DEF NewCycle, TypeOK
<1> QED  BY <1>1, <1>2

\* After a step that did something.
LEMMA CycleGoesOn ==
  ASSUME NEW d \in Drivers, CycleOK(d), driver'[d].cycle = driver[d].cycle, driver'[d].progress
  PROVE  CycleOK(d)'
BY DEF CycleOK

LEMMA CycleStops ==
  ASSUME NEW d \in Drivers, driver'[d].cycle = 0, driver'[d].pc \in Ended \cup {"new", "enter"}
  PROVE  CycleOK(d)'
<1>1. 0 <= MaxCycles[d]
  BY NaturalLimits
<1> QED  BY <1>1 DEF CycleOK, Ended, Sync

LEMMA CycleStarted ==
  ASSUME TypeOK, NEW d \in Drivers, NewCycle(d), task' = task,
         driver[d].cycle < MaxCycles[d]
  PROVE  CycleOK(d)'
<1>1. driver'[d].cycle = driver[d].cycle + 1 /\ driver'[d].pc = "recover" /\ driver'[d].todo = WithStatus("running")
  BY NewCycleCycle
<1>2. driver'[d].cycle <= MaxCycles[d]
  <2>1. CycleLimit \in Nat /\ MaxCycles[d] \in 1..CycleLimit /\ driver[d].cycle \in 0..CycleLimit
    BY DriverFields, NaturalLimits
  <2> QED  BY <1>1, <2>1
<1> QED  BY <1>1, <1>2 DEF CycleOK, WithStatus

LEMMA CycleAtEnter ==
  ASSUME Known, NEW d \in Drivers, CycleOK(d), Enter(d)
  PROVE  CycleOK(d)'
<1> USE DEF Known
<1>1. CASE End(d)
  BY <1>1, StopCycle, CycleStops
<1>2. CASE NewCycle(d)
  <2>1. driver[d].cycle = 0 /\ task' = task
    BY DEF Enter, DriverInv, DriverOK
  <2>2. 0 < MaxCycles[d]
    BY NaturalLimits
  <2> QED  BY <1>2, <2>1, <2>2, CycleStarted
<1> QED  BY <1>1, <1>2 DEF Enter

LEMMA CycleAtRecover ==
  ASSUME Known, NEW d \in Drivers, CycleOK(d), Recover(d)
  PROVE  CycleOK(d)'
<1> USE DEF Known
<1>1. CASE driver[d].todo = {}
  <2>1. Goto(d, "blocked", WithStatus("blocked")) /\ task' = task /\ driver[d].pc = "recover"
    BY <1>1 DEF Recover, RecoverUnclaimed, RecoverFinished, RecoverResume, RecoverRefused
  <2>2. "blocked" \in PC /\ WithStatus("blocked") \in SUBSET Tasks
    BY DEF PC, Sync, WithStatus
  <2>3. /\ driver'[d].pc = "blocked" /\ driver'[d].todo = WithStatus("blocked") /\ driver'[d].cycle = driver[d].cycle
        /\ driver'[d].progress = driver[d].progress
    BY <2>1, <2>2, GotoFields, GotoProgress
  <2> QED  BY <1>1, <2>1, <2>3 DEF CycleOK, WithStatus, Sync
<1>2. CASE driver[d].todo # {}
  <2> DEFINE t == First(driver[d].todo)
  <2>1. t \in Tasks
    BY <1>2, FirstIn, DriverFields
  <2>2. Done(d) \/ Raise(d) \/ Dispatch(d, t, driver[d].view[t].claim, "recover")
    BY <1>2 DEF Recover, RecoverUnclaimed, RecoverFinished, RecoverResume, RecoverRefused
  <2>3. driver[d].view[t].claim \in 0..MaxAttempts
    BY <2>1, DriverFields DEF View
  <2> HIDE DEF t
  <2>4. CASE Done(d)
    BY <1>2, <2>4, DoneFields, CycleGoesOn
  <2>5. CASE Raise(d)
    BY <2>5, StopCycle, CycleStops
  <2>6. CASE Dispatch(d, t, driver[d].view[t].claim, "recover")
    BY <2>1, <2>3, <2>6, DispatchFields, DispatchProgress, CycleGoesOn
  <2> QED  BY <2>2, <2>4, <2>5, <2>6
<1> QED  BY <1>1, <1>2

LEMMA CycleAtBlocked ==
  ASSUME Known, NEW d \in Drivers, CycleOK(d), Blocked(d) \/ Activate(d)
  PROVE  CycleOK(d)'
<1> USE DEF Known
<1>1. CASE Done(d) /\ driver[d].todo # {}
  BY <1>1, DoneFields, CycleGoesOn
<1>2. CASE End(d)
  BY <1>2, StopCycle, CycleStops
<1>3. CASE Blocked(d) /\ driver[d].todo = {} /\ Goto(d, "activate", Runnable) /\ task' = task
  <2>1. "activate" \in PC /\ Runnable \in SUBSET Tasks
    BY DEF PC, Sync, Runnable, WithStatus
  <2>2. /\ driver'[d].pc = "activate" /\ driver'[d].todo = Runnable /\ driver'[d].cycle = driver[d].cycle
        /\ driver'[d].progress = driver[d].progress
    BY <1>3, <2>1, GotoFields, GotoProgress
  <2>3. Runnable' = Runnable /\ WithStatus("running")' = WithStatus("running") /\ WithStatus("blocked")' = WithStatus("blocked")
    BY <1>3 DEF WithStatus, Runnable, Satisfied
  <2> QED  BY <1>3, <2>2, <2>3 DEF CycleOK, Sync, Blocked
<1>4. CASE Activate(d) /\ driver[d].todo = {}
  <2> DEFINE S == WithStatus("ready")
             v == Seen(S)
             r == [driver[d] EXCEPT !.pc = "ready", !.todo = S, !.view = v]
  <2>1. driver' = [driver EXCEPT ![d] = r] /\ task' = task /\ driver[d].pc = "activate"
    BY <1>4 DEF Activate, TypeOK
  <2>2. driver[d] \in DriverRecord
    BY DriverFields
  <2>3. r.pc = "ready" /\ r.todo = S /\ r.cycle = driver[d].cycle /\ r.progress = driver[d].progress
    <3> HIDE DEF S, v
    <3> QED  BY <2>2 DEF DriverRecord
  <2>4. driver'[d] = r
    BY <2>1 DEF TypeOK
  <2> HIDE DEF r
  <2>5. Runnable' = Runnable /\ \A s : WithStatus(s)' = WithStatus(s)
    BY <2>1 DEF WithStatus, Runnable, Satisfied
  <2> QED  BY <1>4, <2>1, <2>3, <2>4, <2>5 DEF CycleOK, Sync
<1> QED  BY <1>1, <1>2, <1>3, <1>4 DEF Blocked, Activate, FailRun

LEMMA CycleAtReady ==
  ASSUME Known, NEW d \in Drivers, CycleOK(d), Ready(d)
  PROVE  CycleOK(d)'
<1> USE DEF Known
<1>1. CASE driver[d].todo = {}
  <2>1. Goto(d, "settle", {}) /\ task' = task /\ driver[d].pc = "ready"
    BY <1>1 DEF Ready
  <2>2. "settle" \in PC /\ {} \in SUBSET Tasks
    BY DEF PC, Sync
  <2>3. /\ driver'[d].pc = "settle" /\ driver'[d].todo = {} /\ driver'[d].cycle = driver[d].cycle
        /\ driver'[d].progress = driver[d].progress
    BY <2>1, <2>2, GotoFields, GotoProgress
  <2>4. Runnable' = Runnable /\ \A s : WithStatus(s)' = WithStatus(s)
    BY <2>1 DEF WithStatus, Runnable, Satisfied
  <2> QED  BY <1>1, <2>1, <2>3, <2>4 DEF CycleOK, Sync
<1>2. CASE driver[d].todo # {}
  <2> DEFINE t == First(driver[d].todo)
  <2>1. t \in Tasks
    BY <1>2, FirstIn, DriverFields
  <2>2. \/ Deny(d, t) \/ AskApproval(d, t) \/ AskAgain(d, t) \/ AskRefused(d, t)
        \/ ClaimAndDispatch(d, t) \/ ClaimRefused(d, t)
    BY <1>2 DEF Ready
  <2> HIDE DEF t
  <2>3. ASSUME AskApproval(d, t) PROVE Done(d)
    BY <2>3 DEF AskApproval
  <2>4. ASSUME Deny(d, t) \/ AskAgain(d, t) \/ AskRefused(d, t) \/ ClaimRefused(d, t) PROVE Done(d) \/ Raise(d)
    BY <2>4 DEF Deny, AskAgain, AskRefused, ClaimRefused, Close
  <2>5. CASE Done(d)
    BY <1>2, <2>5, DoneFields, CycleGoesOn
  <2>6. CASE Raise(d)
    BY <2>6, StopCycle, CycleStops
  <2>7. CASE ClaimAndDispatch(d, t)
    <3> DEFINE n == task[t].attempts + 1
    <3>1. Dispatch(d, t, n, "ready")
      BY <2>7 DEF ClaimAndDispatch
    <3>2. n \in 0..MaxAttempts
      BY <2>1, <2>7, TaskFields, NaturalLimits DEF ClaimAndDispatch, CanClaim
    <3> HIDE DEF n
    <3> QED  BY <2>1, <3>1, <3>2, DispatchFields, DispatchProgress, CycleGoesOn
  <2> QED  BY <2>2, <2>3, <2>4, <2>5, <2>6, <2>7
<1> QED  BY <1>1, <1>2

LEMMA CycleAtReturn ==
  ASSUME Known, NEW d \in Drivers, CycleOK(d),
         CompleteClaimed(d) \/ (\E c \in Contents : CallSucceeds(d, c)) \/ (\E c \in Contents \cup {NoContent} : CallFails(d, c))
  PROVE  CycleOK(d)'
<1> USE DEF Known
<1>1. driver[d].pc \in {"call", "returned"} /\ driver[d].progress
  <2>1. ASSUME NEW c, CallSucceeds(d, c) \/ CallFails(d, c) PROVE Resumed(d)
    BY <2>1 DEF CallSucceeds, CallFails
  <2>2. CompleteClaimed(d) => driver[d].pc = "returned"
    BY DEF CompleteClaimed
  <2>3. driver[d].pc \in {"call", "returned"}
    BY <2>1, <2>2 DEF Resumed
  <2> QED  BY <2>3 DEF CycleOK
<1>2. CASE driver' = [driver EXCEPT ![d] = Back(d)]
  BY <1>1, <1>2, BackFields, BackProgress, CycleGoesOn
<1>3. CASE Raise(d)
  BY <1>3, StopCycle, CycleStops
<1>4. CASE \E c \in Contents : CallSucceeds(d, c)
  <2>1. driver' = [driver EXCEPT ![d].pc = "returned"]
    BY <1>4 DEF CallSucceeds
  <2>2. driver[d] \in DriverRecord
    BY DriverFields
  <2>3. driver'[d].cycle = driver[d].cycle /\ driver'[d].progress = driver[d].progress
    BY <2>1, <2>2 DEF DriverRecord, TypeOK
  <2> QED  BY <1>1, <2>3, CycleGoesOn
<1>5. ASSUME NEW found, Unowned(d, driver[d].at, found)
      PROVE  Raise(d) \/ driver' = [driver EXCEPT ![d] = Back(d)]
  BY <1>5 DEF Unowned
<1>6. ASSUME NEW c, CallFails(d, c) PROVE Raise(d) \/ driver' = [driver EXCEPT ![d] = Back(d)]
  <2> DEFINE t == driver[d].at
             found == IF task[t].part = NoContent THEN [task EXCEPT ![t].part = c] ELSE task
  <2>1. CASE Owned(t, driver[d].view[t].claim)
    <3> DEFINE f == FailedAttempt(t, task[t].attempts)
               r == [f EXCEPT !.part = found[t].part]
    <3>1. task' = [found EXCEPT ![t] = r] /\ driver' = [driver EXCEPT ![d] = Back(d)]
      BY ZenonT(30), <1>6, <2>1 DEF CallFails
    <3> HIDE DEF found, f, r
    <3> QED  BY <3>1
  <2>2. CASE ~Owned(t, driver[d].view[t].claim)
    <3>1. Unowned(d, t, found)
      BY <1>6, <2>2 DEF CallFails
    <3> HIDE DEF found
    <3> QED  BY <1>5, <3>1
  <2> QED  BY <2>1, <2>2
<1>7. ASSUME CompleteClaimed(d) PROVE Raise(d) \/ driver' = [driver EXCEPT ![d] = Back(d)]
  BY <1>5, <1>7 DEF CompleteClaimed
<1> QED  BY <1>2, <1>3, <1>4, <1>6, <1>7

LEMMA CycleAtSettle ==
  ASSUME Known, NEW d \in Drivers, CycleOK(d), Settle(d)
  PROVE  CycleOK(d)'
<1> USE DEF Known
<1>1. CASE End(d) \/ Raise(d)
  BY <1>1, StopCycle, CycleStops
<1>2. CASE NewCycle(d) /\ driver[d].cycle < MaxCycles[d] /\ task' = task
  BY <1>2, CycleStarted
<1> QED  BY <1>1, <1>2 DEF Settle, FailRun

LEMMA CycleStep ==
  ASSUME Known, LoopInv, CycleInv, [Next]_vars
  PROVE  CycleInv'
<1> USE DEF Known
<1>1. ASSUME NEW d \in Drivers, Step(d) \/ Request(d), CycleOK(d)' PROVE CycleInv'
  <2>1. OthersStay(d)
    BY <1>1, StepOfDriver DEF StepOK
  <2>2. ASSUME NEW e \in Drivers \ {d} PROVE CycleOK(e)'
    <3>1. driver'[e] = driver[e] /\ driver[e].pc \notin Sync
      BY <1>1, <2>1, ActsAlone DEF OthersStay
    <3>2. CycleOK(e)
      BY DEF CycleInv
    <3> QED  BY <3>1, <3>2 DEF CycleOK
  <2> QED  BY <1>1, <2>2 DEF CycleInv
<1>2. ASSUME NEW d \in Drivers, Step(d) PROVE CycleInv'
  <2>1. CycleOK(d)
    BY DEF CycleInv
  <2>2. CycleOK(d)'
    BY <1>2, <2>1, CycleAtEnter, CycleAtRecover, CycleAtBlocked, CycleAtReady, CycleAtReturn, CycleAtSettle DEF Step
  <2> QED  BY <1>1, <1>2, <2>2
<1>3. ASSUME NEW d \in Drivers, Request(d) PROVE CycleInv'
  <2>1. driver[d].pc = "new" /\ Goto(d, "enter", {})
    BY <1>3 DEF Request, Drive, ResolvePlan, Resolve
  <2>2. "enter" \in PC /\ {} \in SUBSET Tasks
    BY DEF PC, Sync
  <2>3. driver'[d].pc = "enter" /\ driver'[d].cycle = 0
    BY <2>1, <2>2, GotoFields DEF DriverInv, DriverOK
  <2> QED  BY <1>1, <1>3, <2>3, CycleStops
<1>4. ASSUME NEW lost, CrashAll(lost) PROVE CycleInv'
  <2>1. ASSUME NEW e \in Drivers PROVE CycleOK(e)'
    <3>1. Idle("ended").cycle = 0 /\ Idle("ended").pc = "ended"
      BY IdleFields DEF PC, Ended
    <3>2. driver'[e] = Idle("ended") \/ (driver'[e] = driver[e] /\ driver[e].pc \notin Sync \cup {"call"})
      BY <1>4 DEF CrashAll, Active
    <3>3. CASE driver'[e] = Idle("ended")
      BY <3>1, <3>3, CycleStops DEF Ended
    <3>4. CASE driver'[e] = driver[e] /\ driver[e].pc \notin Sync \cup {"call"}
      <4>1. CycleOK(e)
        BY DEF CycleInv
      <4> QED  BY <3>4, <4>1 DEF CycleOK, Sync
    <3> QED  BY <3>2, <3>3, <3>4
  <2> QED  BY <2>1 DEF CycleInv
<1>5. ASSUME NEW d \in Drivers, Torn(d) PROVE CycleInv'
  <2>1. ASSUME NEW t, TornClaim(d, t) \/ TornAsk(d, t) \/ TornFailure(d, t) \/ TornClose(d, t) PROVE CrashAll({})
    BY <2>1 DEF TornClaim, TornAsk, TornFailure, TornClose
  <2>2. ASSUME NEW x, TornResolvePlan(d, x) \/ (\E t \in Tasks, n \in Attempt : TornResolve(d, t, n, x)) PROVE CrashAll({d})
    BY <2>2 DEF TornResolvePlan, TornResolve
  <2>3. ASSUME NEW c, TornWrite(d, c) PROVE CrashAll({})
    BY <2>3 DEF TornWrite
  <2>4. \E lost : CrashAll(lost)
    BY <1>5, <2>1, <2>2, <2>3 DEF Torn
  <2> QED  BY <1>4, <2>4
<1>6. ASSUME UNCHANGED <<task, driver>> PROVE CycleInv'
  <2>1. Runnable' = Runnable /\ \A s : WithStatus(s)' = WithStatus(s)
    BY <1>6 DEF WithStatus, Runnable, Satisfied
  <2> QED  BY <1>6, <2>1 DEF CycleInv, CycleOK
<1> QED  BY <1>2, <1>3, <1>4, <1>5, <1>6 DEF Next, Crash, Expire, vars

\* Nobody is asked for the plan of this workflow.
LEMMA NoPlanStep ==
  ASSUME NoPlan, [Next]_vars
  PROVE  NoPlan'
<1>1. plan' = plan
  <2>1. ASSUME NEW d, NEW x PROVE ~ResolvePlan(d, x) /\ ~TornResolvePlan(d, x)
    BY DEF ResolvePlan, TornResolvePlan, NoPlan
  <2>2. ASSUME NEW d, Step(d) PROVE plan' = plan
    <3>1. Enter(d) \/ Recover(d) \/ Blocked(d) \/ Activate(d) \/ CompleteClaimed(d) \/ Settle(d) => plan' = plan
      BY DEF Enter, Recover, Blocked, Activate, CompleteClaimed, Settle
    <3>2. Ready(d) => plan' = plan
      BY DEF Ready
    <3>3. ASSUME NEW c, CallSucceeds(d, c) \/ CallFails(d, c) PROVE plan' = plan
      BY <3>3 DEF CallSucceeds, CallFails
    <3> QED  BY <2>2, <3>1, <3>2, <3>3 DEF Step
  <2>3. ASSUME NEW d, Request(d) PROVE plan' = plan
    BY <2>1, <2>3 DEF Request, Drive, Resolve
  <2>4. ASSUME NEW d, Torn(d) PROVE plan' = plan
    <3>1. ASSUME NEW t, TornClaim(d, t) \/ TornAsk(d, t) \/ TornFailure(d, t) \/ TornClose(d, t) \/ TornWrite(d, t)
          PROVE  plan' = plan
      BY <3>1 DEF TornClaim, TornAsk, TornFailure, TornClose, TornWrite
    <3>2. ASSUME NEW x, \E t \in Tasks, n \in Attempt : TornResolve(d, t, n, x) PROVE plan' = plan
      BY <3>2 DEF TornResolve
    <3> QED  BY <2>1, <2>4, <3>1, <3>2 DEF Torn
  <2> QED  BY <2>2, <2>3, <2>4 DEF Next, Crash, Expire, vars
<1> QED  BY <1>1 DEF NoPlan

(***************************************************************************)
(* As long as no crash and no Founder interferes: what a step leaves alone. *)
(***************************************************************************)
\* To a task nothing happens but that its outputs may be there now.
Alike(t) ==
  /\ task'[t].status = task[t].status /\ KeepsClaim(t)
  /\ \A n \in Attempt : approval'[t][n] = approval[t][n]

\* Whoever holds a task goes on holding it, or it is completed.
KeepsHold(t) ==
  \/ task'[t].status = "completed"
  \/ task[t].status \notin {"running", "completed"}
  \/ t = Injected /\ task[t].status = "running" /\ task[t].claim = 1
  \/ task'[t].status = task[t].status /\ task'[t].claim = task[t].claim

\* A driver moves; no other is between two awaits.
Acts(d) ==
  /\ OthersStay(d) /\ \A e \in Drivers \ {d} : ~Busy(e) /\ work'[e] = work[e]

LEMMA CalmTaskStays ==
  ASSUME TypeOK, NEW t \in Tasks, CalmTask(t), Alike(t), NEW d \in Drivers, Acts(d),
         work[d].at = "fail" /\ driver[d].at = t => task[t].status # "running"
  PROVE  CalmTask(t)'
<1>1. ASSUME task[t].status = "running", t = Injected, t # Release, task[t].claim = 1 PROVE FALSE
  <2>1. PICK e \in Drivers : work[e].at = "fail" /\ driver[e].at = t
    BY <1>1 DEF CalmTask
  <2>2. e = d
    BY <2>1 DEF Acts, Busy, Writes
  <2> QED  BY <1>1, <2>1, <2>2
<1>2. /\ task'[t].status = task[t].status /\ task'[t].claim = task[t].claim
      /\ task'[t].attempts = task[t].attempts /\ task'[t].link = task[t].link
  BY DEF Alike, KeepsClaim
<1>3. \A n \in Attempt : approval'[t][n] = approval[t][n]
  BY DEF Alike
<1>4. task[t].status = "running" /\ t = Release => task[t].claim # 0 /\ approval'[t][task[t].claim] = approval[t][task[t].claim]
  <2>1. task[t].status = "running" => task[t].claim \in Attempt
    BY TaskFields, NaturalLimits DEF CalmTask, Attempt
  <2> QED  BY <1>3, <2>1 DEF CalmTask
<1> QED  BY <1>1, <1>2, <1>3, <1>4 DEF CalmTask

LEMMA OtherStays ==
  ASSUME TypeOK, NEW d \in Drivers, Acts(d), \A t \in Tasks : KeepsHold(t),
         NEW e \in Drivers \ {d}, CalmTodo(e), CalmCall(e)
  PROVE  CalmTodo(e)' /\ CalmCall(e)'
<1>1. driver'[e] = driver[e] /\ work'[e] = work[e] /\ driver[e].pc \notin Sync /\ work[e].at \notin Writes
  BY DEF Acts, OthersStay, Busy
<1>2. driver[e].todo \subseteq Tasks /\ driver[e].at \in Tasks
  BY DriverFields
<1>3. ASSUME NEW t \in Tasks, NEW n, Holds(t, n)
      PROVE  task'[t].status = "completed" \/ Holds(t, n)'
  BY <1>3 DEF KeepsHold, Holds, Owned
<1>4. \A t \in Tasks : task[t].status = "completed" => task'[t].status = "completed"
  BY DEF KeepsHold
<1>5. CalmTodo(e)'
  <2>1. InLoop(e, "recover")' <=> InLoop(e, "recover")
    BY <1>1 DEF InLoop
  <2>2. driver[e].pc \in {"call", "returned"} => Release \notin driver[e].todo
    BY DEF CalmTodo
  <2>3. ASSUME InLoop(e, "recover"), NEW u \in driver[e].todo
        PROVE  (task'[u].status = "completed" /\ u # Release) \/ Holds(u, driver[e].view[u].claim)'
    <3>1. driver[e].pc = "call"
      BY <1>1, <2>3 DEF InLoop, Sync
    <3>2. u # Release /\ u \in Tasks
      BY <1>2, <2>2, <3>1
    <3>3. task[u].status = "completed" \/ Holds(u, driver[e].view[u].claim)
      BY <2>3, <3>2 DEF CalmTodo
    <3> DEFINE n == driver[e].view[u].claim
    <3>4. PICK m : m = n
      OBVIOUS
    <3>5. task'[u].status = "completed" \/ Holds(u, m)'
      BY <1>3, <1>4, <3>2, <3>3, <3>4
    <3>6. driver'[e].view[u].claim = m
      BY <1>1, <3>4
    <3> QED  BY <3>2, <3>5, <3>6
  <2> QED  BY <1>1, <2>1, <2>2, <2>3 DEF CalmTodo, Sync
<1>6. CalmCall(e)'
  <2>1. PICK t \in Tasks : t = driver[e].at
    BY <1>2
  <2>2. PICK n : n = driver[e].view[t].claim
    OBVIOUS
  <2>3. work[e].at = "model" => task[t].status = "completed" \/ Holds(t, n)
    BY <2>1, <2>2 DEF CalmCall
  <2>4. work[e].at = "model" => task'[t].status = "completed" \/ Holds(t, n)'
    BY <1>3, <1>4, <2>3
  <2>5. driver'[e].at = t /\ driver'[e].view[t].claim = n
    BY <1>1, <2>1, <2>2
  <2>6. work[e].at \notin {"write", "register", "mark", "fail"} /\ driver[e].pc # "returned"
    BY <1>1 DEF Writes, Sync
  <2> QED  BY <1>1, <2>4, <2>5, <2>6 DEF CalmCall
<1> QED  BY <1>5, <1>6

\* Only a driver between two awaits is finishing a task.
FinishesBy(d, t, s) ==
  /\ work[d].at \in {"write", "register"} \/ driver[d].pc = "returned"
  /\ driver[d].at = t /\ s \notin Unwritten(work[d])

LEMMA WhoFinishes ==
  ASSUME NEW d \in Drivers, Acts(d), NEW t, NEW s, Finishing(t, s)
  PROVE  FinishesBy(d, t, s)
<1>1. PICK e \in Drivers : FinishesBy(e, t, s)
  BY DEF Finishing, FinishesBy
<1>2. Busy(e)
  BY <1>1 DEF FinishesBy, Busy, Writes, Sync
<1> QED  BY <1>1, <1>2 DEF Acts

LEMMA SettledStays ==
  ASSUME NEW d \in Drivers, Acts(d), Settled, stored' = stored,
         \A t \in TaskKeys : task[t].status = "completed" => task'[t].status = "completed",
         \A t \in TaskKeys : \A s \in SlotsOf(t) :
           FinishesBy(d, t, s) => task'[t].status = "completed" \/ FinishesBy(d, t, s)'
  PROVE  Settled'
<1> SUFFICES ASSUME NEW t \in TaskKeys, NEW s \in SlotsOf(t), stored'[s] # None
             PROVE  task'[t].status = "completed" \/ Finishing(t, s)'
  BY DEF Settled
<1>1. task[t].status = "completed" \/ Finishing(t, s)
  BY DEF Settled
<1>2. Finishing(t, s) => FinishesBy(d, t, s)
  BY WhoFinishes
<1>3. FinishesBy(d, t, s)' => Finishing(t, s)'
  BY DEF Finishing, FinishesBy
<1> QED  BY <1>1, <1>2, <1>3

\* One task may change, one driver moves on.
LEMMA CalmFrame ==
  ASSUME TypeOK, CalmBody, NEW d \in Drivers, Acts(d), stored' = stored, NEW t \in Tasks,
         \A u \in Tasks \ {t} : Alike(u), KeepsHold(t), CalmTask(t)', CalmTodo(d)', CalmCall(d)',
         work[d].at = "fail" => driver[d].at = t,
         work[d].at \in {"write", "register"} \/ driver[d].pc = "returned" => task'[driver[d].at].status = "completed"
  PROVE  CalmBody'
<1>1. \A u \in Tasks : KeepsHold(u)
  BY DEF Alike, KeepsHold, KeepsClaim
<1>2. \A u \in Tasks \ {t} : CalmTask(u)'
  <2>1. ASSUME NEW u \in Tasks \ {t} PROVE CalmTask(u)'
    <3>1. CalmTask(u) /\ Alike(u)
      BY Plan DEF CalmBody
    <3> QED  BY <3>1, CalmTaskStays
  <2> QED  BY <2>1
<1>3. \A e \in Drivers \ {d} : CalmTodo(e)' /\ CalmCall(e)'
  <2>1. ASSUME NEW e \in Drivers \ {d} PROVE CalmTodo(e)' /\ CalmCall(e)'
    <3>1. CalmTodo(e) /\ CalmCall(e)
      BY DEF CalmBody
    <3> QED  BY <1>1, <3>1, OtherStays
  <2> QED  BY <2>1
<1>4. Settled'
  <2>1. \A u \in TaskKeys : task[u].status = "completed" => task'[u].status = "completed"
    BY <1>1, Plan DEF KeepsHold
  <2>2. Settled
    BY DEF CalmBody
  <2> QED  BY <2>1, <2>2, SettledStays DEF FinishesBy
<1> QED  BY <1>2, <1>3, <1>4, Plan DEF CalmBody

\* No task changes.
LEMMA CalmStill ==
  ASSUME TypeOK, CalmBody, NEW d \in Drivers, Acts(d), stored' = stored,
         \A u \in Tasks : Alike(u), CalmTodo(d)', CalmCall(d)',
         work[d].at = "fail" => task[driver[d].at].status # "running",
         work[d].at \in {"write", "register"} \/ driver[d].pc = "returned" => task[driver[d].at].status = "completed"
  PROVE  CalmBody'
<1>1. PICK t \in Tasks : t = driver[d].at
  BY DriverFields
<1>2. CalmTask(t) /\ Alike(t)
  BY Plan DEF CalmBody
<1>3. CalmTask(t)'
  BY <1>1, <1>2, CalmTaskStays
<1>4. KeepsHold(t) /\ task'[t].status = task[t].status
  BY <1>2 DEF Alike, KeepsHold, KeepsClaim
<1> QED  BY <1>1, <1>3, <1>4, CalmFrame

\* A driver that has no task.
LEMMA CalmIdle ==
  ASSUME NEW d \in Drivers, driver'[d].pc \notin {"recover", "ready", "call", "returned"}, work'[d].at = "none"
  PROVE  CalmTodo(d)' /\ CalmCall(d)'
BY DEF CalmTodo, CalmCall, InLoop

(***************************************************************************)
(* As long as no crash and no Founder interferes: steps of the Controller.  *)
(***************************************************************************)
LEMMA ControlActs ==
  ASSUME IInv, Base, NEW d \in Drivers, Control(d)
  PROVE  /\ Acts(d) /\ stored' = stored /\ Turn(d) /\ driver[d].pc \in Sync /\ work[d].at = "none"
         /\ driver'[d].pc # "call" => work'[d].at = "none"
<1>1. Turn(d) /\ (\A e \in Drivers \ {d} : ~Busy(e)) /\ work[d].at = "none" /\ driver[d].pc \in Sync
  BY ControlBusy DEF Base
<1>2. OthersStay(d) /\ (\A e \in Drivers \ {d} : work'[e] = work[e]) /\ stored' = stored
  BY OneWorks
<1>3. driver'[d].pc # "call" => work' = work
  BY DEF Control
<1> QED  BY <1>1, <1>2, <1>3 DEF Acts

LEMMA TodoFields ==
  ASSUME TypeOK, NEW d \in Drivers, driver[d].todo # {}
  PROVE  \E t \in Tasks : t = First(driver[d].todo) /\ t \in driver[d].todo
<1>1. First(driver[d].todo) \in driver[d].todo /\ driver[d].todo \subseteq Tasks
  BY FirstIn, DriverFields
<1> QED  BY <1>1

LEMMA SameTasks ==
  ASSUME UNCHANGED <<task, approval>>
  PROVE  \A u : Alike(u)
BY DEF Alike, KeepsClaim

LEMMA ReleaseFields ==
  /\ Release \in Tasks /\ "private-upload-policy" \in Tasks /\ Release # "private-upload-policy"
  /\ Policy[Release] = "approve" /\ Policy["private-upload-policy"] = "deny"
<1>1. Release \in TaskKeys /\ "private-upload-policy" \in TaskKeys
  BY Keys DEF Release
<1> QED  BY <1>1, Policies, Plan DEF Release

\* With the release at hand everything else is done.
LEMMA OnlyTheRelease ==
  ASSUME TaskInv, NEW s \in {"ready", "running"}, Release \in WithStatus(s)
  PROVE  WithStatus(s) = {Release}
<1>1. \A t \in TaskKeys \ {Release} : task[t].status # s
  BY ReleaseIsLast DEF WithStatus
<1> QED  BY <1>1, Plan DEF WithStatus

\* Whoever is running is held, and past its injected failure.
LEMMA RunningIsHeld ==
  ASSUME NEW d \in Drivers, Acts(d), work[d].at # "fail", NEW t \in Tasks, CalmTask(t), task[t].status = "running"
  PROVE  Owned(t, task[t].claim) /\ (t # Release => Holds(t, task[t].claim))
<1>1. ASSUME t = Injected, t # Release, task[t].claim = 1 PROVE FALSE
  <2>1. PICK e \in Drivers : work[e].at = "fail" /\ driver[e].at = t
    BY <1>1 DEF CalmTask
  <2> QED  BY <2>1 DEF Acts, Busy, Writes
<1>2. task[t].claim # 0
  BY DEF CalmTask
<1> QED  BY <1>1, <1>2 DEF Owned, Holds

LEMMA CalmCycle ==
  ASSUME IInv, CalmBody, NEW d \in Drivers, Acts(d), work[d].at # "fail", work'[d].at = "none",
         NewCycle(d), Enter(d) \/ driver[d].cycle < MaxCycles[d], UNCHANGED <<task, approval>>
  PROVE  CalmTodo(d)' /\ CalmCall(d)'
<1> DEFINE S == WithStatus("running")
<1>0. Known /\ TypeOK /\ TaskInv
  BY DEF IInv, Known
<1>1. driver'[d].pc = "recover" /\ driver'[d].todo = S /\ driver'[d].view = Seen(S)
  BY <1>0, CycleStarts
<1>2. S \in SUBSET Tasks /\ S = {t \in Tasks : task[t].status = "running"} /\ \A u \in S : task[u].status = "running"
  BY DEF WithStatus
<1>3. \A u \in S : Seen(S)[u].claim = task[u].claim
  BY <1>0, <1>2, SeenFields
<1>4. CalmCall(d)'
  BY <1>1 DEF CalmCall
<1>5. ASSUME NEW u \in S
      PROVE  Owned(u, task[u].claim) /\ (u # Release => Holds(u, task[u].claim))
  <2>1. CalmTask(u) /\ task[u].status = "running"
    BY <1>2, Plan DEF CalmBody
  <2> QED  BY <1>2, <2>1, RunningIsHeld
<1>6. ASSUME Release \in S
      PROVE  S = {Release} /\ Seen(S)[Release].approved
  <2>1. S = {Release}
    BY <1>0, <1>6, OnlyTheRelease
  <2>2. CalmTask(Release) /\ task[Release].status = "running"
    BY <1>6, <1>2, ReleaseFields, Plan DEF CalmBody
  <2>3. task[Release].link # 0 /\ task[Release].link = task[Release].claim /\ approval[Release][task[Release].link] = "approved"
    BY <2>2 DEF CalmTask
  <2>4. Seen(S)[Release].approved = /\ task[Release].link # 0 /\ task[Release].link = task[Release].claim
                                    /\ approval[Release][task[Release].link] = "approved"
    <3> HIDE DEF S
    <3> QED  BY <1>6, ReleaseFields DEF Seen
  <2> QED  BY <2>1, <2>3, <2>4
<1> HIDE DEF S
<1>7. \A u \in S : driver'[d].view[u].claim = task[u].claim
  BY <1>1, <1>3
<1>8. \A u \in S : /\ Owned(u, driver[d].view[u].claim)'
                   /\ u # Release => Holds(u, driver[d].view[u].claim)'
  BY <1>5, <1>7 DEF Owned, Holds
<1> QED  BY <1>1, <1>4, <1>6, <1>8 DEF CalmTodo, InLoop

\* The driver is the only one that moves, and has no file in hand.
Controls(d) ==
  /\ Acts(d) /\ stored' = stored /\ driver[d].pc \in Sync /\ work[d].at = "none"
  /\ driver'[d].pc # "call" => work'[d].at = "none"

LEMMA CalmStops ==
  ASSUME TypeOK, CalmBody, NEW d \in Drivers, Controls(d), driver[d].pc # "returned", UNCHANGED <<task, approval>>,
         driver'[d].pc \notin {"recover", "ready", "call", "returned"}
  PROVE  CalmBody'
<1>1. work'[d].at = "none"
  BY DEF Controls
<1>2. CalmTodo(d)' /\ CalmCall(d)'
  BY <1>1, CalmIdle
<1>3. \A u \in Tasks : Alike(u)
  BY SameTasks
<1> QED  BY <1>2, <1>3, CalmStill DEF Controls

LEMMA CalmEnterSettle ==
  ASSUME IInv, CalmBody, NEW d \in Drivers, Controls(d), Enter(d) \/ Settle(d)
  PROVE  CalmBody'
<1>0. TypeOK
  BY DEF IInv
<1>1. UNCHANGED <<task, approval>> /\ driver[d].pc \in {"enter", "settle"}
  BY DEF Enter, Settle
<1>2. CASE End(d) \/ Raise(d)
  <2>1. driver'[d].pc \in Ended
    BY <1>0, <1>2, StopFields
  <2> QED  BY <1>0, <1>1, <2>1, CalmStops DEF Ended
<1>3. CASE NewCycle(d) /\ (Enter(d) \/ driver[d].cycle < MaxCycles[d])
  <2>1. driver'[d].pc = "recover"
    BY <1>0, <1>3, NewCycleCycle
  <2>2. CalmTodo(d)' /\ CalmCall(d)'
    BY <1>1, <1>3, <2>1, CalmCycle DEF Controls
  <2>3. \A u \in Tasks : Alike(u)
    BY <1>1, SameTasks
  <2> QED  BY <1>0, <1>1, <2>2, <2>3, CalmStill DEF Controls
<1> QED  BY <1>2, <1>3 DEF Enter, Settle, FailRun

\* Only its status changes.
LEMMA StatusOf ==
  ASSUME TypeOK, NEW t \in Tasks, NEW s \in TaskStatus, SetStatus(t, s), approval' = approval
  PROVE  /\ task'[t].status = s /\ KeepsClaim(t) /\ \A u \in Tasks \ {t} : Alike(u)
         /\ \A n \in Attempt : approval'[t][n] = approval[t][n]
<1>1. task'[t].status = s /\ KeepsClaim(t) /\ \A u \in Tasks \ {t} : task'[u] = task[u]
  BY StatusFields
<1> QED  BY <1>1 DEF Alike, KeepsClaim

LEMMA CalmBlockedActivate ==
  ASSUME IInv, CalmBody, NEW d \in Drivers, Controls(d), Blocked(d) \/ Activate(d)
  PROVE  CalmBody'
<1>0. TypeOK /\ DriverOK(d) /\ TaskInv
  BY DEF IInv, DriverInv
<1>1. driver[d].pc \in {"blocked", "activate"} /\ approval' = approval
  BY DEF Blocked, Activate
<1>2. CASE driver[d].todo # {}
  <2>1. PICK t \in Tasks : t = First(driver[d].todo) /\ t \in driver[d].todo
    BY <1>0, <1>2, TodoFields
  <2>2. CalmTask(t)
    BY Plan DEF CalmBody
  <2>3. task[t].status \in {"blocked", "pending"}
    BY <1>0, <1>1, <2>1 DEF DriverOK, Runnable, WithStatus
  <2>4. SetStatus(t, "ready") /\ Done(d)
    <3>1. CASE Blocked(d)
      <4>1. task[t].status = "blocked"
        BY <1>0, <2>1, <3>1 DEF DriverOK, WithStatus, Blocked
      <4>2. task[t].attempts < MaxAttempts
        BY <2>2, <4>1 DEF CalmTask
      <4> QED  BY <1>2, <2>1, <3>1, <4>2 DEF Blocked
    <3>2. CASE Activate(d)
      BY <1>2, <2>1, <3>2 DEF Activate
    <3> QED  BY <3>1, <3>2
  <2>5. task'[t].status = "ready" /\ KeepsClaim(t) /\ (\A u \in Tasks \ {t} : Alike(u))
        /\ \A n \in Attempt : approval'[t][n] = approval[t][n]
    BY <1>0, <1>1, <2>4, StatusOf DEF TaskStatus
  <2>6. CalmTask(t)'
    BY <2>2, <2>3, <2>5 DEF CalmTask, KeepsClaim
  <2>7. driver'[d].pc = driver[d].pc
    BY <1>0, <1>2, <2>4, DoneFields
  <2>8. CalmTodo(d)' /\ CalmCall(d)'
    BY <1>1, <2>7, CalmIdle DEF Controls
  <2> QED  BY <1>0, <1>1, <2>3, <2>5, <2>6, <2>8, CalmFrame DEF Controls, KeepsHold
<1>3. CASE driver[d].todo = {} /\ Blocked(d)
  <2>1. task' = task /\ (End(d) \/ Goto(d, "activate", Runnable))
    BY <1>3 DEF Blocked, FailRun
  <2>2. "activate" \in PC /\ Runnable \in SUBSET Tasks
    BY DEF PC, Sync, Runnable, WithStatus
  <2>3. driver'[d].pc \in Ended \cup {"activate"}
    BY <1>0, <2>1, <2>2, StopFields, GotoFields
  <2> QED  BY <1>0, <1>1, <2>1, <2>3, CalmStops DEF Ended
<1>4. CASE driver[d].todo = {} /\ Activate(d)
  <2> DEFINE S == WithStatus("ready")
             v == Seen(S)
             r == [driver[d] EXCEPT !.pc = "ready", !.todo = S, !.view = v]
  <2>1. driver' = [driver EXCEPT ![d] = r] /\ task' = task /\ driver[d].pc = "activate"
    BY <1>4 DEF Activate, TypeOK
  <2>2. driver[d] \in DriverRecord /\ S \in SUBSET Tasks
    BY <1>0, DriverFields DEF WithStatus
  <2>3. r.pc = "ready" /\ r.todo = S /\ r.view = Seen(S)
    <3> HIDE DEF S
    <3> QED  BY <2>2 DEF DriverRecord
  <2>4. driver'[d] = r
    BY <1>0, <2>1 DEF TypeOK
  <2>5. ASSUME Release \in S
        PROVE  S = {Release} /\ task'[Release].status = "ready" /\ ~Seen(S)[Release].approved
    <3>1. S = {Release}
      BY <1>0, <2>5, OnlyTheRelease
    <3>2. task[Release].status = "ready" /\ CalmTask(Release)
      BY <2>5, ReleaseFields, Plan DEF WithStatus, CalmBody
    <3>3. task[Release].claim = 0
      BY <3>2 DEF CalmTask
    <3>4. ~Seen(S)[Release].approved
      <4> HIDE DEF S
      <4> QED  BY <1>0, <2>2, <2>5, <3>3, SeenFields
    <3> QED  BY <2>1, <3>1, <3>2, <3>4
  <2> HIDE DEF r, S
  <2>6. CalmTodo(d)' /\ CalmCall(d)'
    BY <2>3, <2>4, <2>5 DEF CalmTodo, CalmCall, InLoop, Controls
  <2>7. \A u \in Tasks : Alike(u)
    BY <1>1, <2>1, SameTasks
  <2> QED  BY <1>0, <1>1, <2>6, <2>7, CalmStill DEF Controls
<1> QED  BY <1>2, <1>3, <1>4

\* The driver is done with the task at the head of its loop.
LEMMA CalmDone ==
  ASSUME TypeOK, CalmBody, NEW d \in Drivers, Controls(d), driver[d].pc \in {"recover", "ready"},
         NEW t \in Tasks, t = First(driver[d].todo), t \in driver[d].todo, Done(d), \A u \in Tasks \ {t} : Alike(u)
  PROVE  CalmTodo(d)' /\ CalmCall(d)'
<1>1. /\ driver'[d].pc = driver[d].pc /\ driver'[d].todo = driver[d].todo \ {t}
      /\ \A u \in Tasks \ {t} : driver'[d].view[u] = driver[d].view[u]
  BY DoneFields
<1>2. CalmTodo(d) /\ driver[d].todo \subseteq Tasks
  BY DriverFields DEF CalmBody
<1>3. Release \notin driver'[d].todo
  BY <1>1, <1>2 DEF CalmTodo
<1>4. ASSUME driver[d].pc = "recover", NEW u \in driver'[d].todo
      PROVE  \/ task'[u].status = "completed" /\ u # Release
             \/ Holds(u, driver[d].view[u].claim)'
  <2>1. u \in driver[d].todo /\ u # Release /\ u # t /\ u \in Tasks
    BY <1>1, <1>2, <1>3
  <2>2. task[u].status = "completed" \/ Holds(u, driver[d].view[u].claim)
    BY <1>2, <1>4, <2>1 DEF CalmTodo, InLoop
  <2>3. driver'[d].view[u] = driver[d].view[u] /\ Alike(u)
    BY <1>1, <2>1
  <2> QED  BY <2>1, <2>2, <2>3 DEF Holds, Owned, Alike, KeepsClaim
<1>5. CalmCall(d)'
  <2>1. work'[d].at = "none"
    BY <1>1 DEF Controls
  <2> QED  BY <1>1, <2>1 DEF CalmCall
<1> QED  BY <1>1, <1>3, <1>4, <1>5 DEF CalmTodo, InLoop

\* A task of the golden workflow that is held is completed.
LEMMA CalmCompletes ==
  ASSUME TypeOK, NEW t \in Tasks, CalmTask(t), task[t].status = "running", Complete(t), approval' = approval
  PROVE  /\ \A u \in Tasks \ {t} : Alike(u)
         /\ KeepsHold(t) /\ CalmTask(t)' /\ task'[t].status = "completed"
<1> DEFINE r == [task[t] EXCEPT !.status = "completed", !.claim = 0]
<1>1. task' = [task EXCEPT ![t] = r]
  BY DEF Complete, TypeOK
<1>2. r.status = "completed"
  BY TaskFields DEF TaskRecord
<1> HIDE DEF r
<1>3. task'[t].status = "completed" /\ \A u \in Tasks \ {t} : task'[u] = task[u]
  BY <1>1, <1>2 DEF TypeOK
<1>4. t # "private-upload-policy" /\ \A n \in Attempt : approval[t][n] # "pending"
  BY DEF CalmTask
<1> QED  BY <1>3, <1>4 DEF Alike, KeepsClaim, KeepsHold, CalmTask

LEMMA CalmResume ==
  ASSUME IInv, Base, CalmBody, NEW d \in Drivers, Controls(d), driver[d].pc = "recover",
         NEW t \in Tasks, t \in driver[d].todo, RecoverResume(d, t), work'[d] = Started(t, task[t].attempts),
         approval' = approval, Policy[t] # "deny"
  PROVE  CalmBody'
<1>11. PICK n : n = driver[d].view[t].claim
  OBVIOUS
<1>0. TypeOK /\ TaskInv /\ ClaimIsCurrent /\ DriverOK(d) /\ StoreInv
  BY DEF IInv, DriverInv, Base
<1>1. n # 0 /\ Dispatch(d, t, n, "recover") /\ task' = task
  BY <1>11 DEF RecoverResume
<1>2. n \in 0..MaxAttempts
  BY <1>0, <1>11, DriverFields DEF View
<1>3. CalmTodo(d) /\ CalmTask(t) /\ driver[d].todo \subseteq Tasks
  BY <1>0, DriverFields, Plan DEF CalmBody
<1>4. \/ task[t].status = "completed" /\ t # Release
      \/ Holds(t, n)
      \/ t = Release /\ Owned(t, n)
  BY <1>3, <1>11 DEF CalmTodo, InLoop
<1>5. /\ driver'[d].pc = "call" /\ driver'[d].at = t /\ driver'[d].via = "recover" /\ driver'[d].todo = driver[d].todo \ {t}
      /\ driver'[d].view[t] = [Blank EXCEPT !.claim = n]
      /\ \A u \in Tasks \ {t} : driver'[d].view[u] = driver[d].view[u]
  BY <1>0, <1>1, <1>2, DispatchFields
<1>6. driver'[d].view[t].claim = n
  BY <1>5 DEF Blank
<1>7. /\ work'[d].at \in {"model", "write", "fail"}
      /\ work'[d].at = "fail" <=> task[t].attempts = 1 /\ t = Injected
  <2>1. task[t].status # "pending" /\ t # "private-upload-policy" /\ t \in TaskKeys
    BY <1>0, ReleaseFields, Plan DEF DriverOK
  <2>2. Reads(t, TRUE) \subseteq listed
    BY <1>0, <2>1, InputsThere
  <2>3. PICK m : m = task[t].attempts
    OBVIOUS
  <2>4. /\ Started(t, m).at \in {"model", "write", "fail"}
        /\ Started(t, m).at = "fail" <=> m = 1 /\ t = Injected
    BY <2>1, <2>2, StartedOK
  <2> QED  BY <2>3, <2>4
<1>8. CalmCall(d)'
  <2>1. Owned(t, n) => n = task[t].attempts
    BY <1>0 DEF Owned, ClaimIsCurrent
  <2>2. Owned(t, n) => Owned(t, n)'
    BY <1>1 DEF Owned
  <2>3. Holds(t, n) => Owned(t, n) /\ (t = Injected => n # 1)
    BY DEF Holds
  <2>4. work'[d].at = "fail" => task'[t].status = "completed" \/ (t = Injected /\ n = 1 /\ Owned(t, n)')
    BY <1>1, <1>4, <1>7, <2>1, <2>2, <2>3
  <2>5. work'[d].at # "fail" => task'[t].status = "completed" \/ (Owned(t, n)' /\ (t = Injected => n # 1))
    BY <1>1, <1>4, <1>7, <2>1, <2>2, <2>3
  <2> QED  BY <1>5, <1>6, <2>4, <2>5 DEF CalmCall, Holds, Owned
<1>9. CalmTodo(d)'
  <2>1. Release \notin driver'[d].todo
    BY <1>3, <1>5 DEF CalmTodo
  <2>2. ASSUME NEW u \in driver'[d].todo
        PROVE  \/ task'[u].status = "completed" /\ u # Release
               \/ Holds(u, driver[d].view[u].claim)'
    <3>1. u \in driver[d].todo /\ u # Release /\ u \in Tasks /\ driver'[d].view[u] = driver[d].view[u]
      BY <1>3, <1>5, <2>1, <2>2
    <3>2. task[u].status = "completed" \/ Holds(u, driver[d].view[u].claim)
      BY <1>3, <3>1 DEF CalmTodo, InLoop
    <3> QED  BY <1>1, <3>1, <3>2 DEF Holds, Owned
  <2> QED  BY <1>5, <2>1, <2>2 DEF CalmTodo
<1>10. \A u \in Tasks : Alike(u)
  BY <1>1, SameTasks
<1> QED  BY <1>0, <1>8, <1>9, <1>10, CalmStill DEF Controls

LEMMA CalmRecover ==
  ASSUME IInv, Base, Calm, CalmBody, NEW d \in Drivers, Controls(d), Recover(d),
         driver'[d].pc = "call" => work'[d] = Started(driver'[d].at, task'[driver'[d].at].attempts)
  PROVE  CalmBody'
<1>0. TypeOK /\ DriverOK(d) /\ TaskInv /\ Known
  BY DEF IInv, DriverInv, Known
<1>1. driver[d].pc = "recover" /\ approval' = approval
  BY DEF Recover
<1>2. CASE driver[d].todo = {}
  <2>1. Goto(d, "blocked", WithStatus("blocked")) /\ task' = task
    BY <1>2 DEF Recover
  <2>2. "blocked" \in PC /\ WithStatus("blocked") \in SUBSET Tasks
    BY DEF PC, Sync, WithStatus
  <2>3. driver'[d].pc = "blocked"
    BY <1>0, <2>1, <2>2, GotoFields
  <2> QED  BY <1>0, <1>1, <2>1, <2>3, CalmStops
<1>3. CASE driver[d].todo # {}
  <2>1. PICK t \in Tasks : t = First(driver[d].todo) /\ t \in driver[d].todo
    BY <1>0, <1>3, TodoFields
  <2> DEFINE n == driver[d].view[t].claim
  <2>2. RecoverUnclaimed(d, t) \/ RecoverFinished(d, t) \/ RecoverResume(d, t) \/ RecoverRefused(d, t)
    BY <1>3, <2>1 DEF Recover
  <2>3. CalmTask(t) /\ CalmTodo(d)
    BY Plan DEF CalmBody
  <2>4. \/ task[t].status = "completed" /\ t # Release
        \/ Owned(t, n)
    BY <1>1, <2>1, <2>3 DEF CalmTodo, InLoop, Holds
  <2>5. CASE task' = task /\ Raise(d)
    <3>1. driver'[d].pc \in Ended
      BY <1>0, <2>5, StopFields
    <3> QED  BY <1>0, <1>1, <2>5, <3>1, CalmStops DEF Ended
  <2>6. CASE RecoverUnclaimed(d, t)
    <3>1. task[t].status = "completed"
      BY <2>4, <2>6 DEF RecoverUnclaimed, Owned
    <3>2. ~CanBecome(t, "blocked")
      BY <3>1 DEF CanBecome, TaskTransitions
    <3> QED  BY <2>5, <2>6, <3>2 DEF RecoverUnclaimed
  <2>7. CASE RecoverFinished(d, t)
    <3>1. CASE Owned(t, n) /\ Complete(t) /\ Done(d)
      <4>1. task[t].status = "running"
        BY <3>1 DEF Owned
      <4>2. (\A u \in Tasks \ {t} : Alike(u)) /\ KeepsHold(t) /\ CalmTask(t)'
        BY <1>0, <1>1, <2>3, <3>1, <4>1, CalmCompletes
      <4>3. CalmTodo(d)' /\ CalmCall(d)'
        BY <1>0, <1>1, <2>1, <3>1, <4>2, CalmDone
      <4> QED  BY <1>0, <1>1, <4>2, <4>3, CalmFrame DEF Controls
    <3> QED  BY <2>5, <2>7, <3>1 DEF RecoverFinished
  <2>8. CASE RecoverResume(d, t)
    <3>1. Dispatch(d, t, n, "recover") /\ task' = task
      BY <2>8 DEF RecoverResume
    <3>2. n \in 0..MaxAttempts
      BY <1>0, DriverFields DEF View
    <3> HIDE DEF n
    <3>3. driver'[d].pc = "call" /\ driver'[d].at = t
      BY <1>0, <3>1, <3>2, DispatchFields
    <3>4. work'[d] = Started(t, task[t].attempts)
      BY <3>1, <3>3
    <3>5. Policy[t] # "deny"
      BY <2>8 DEF RecoverResume, MayResume
    <3> QED  BY <1>1, <2>1, <2>8, <3>4, <3>5, CalmResume
  <2>9. CASE RecoverRefused(d, t)
    <3>1. ~MayResume(d, t)
      BY <2>9 DEF RecoverRefused, Unresumable
    <3>2. Policy[t] # "allow"
      BY <3>1 DEF MayResume
    <3>3. t # "private-upload-policy"
      BY <2>3, <2>4 DEF CalmTask, Owned
    <3>4. t = Release
      <4>1. Policy[t] \in {"allow", "deny", "approve"}
        BY TaskGraph
      <4> QED  BY <3>2, <3>3, <4>1, Policies, Plan
    <3>5. driver[d].view[t].approved
      BY <1>1, <2>1, <2>3, <3>4 DEF CalmTodo
    <3>6. approval[t][n] = "approved" /\ n # 0
      BY <1>0, <3>5 DEF DriverOK, TrueView
    <3>7. n \in Attempt
      BY <1>0, <3>6, DriverFields, NaturalLimits DEF View, Attempt
    <3>8. <<t, n>> \notin expired
      BY <3>4, <3>6, <3>7 DEF Calm, Lapsed, Release
    <3> QED  BY <3>1, <3>4, <3>5, <3>8, ReleaseFields DEF MayResume, ValidApproval
  <2> QED  BY <2>2, <2>6, <2>7, <2>8, <2>9
<1> QED  BY <1>2, <1>3

\* A task found READY is claimed and started.
LEMMA CalmClaim ==
  ASSUME IInv, Base, CalmBody, NEW d \in Drivers, Controls(d), driver[d].pc = "ready",
         NEW t \in Tasks, t \in driver[d].todo, ClaimAndDispatch(d, t), Policy[t] = "allow",
         driver'[d].pc = "call" => work'[d] = Started(driver'[d].at, task'[driver'[d].at].attempts)
  PROVE  CalmBody'
<1>0. TypeOK /\ TaskInv /\ DriverOK(d) /\ StoreInv
  BY DEF IInv, DriverInv, Base
<1>1. PICK n : n = task[t].attempts + 1
  OBVIOUS
<1>2. CanClaim(t) /\ task' = [task EXCEPT ![t] = Claimed(t, "running", task[t].link)] /\ Dispatch(d, t, n, "ready")
      /\ approval' = approval
  BY <1>0, <1>1 DEF ClaimAndDispatch, Claimed, TypeOK
<1>3. /\ n \in Attempt /\ task'[t].attempts = n /\ task'[t].claim = n /\ task'[t].status = "running"
      /\ \A u \in Tasks \ {t} : task'[u] = task[u]
  BY <1>0, <1>1, <1>2, ClaimedChanges
<1>4. n # 0 /\ n \in 0..MaxAttempts
  BY <1>3, NaturalLimits DEF Attempt
<1>5. t # Release /\ t # "private-upload-policy"
  BY ReleaseFields
<1>6. /\ driver'[d].pc = "call" /\ driver'[d].at = t /\ driver'[d].via = "ready" /\ driver'[d].todo = driver[d].todo \ {t}
      /\ driver'[d].view[t] = [Blank EXCEPT !.claim = n]
  BY <1>0, <1>2, <1>4, DispatchFields
<1>7. driver'[d].view[t].claim = n
  BY <1>6 DEF Blank
<1>8. /\ work'[d].at \in {"model", "write", "fail"}
      /\ work'[d].at = "fail" <=> n = 1 /\ t = Injected
  <2>1. task[t].status # "pending" /\ t \in TaskKeys
    BY <1>2, Plan DEF CanClaim
  <2>2. Reads(t, TRUE) \subseteq listed
    BY <1>0, <2>1, InputsThere
  <2>3. work'[d] = Started(t, n)
    BY <1>3, <1>6
  <2>4. /\ Started(t, n).at \in {"model", "write", "fail"}
        /\ Started(t, n).at = "fail" <=> n = 1 /\ t = Injected
    BY <1>5, <2>1, <2>2, StartedOK
  <2> QED  BY <2>3, <2>4
<1>9. CalmTask(t) /\ CalmTodo(d)
  BY Plan DEF CalmBody
<1>10. CalmTask(t)'
  <2>1. \A m \in Attempt : approval'[t][m] # "pending"
    BY <1>2, <1>9 DEF CalmTask, CanClaim
  <2>2. n = 1 /\ t = Injected => \E e \in Drivers : work'[e].at = "fail" /\ driver'[e].at = t
    BY <1>6, <1>8
  <2> QED  BY <1>3, <1>4, <1>5, <2>1, <2>2 DEF CalmTask
<1>11. \A u \in Tasks \ {t} : Alike(u)
  BY <1>2, <1>3 DEF Alike, KeepsClaim
<1>12. KeepsHold(t)
  BY <1>2 DEF KeepsHold, CanClaim
<1>13. CalmTodo(d)'
  <2>1. Release \notin driver[d].todo
    BY <1>5, <1>9 DEF CalmTodo
  <2> QED  BY <1>6, <2>1 DEF CalmTodo, InLoop
<1>14. CalmCall(d)'
  BY <1>3, <1>4, <1>6, <1>7, <1>8 DEF CalmCall, Holds, Owned
<1> QED  BY <1>0, <1>10, <1>11, <1>12, <1>13, <1>14, CalmFrame DEF Controls

\* The release is put to the Founder.
LEMMA CalmAsk ==
  ASSUME IInv, CalmBody, NEW d \in Drivers, Controls(d), driver[d].pc = "ready",
         NEW t \in Tasks, t = First(driver[d].todo), t \in driver[d].todo, AskApproval(d, t), t = Release
  PROVE  CalmBody'
<1>0. TypeOK
  BY DEF IInv
<1>1. PICK n : n = task[t].attempts + 1
  OBVIOUS
<1>2. CanClaim(t) /\ task' = [task EXCEPT ![t] = Claimed(t, "waiting_approval", n)] /\ Done(d)
      /\ approval' = [approval EXCEPT ![t][n] = "pending"]
  BY <1>0, <1>1 DEF AskApproval, Claimed, TypeOK
<1>3. /\ n \in Attempt /\ task'[t].attempts = n /\ task'[t].claim = n /\ task'[t].status = "waiting_approval"
      /\ task'[t].link = n /\ \A u \in Tasks \ {t} : task'[u] = task[u]
  BY <1>0, <1>1, <1>2, ClaimedChanges
<1>4. /\ \A u \in Tasks \ {t} : approval'[u] = approval[u]
      /\ \A m \in Attempt \ {n} : approval'[t][m] = approval[t][m]
  BY <1>0, <1>2 DEF TypeOK
<1>5. \A u \in Tasks \ {t} : Alike(u)
  BY <1>3, <1>4 DEF Alike, KeepsClaim
<1>6. CalmTask(t) /\ task[t].status = "ready"
  BY <1>2, Plan DEF CalmBody, CanClaim
<1>7. \A m \in Attempt : approval[t][m] # "pending"
  BY <1>6 DEF CalmTask
<1>8. CalmTask(t)'
  BY <1>3, <1>4, <1>7, ReleaseFields DEF CalmTask
<1>9. KeepsHold(t)
  BY <1>6 DEF KeepsHold
<1>10. CalmTodo(d)' /\ CalmCall(d)'
  BY <1>0, <1>2, <1>5, CalmDone
<1> QED  BY <1>0, <1>5, <1>8, <1>9, <1>10, CalmFrame DEF Controls

LEMMA CalmReady ==
  ASSUME IInv, Base, CalmBody, NEW d \in Drivers, Controls(d), Ready(d),
         driver'[d].pc = "call" => work'[d] = Started(driver'[d].at, task'[driver'[d].at].attempts)
  PROVE  CalmBody'
<1>0. TypeOK
  BY DEF IInv
<1>1. driver[d].pc = "ready"
  BY DEF Ready
<1>2. CASE driver[d].todo = {}
  <2>1. Goto(d, "settle", {}) /\ UNCHANGED <<task, approval>>
    BY <1>2 DEF Ready
  <2>2. "settle" \in PC /\ {} \in SUBSET Tasks
    BY DEF PC, Sync
  <2>3. driver'[d].pc = "settle"
    BY <1>0, <2>1, <2>2, GotoFields
  <2> QED  BY <1>0, <1>1, <2>1, <2>3, CalmStops
<1>3. CASE driver[d].todo # {}
  <2>1. PICK t \in Tasks : t = First(driver[d].todo) /\ t \in driver[d].todo
    BY <1>0, <1>3, TodoFields
  <2>2. \/ Deny(d, t) \/ AskApproval(d, t) \/ AskAgain(d, t) \/ AskRefused(d, t)
        \/ ClaimAndDispatch(d, t) \/ ClaimRefused(d, t)
    BY <1>3, <2>1 DEF Ready
  <2>3. CalmTask(t) /\ CalmTodo(d)
    BY Plan DEF CalmBody
  <2>4. (Policy[t] = "approve" <=> t = Release) /\ (Policy[t] = "deny" <=> t = "private-upload-policy")
    BY Policies, Plan
  <2>5. t = Release => task[t].status = "ready" /\ ~driver[d].view[t].approved
    BY <1>1, <2>1, <2>3 DEF CalmTodo
  <2>6. task[t].status = "ready" => CanClaim(t) /\ \A n \in Attempt : approval[t][n] # "pending"
    BY <2>3 DEF CalmTask, CanClaim
  <2>7. CASE task' = task /\ approval' = approval /\ (Raise(d) \/ Done(d))
    <3>1. CASE Raise(d)
      <4>1. driver'[d].pc \in Ended
        BY <1>0, <3>1, StopFields
      <4> QED  BY <1>0, <1>1, <2>7, <4>1, CalmStops DEF Ended
    <3>2. CASE Done(d)
      <4>1. \A u \in Tasks : Alike(u)
        BY <2>7, SameTasks
      <4>2. CalmTodo(d)' /\ CalmCall(d)'
        BY <1>0, <1>1, <2>1, <3>2, <4>1, CalmDone
      <4> QED  BY <1>0, <1>1, <4>1, <4>2, CalmStill DEF Controls
    <3> QED  BY <2>7, <3>1, <3>2
  <2>8. CASE Deny(d, t)
    <3>1. t = "private-upload-policy" /\ approval' = approval /\ t \in ExpectedDenied
      BY <2>4, <2>8, Plan DEF Deny
    <3>2. CASE SetStatus(t, "cancelled") /\ Done(d)
      <4>1. /\ task'[t].status = "cancelled" /\ KeepsClaim(t) /\ (\A u \in Tasks \ {t} : Alike(u))
            /\ \A n \in Attempt : approval'[t][n] = approval[t][n]
        BY <1>0, <3>1, <3>2, StatusOf DEF TaskStatus
      <4>2. task[t].status \in {"pending", "ready", "cancelled"} /\ \A n \in Attempt : approval[t][n] # "pending"
        BY <2>3, <3>1 DEF CalmTask
      <4>3. CalmTask(t)' /\ KeepsHold(t)
        BY <4>1, <4>2 DEF CalmTask, KeepsHold
      <4>4. CalmTodo(d)' /\ CalmCall(d)'
        BY <1>0, <1>1, <2>1, <3>2, <4>1, CalmDone
      <4> QED  BY <1>0, <1>1, <4>1, <4>3, <4>4, CalmFrame DEF Controls
    <3> QED  BY <2>7, <2>8, <3>1, <3>2 DEF Deny, Close
  <2>9. CASE AskApproval(d, t)
    <3>1. t = Release
      BY <2>4, <2>9 DEF AskApproval, NeedsApproval
    <3> QED  BY <1>1, <2>1, <2>9, <3>1, CalmAsk
  <2>10. ~AskAgain(d, t)
    <3> SUFFICES ASSUME AskAgain(d, t) PROVE FALSE
      OBVIOUS
    <3>1. CanClaim(t) /\ task[t].link # 0 /\ approval[t][task[t].link] = "pending"
      BY DEF AskAgain, AwaitsDecision
    <3>2. task[t].link \in Attempt
      BY <1>0, <3>1, TaskFields, NaturalLimits DEF Attempt
    <3> QED  BY <2>6, <3>1, <3>2 DEF CanClaim
  <2>11. ~AskRefused(d, t)
    BY <2>4, <2>5, <2>6 DEF AskRefused, NeedsApproval
  <2>12. Executes(d, t) => Policy[t] = "allow"
    BY <2>4, <2>5 DEF Executes, ValidApproval
  <2>13. CASE ClaimAndDispatch(d, t)
    <3>1. Policy[t] = "allow"
      BY <2>12, <2>13 DEF ClaimAndDispatch
    <3> QED  BY <1>1, <2>1, <2>13, <3>1, CalmClaim
  <2>14. CASE ClaimRefused(d, t)
    <3>1. task' = task /\ approval' = approval /\ Done(d)
      BY <2>6, <2>14 DEF ClaimRefused
    <3> QED  BY <2>7, <3>1
  <2> QED  BY <2>2, <2>8, <2>9, <2>10, <2>11, <2>13, <2>14
<1> QED  BY <1>2, <1>3

\* The driver goes back to its loop.
LEMMA CalmBack ==
  ASSUME TypeOK, CalmBody, NEW d \in Drivers, DriverOK(d), driver[d].pc \in {"call", "returned"},
         driver' = [driver EXCEPT ![d] = Back(d)], work'[d].at = "none", \A u \in Tasks \ {driver[d].at} : Alike(u)
  PROVE  CalmTodo(d)' /\ CalmCall(d)'
<1>1. /\ driver'[d].pc = driver[d].via /\ driver'[d].todo = driver[d].todo
      /\ \A u \in Tasks \ {driver[d].at} : driver'[d].view[u] = driver[d].view[u]
  BY BackFields
<1>2. CalmTodo(d) /\ driver[d].todo \subseteq Tasks /\ driver[d].via \in {"recover", "ready"}
  BY DriverFields DEF CalmBody
<1>3. Release \notin driver'[d].todo /\ driver[d].at \notin driver'[d].todo
  BY <1>1, <1>2 DEF CalmTodo, DriverOK
<1>4. ASSUME driver[d].via = "recover", NEW u \in driver'[d].todo
      PROVE  \/ task'[u].status = "completed" /\ u # Release
             \/ Holds(u, driver[d].view[u].claim)'
  <2>1. u \in driver[d].todo /\ u # Release /\ u # driver[d].at /\ u \in Tasks
    BY <1>1, <1>2, <1>3
  <2>2. task[u].status = "completed" \/ Holds(u, driver[d].view[u].claim)
    BY <1>2, <1>4, <2>1 DEF CalmTodo, InLoop
  <2>3. driver'[d].view[u] = driver[d].view[u] /\ Alike(u)
    BY <1>1, <2>1
  <2> QED  BY <2>1, <2>2, <2>3 DEF Holds, Owned, Alike, KeepsClaim
<1>5. CalmCall(d)'
  BY <1>1, <1>2 DEF CalmCall
<1> QED  BY <1>1, <1>2, <1>3, <1>4, <1>5 DEF CalmTodo, InLoop

\* The claim has passed: somebody else has completed the task.
LEMMA CalmPassed ==
  ASSUME TypeOK, CalmBody, NEW d \in Drivers, DriverOK(d), driver[d].pc \in {"call", "returned"},
         Acts(d), stored' = stored, approval' = approval, work'[d].at = "none",
         NEW t \in Tasks, t = driver[d].at, task[t].status = "completed", Unowned(d, t, task)
  PROVE  CalmBody'
<1>1. task' = task /\ (Raise(d) \/ driver' = [driver EXCEPT ![d] = Back(d)])
  BY DEF Unowned
<1>2. \A u \in Tasks : Alike(u)
  BY <1>1, SameTasks
<1>3. CalmTodo(d)' /\ CalmCall(d)'
  <2>1. CASE Raise(d)
    <3>1. driver'[d].pc \in Ended
      BY <2>1, StopFields
    <3> QED  BY <3>1, CalmIdle DEF Ended
  <2>2. CASE driver' = [driver EXCEPT ![d] = Back(d)]
    BY <1>2, <2>2, CalmBack
  <2> QED  BY <1>1, <2>1, <2>2
<1> QED  BY <1>2, <1>3, CalmStill

LEMMA CalmReturn ==
  ASSUME IInv, CalmBody, NEW d \in Drivers, Controls(d), CompleteClaimed(d), driver'[d].pc # "call"
  PROVE  CalmBody'
<1>0. TypeOK /\ DriverOK(d)
  BY DEF IInv, DriverInv
<1>1. PICK t \in Tasks : t = driver[d].at
  BY <1>0, DriverFields
<1>2. PICK n : n = driver[d].view[t].claim
  OBVIOUS
<1>3. driver[d].pc = "returned" /\ approval' = approval /\ work'[d].at = "none"
  BY DEF CompleteClaimed, Controls
<1>4. CalmTask(t) /\ (task[t].status = "completed" \/ Holds(t, n))
  BY <1>1, <1>2, <1>3, Plan DEF CalmBody, CalmCall
<1>5. CASE Owned(t, n)
  <2>1. Complete(t) /\ driver' = [driver EXCEPT ![d] = Back(d)]
    BY <1>1, <1>2, <1>5 DEF CompleteClaimed
  <2>2. (\A u \in Tasks \ {t} : Alike(u)) /\ KeepsHold(t) /\ CalmTask(t)' /\ task'[t].status = "completed"
    BY <1>0, <1>3, <1>4, <1>5, <2>1, CalmCompletes DEF Owned
  <2>3. CalmTodo(d)' /\ CalmCall(d)'
    BY <1>0, <1>1, <1>3, <2>1, <2>2, CalmBack
  <2> QED  BY <1>0, <1>1, <2>2, <2>3, CalmFrame DEF Controls
<1>6. CASE ~Owned(t, n)
  <2>1. Unowned(d, t, task) /\ task[t].status = "completed"
    BY <1>1, <1>2, <1>4, <1>6 DEF CompleteClaimed, Holds
  <2> QED  BY <1>0, <1>1, <1>3, <2>1, CalmPassed DEF Controls
<1> QED  BY <1>5, <1>6

LEMMA CalmFail ==
  ASSUME IInv, Base, Calm, CalmBody, NEW d \in Drivers, Fail(d)
  PROVE  CalmBody'
<1>0. TypeOK /\ DriverOK(d) /\ ClaimIsCurrent /\ InsuranceTypeOK
  BY DEF IInv, DriverInv, Base
<1>1. PICK t \in Tasks : t = driver[d].at
  BY <1>0, DriverFields
<1>2. PICK n : n = driver[d].view[t].claim
  OBVIOUS
<1>3. work[d].at = "fail" /\ CallFails(d, NoContent) /\ work'[d].at = "none" /\ stored' = stored
  BY <1>0, NoWorkFields DEF Fail, files, InsuranceTypeOK
<1>4. Acts(d)
  BY OneWorks DEF Acts
<1>5. /\ Resumed(d) /\ approval' = approval
      /\ \/ Owned(t, n) /\ RecordFailure(t) /\ driver' = [driver EXCEPT ![d] = Back(d)]
         \/ ~Owned(t, n) /\ Unowned(d, t, task)
  BY <1>0, <1>1, <1>2, <1>3, FailCases
<1>6. driver[d].pc = "call"
  BY <1>5 DEF Resumed
<1>7. CalmTask(t) /\ (task[t].status = "completed" \/ (t = Injected /\ n = 1 /\ Owned(t, n)))
  BY <1>1, <1>2, <1>3, Plan DEF CalmBody, CalmCall
<1>8. CASE Owned(t, n)
  <2>1. t = Injected /\ n = 1 /\ task[t].status = "running" /\ task[t].claim = 1 /\ task[t].attempts = 1
    BY <1>0, <1>7, <1>8 DEF Owned, ClaimIsCurrent
  <2>2. MaxAttempts > 1 /\ 1 \in Attempt
    BY <2>1, Plan, NaturalLimits DEF Calm, InjectionIsSpared, Attempt
  <2> DEFINE r == FailedAttempt(t, 1)
  <2>3. r.status = "blocked" /\ r.claim = 0 /\ r.attempts = 1 /\ r.link = task[t].link
    <3>1. ~(1 >= MaxAttempts)
      BY <2>2, NaturalLimits
    <3>2. r = [task[t] EXCEPT !.status = "blocked", !.claim = 0, !.attempts = 1]
      BY <3>1, Zenon DEF FailedAttempt
    <3> HIDE DEF r
    <3> QED  BY <1>0, <3>2, TaskFields DEF TaskRecord
  <2>4. task' = [task EXCEPT ![t] = r]
    BY <1>5, <1>8, <2>1 DEF RecordFailure
  <2> HIDE DEF r
  <2>5. task'[t] = r /\ \A u \in Tasks \ {t} : task'[u] = task[u]
    BY <1>0, <2>4 DEF TypeOK
  <2>6. \A u \in Tasks \ {t} : Alike(u)
    BY <1>5, <2>5 DEF Alike, KeepsClaim
  <2>7. KeepsHold(t)
    BY <2>1 DEF KeepsHold
  <2>8. CalmTask(t)'
    BY <1>5, <1>7, <2>1, <2>2, <2>3, <2>5 DEF CalmTask
  <2>9. CalmTodo(d)' /\ CalmCall(d)'
    BY <1>0, <1>1, <1>3, <1>5, <1>6, <1>8, <2>6, CalmBack
  <2> QED  BY <1>0, <1>1, <1>3, <1>4, <1>6, <2>6, <2>7, <2>8, <2>9, CalmFrame
<1>9. CASE ~Owned(t, n)
  BY <1>0, <1>1, <1>3, <1>4, <1>5, <1>6, <1>7, <1>9, CalmPassed
<1> QED  BY <1>8, <1>9

LEMMA CalmControl ==
  ASSUME IInv, Base, Calm, CalmBody, NEW d \in Drivers, Control(d)
  PROVE  CalmBody'
<1>1. Controls(d)
  BY ControlActs DEF Controls
<1>2. driver'[d].pc = "call" => work'[d] = Started(driver'[d].at, task'[driver'[d].at].attempts)
  <2> DEFINE r == Started(driver'[d].at, task'[driver'[d].at].attempts)
  <2>1. driver'[d].pc = "call" => work' = [work EXCEPT ![d] = r]
    BY DEF Control
  <2> HIDE DEF r
  <2>2. driver'[d].pc = "call" => work'[d] = r
    BY <2>1 DEF Base, InsuranceTypeOK
  <2> QED  BY <2>2 DEF r
<1>3. CASE CompleteClaimed(d)
  <2>1. TypeOK /\ driver[d].via \in {"recover", "ready"}
    BY DriverFields DEF IInv
  <2>2. driver'[d].pc # "call"
    <3>1. CASE Raise(d)
      <4>1. driver'[d].pc \in Ended
        BY <2>1, <3>1, StopFields
      <4> QED  BY <4>1 DEF Ended
    <3>2. CASE driver' = [driver EXCEPT ![d] = Back(d)]
      <4>1. driver'[d].pc = driver[d].via
        BY <2>1, <3>2, BackFields
      <4> QED  BY <2>1, <4>1
    <3> QED  BY <1>3, <3>1, <3>2 DEF CompleteClaimed, Unowned
  <2> QED  BY <1>1, <1>3, <2>2, CalmReturn
<1> QED  BY <1>1, <1>2, <1>3, CalmEnterSettle, CalmBlockedActivate, CalmRecover, CalmReady DEF Control

(***************************************************************************)
(* As long as no crash and no Founder interferes: steps of the adapter.     *)
(***************************************************************************)
\* The driver keeps its place; no task changes but that its outputs may be there.
LEMMA CalmKeeps ==
  ASSUME TypeOK, CalmBody, NEW d \in Drivers, Acts(d), \A u \in Tasks : Alike(u), Settled',
         driver'[d].todo = driver[d].todo, driver'[d].view = driver[d].view,
         driver'[d].at = driver[d].at, driver'[d].via = driver[d].via,
         driver[d].pc \in {"call", "returned"}, driver'[d].pc \in {driver[d].pc, "returned"},
         work[d].at \in {"model", "write", "register", "mark"},
         work'[d].at = "fail" => task[driver[d].at].status = "completed"
  PROVE  CalmBody'
<1>1. \A u \in Tasks : CalmTask(u)'
  <2>1. ASSUME NEW u \in Tasks PROVE CalmTask(u)'
    <3>1. CalmTask(u) /\ Alike(u)
      BY Plan DEF CalmBody
    <3> QED  BY <3>1, CalmTaskStays
  <2> QED  BY <2>1
<1>2. \A e \in Drivers \ {d} : CalmTodo(e)' /\ CalmCall(e)'
  <2>1. ASSUME NEW e \in Drivers \ {d} PROVE CalmTodo(e)' /\ CalmCall(e)'
    <3>1. CalmTodo(e) /\ CalmCall(e) /\ \A u \in Tasks : KeepsHold(u)
      BY DEF CalmBody, Alike, KeepsHold, KeepsClaim
    <3> QED  BY <3>1, OtherStays
  <2> QED  BY <2>1
<1>3. CalmTodo(d)'
  <2>1. CalmTodo(d) /\ driver[d].todo \subseteq Tasks
    BY DriverFields DEF CalmBody
  <2>2. Release \notin driver[d].todo
    BY <2>1 DEF CalmTodo
  <2>3. ASSUME driver[d].via = "recover", NEW u \in driver[d].todo
        PROVE  \/ task'[u].status = "completed" /\ u # Release
               \/ Holds(u, driver[d].view[u].claim)'
    <3>1. task[u].status = "completed" \/ Holds(u, driver[d].view[u].claim)
      BY <2>1, <2>2, <2>3 DEF CalmTodo, InLoop
    <3>2. Alike(u) /\ u # Release
      BY <2>1, <2>2
    <3> QED  BY <3>1, <3>2 DEF Holds, Owned, Alike, KeepsClaim
  <2> QED  BY <2>2, <2>3 DEF CalmTodo, InLoop
<1>4. CalmCall(d)'
  <2>1. PICK t \in Tasks : t = driver[d].at
    BY DriverFields
  <2>2. PICK n : n = driver[d].view[t].claim
    OBVIOUS
  <2>3. task[t].status = "completed" \/ Holds(t, n)
    BY <2>1, <2>2 DEF CalmBody, CalmCall
  <2>4. task'[t].status = "completed" \/ Holds(t, n)'
    BY <2>3 DEF Alike, KeepsClaim, Holds, Owned
  <2>5. work'[d].at = "fail" => task'[t].status = "completed"
    BY <2>1 DEF Alike
  <2>6. driver'[d].at = t /\ driver'[d].view[t].claim = n
    BY <2>1, <2>2
  <2> QED  BY <2>4, <2>5, <2>6 DEF CalmCall
<1> QED  BY <1>1, <1>2, <1>3, <1>4, Plan DEF CalmBody

\* The same, where nothing changes in the Controller.
LEMMA CalmAdapts ==
  ASSUME IInv, Base, CalmBody, NEW d \in Drivers, UNCHANGED vars, \A e \in Drivers \ {d} : work'[e] = work[e],
         \A e \in Drivers \ {d} : ~Busy(e), Settled',
         work[d].at \in {"model", "write", "register", "mark"},
         work'[d].at = "fail" => task[driver[d].at].status = "completed"
  PROVE  CalmBody'
<1>1. UNCHANGED <<task, approval, driver>> /\ OthersStay(d)
  BY VarsStay
<1>2. TypeOK /\ InsuranceTypeOK /\ WorkInv
  BY DEF IInv, Base
<1>3. driver[d].pc \in {"call", "returned"}
  BY <1>2, AtWork
<1>4. \A u \in Tasks : Alike(u)
  BY <1>1, SameTasks
<1> QED  BY <1>1, <1>2, <1>3, <1>4, CalmKeeps DEF Acts

LEMMA SameSettled ==
  ASSUME CalmBody, NEW d \in Drivers, Acts(d), stored' = stored, \A u \in Tasks : Alike(u),
         \A t \in TaskKeys : \A s \in SlotsOf(t) :
           FinishesBy(d, t, s) => task[t].status = "completed" \/ FinishesBy(d, t, s)'
  PROVE  Settled'
<1>1. \A t \in TaskKeys : task'[t].status = task[t].status
  BY Plan DEF Alike
<1>2. Settled
  BY DEF CalmBody
<1> QED  BY <1>1, <1>2, SettledStays

LEMMA CalmAnswer ==
  ASSUME IInv, Base, CalmBody, NEW d \in Drivers, Answers(d)
  PROVE  CalmBody'
<1>1. /\ UNCHANGED vars /\ stored' = stored /\ Free /\ Quiet /\ work[d].at = "model" /\ driver[d].pc = "call"
      /\ (\A e \in Drivers \ {d} : work'[e] = work[e]) /\ work'[d].at = "write"
  BY AnswerStep DEF files
<1>2. \A e \in Drivers \ {d} : ~Busy(e)
  BY <1>1, NobodyBusy DEF IInv, Base
<1>3. UNCHANGED <<task, approval>> /\ OthersStay(d)
  BY <1>1, VarsStay
<1>4. \A u \in Tasks : Alike(u)
  BY <1>3, SameTasks
<1>5. \A t, s : ~FinishesBy(d, t, s)
  BY <1>1 DEF FinishesBy
<1>6. Settled'
  BY <1>1, <1>2, <1>3, <1>4, <1>5, SameSettled DEF Acts
<1> QED  BY <1>1, <1>2, <1>6, CalmAdapts

LEMMA CalmWrite ==
  ASSUME IInv, Base, CalmBody, NEW d \in Drivers, Write(d)
  PROVE  CalmBody'
<1>1. /\ UNCHANGED vars /\ work[d].at = "write" /\ \A e \in Drivers \ {d} : work'[e] = work[e]
      /\ work'[d].todo = work[d].todo
      /\ IF Agrees(d)
         THEN work'[d].at = "register" /\ stored' = [stored EXCEPT ![Head(work[d].todo)] = work[d].say]
         ELSE work'[d].at = "fail" /\ stored' = stored
  BY WriteStep
<1>2. PICK t \in TaskKeys : t = driver[d].at
  BY <1>1, AtHand
<1>3. PICK todo : todo = work[d].todo
  OBVIOUS
<1>4. /\ t # "private-upload-policy" /\ todo \in Left(t) /\ Head(todo) \in SlotsOf(t)
      /\ driver[d].pc = "call" /\ \A e \in Drivers \ {d} : ~Busy(e)
  BY <1>1, <1>2, <1>3, AtHand
<1>5. PICK x \in SlotsOf(t) : x = Head(todo)
  BY <1>4
<1>6. Len(todo) \in 1..3 /\ x = todo[1] /\ \A i \in 2..Len(todo) : todo[i] # x
  BY <1>4, <1>5, LeftFields
<1>7. UNCHANGED <<task, approval, driver>> /\ OthersStay(d) /\ Acts(d)
  BY <1>1, <1>4, VarsStay DEF Acts
<1>8. \A u \in Tasks : Alike(u)
  BY <1>7, SameTasks
<1>9. Unwritten(work[d]) = {todo[i] : i \in 1..Len(todo)} /\ x \in Unwritten(work[d])
  BY <1>1, <1>3, <1>6 DEF Unwritten
<1>10. Settled /\ TypeOK /\ InsuranceTypeOK
  BY DEF CalmBody, IInv, Base
<1>11. CASE Agrees(d)
  <2>1. work'[d].at = "register" /\ \A s \in Slots \ {x} : stored'[s] = stored[s]
    BY <1>1, <1>3, <1>5, <1>10, <1>11 DEF InsuranceTypeOK
  <2>2. Unwritten(work'[d]) = {todo[i] : i \in 2..Len(todo)}
    BY <1>1, <1>3, <2>1 DEF Unwritten
  <2>3. x \notin Unwritten(work'[d]) /\ Unwritten(work'[d]) \subseteq Unwritten(work[d])
    BY <1>6, <1>9, <2>2
  <2>4. ASSUME NEW u \in TaskKeys, NEW s \in SlotsOf(u), stored'[s] # None
        PROVE  task'[u].status = "completed" \/ Finishing(u, s)'
    <3>1. CASE s = x
      <4>1. u = t
        BY <3>1, SlotsDiffer
      <4>2. driver'[d].at = u
        BY <1>2, <1>7, <4>1
      <4> QED  BY <2>1, <2>3, <3>1, <4>2 DEF Finishing
    <3>2. CASE s # x
      <4>1. stored[s] # None
        BY <2>1, <2>4, <3>2, AllSlots
      <4>2. task[u].status = "completed" \/ FinishesBy(d, u, s)
        BY <1>7, <1>10, <4>1, WhoFinishes DEF Settled
      <4>3. ASSUME FinishesBy(d, u, s) PROVE Finishing(u, s)'
        <5>1. driver'[d].at = u /\ s \notin Unwritten(work[d])
          BY <1>7, <4>3 DEF FinishesBy
        <5> QED  BY <2>1, <2>3, <5>1 DEF Finishing
      <4> QED  BY <1>7, <4>2, <4>3
    <3> QED  BY <3>1, <3>2
  <2>5. Settled'
    BY <2>4 DEF Settled
  <2> QED  BY <1>1, <1>4, <2>1, <2>5, CalmAdapts
<1>12. CASE ~Agrees(d)
  <2>1. work'[d].at = "fail" /\ stored' = stored /\ stored[x] # None
    BY <1>1, <1>3, <1>5, <1>12 DEF Agrees
  <2>2. task[t].status = "completed"
    <3>1. ~FinishesBy(d, t, x)
      BY <1>9 DEF FinishesBy
    <3> QED  BY <1>7, <1>10, <2>1, <3>1, WhoFinishes DEF Settled
  <2>3. Settled'
    BY <1>2, <1>7, <1>8, <2>1, <2>2, SameSettled DEF FinishesBy
  <2> QED  BY <1>1, <1>2, <1>4, <2>1, <2>2, <2>3, CalmAdapts
<1> QED  BY <1>11, <1>12

LEMMA CalmRegister ==
  ASSUME IInv, Base, CalmBody, NEW d \in Drivers, Register(d)
  PROVE  CalmBody'
<1>1. /\ stored' = stored /\ work[d].at = "register" /\ \A e \in Drivers \ {d} : work'[e] = work[e]
      /\ IF LastOutput(d)
         THEN work'[d].at = "mark" /\ CallSucceeds(d, "bundle")
         ELSE work'[d].at = "write" /\ work'[d].todo = Tail(work[d].todo) /\ UNCHANGED vars
  BY RegisterStep
<1>2. PICK todo : todo = work[d].todo
  OBVIOUS
<1>3. /\ driver[d].pc = "call" /\ (\A e \in Drivers \ {d} : ~Busy(e))
      /\ \E t \in TaskKeys \ {"private-upload-policy"} : todo \in Left(t)
  BY <1>1, <1>2, AtHand
<1>4. TypeOK
  BY DEF IInv
<1>5. CASE LastOutput(d)
  <2>1. /\ OthersStay(d) /\ driver'[d].pc = "returned" /\ driver'[d].at = driver[d].at
        /\ driver'[d].view = driver[d].view /\ driver'[d].todo = driver[d].todo /\ driver'[d].via = driver[d].via
        /\ (\A u \in Tasks : task'[u].status = task[u].status /\ KeepsClaim(u)) /\ approval' = approval
    BY <1>1, <1>4, <1>5, SucceedFields
  <2>2. (\A u \in Tasks : Alike(u)) /\ Acts(d)
    BY <1>1, <1>3, <2>1 DEF Alike, Acts
  <2>3. Unwritten(work'[d]) = {}
    BY <1>1, <1>5 DEF Unwritten
  <2>4. \A t, s : FinishesBy(d, t, s) => FinishesBy(d, t, s)'
    BY <2>1, <2>3 DEF FinishesBy
  <2>5. Settled'
    BY <1>1, <2>2, <2>4, SameSettled
  <2> QED  BY <1>1, <1>3, <1>4, <1>5, <2>1, <2>2, <2>5, CalmKeeps
<1>6. CASE ~LastOutput(d)
  <2>1. work'[d].at = "write" /\ work'[d].todo = Tail(todo) /\ UNCHANGED vars
    BY <1>1, <1>2, <1>6
  <2>2. Len(todo) \in 1..3 /\ Len(Tail(todo)) = Len(todo) - 1 /\ \A i \in 1..(Len(todo) - 1) : Tail(todo)[i] = todo[i + 1]
    BY <1>3, LeftFields
  <2>3. Unwritten(work'[d]) \subseteq Unwritten(work[d])
    <3>1. Unwritten(work'[d]) = {Tail(todo)[i] : i \in 1..(Len(todo) - 1)}
      BY <2>1, <2>2 DEF Unwritten
    <3>2. Unwritten(work[d]) = {todo[i] : i \in 2..Len(todo)}
      BY <1>1, <1>2 DEF Unwritten
    <3>3. ASSUME NEW i \in 1..(Len(todo) - 1) PROVE Tail(todo)[i] \in {todo[j] : j \in 2..Len(todo)}
      <4>1. Tail(todo)[i] = todo[i + 1] /\ i + 1 \in 2..Len(todo)
        BY <2>2
      <4> QED  BY <4>1
    <3> QED  BY <3>1, <3>2, <3>3
  <2>4. UNCHANGED <<task, approval, driver>> /\ OthersStay(d)
    BY <2>1, VarsStay
  <2>5. (\A u \in Tasks : Alike(u)) /\ Acts(d)
    BY <1>1, <1>3, <2>4, SameTasks DEF Acts
  <2>6. \A t, s : FinishesBy(d, t, s) => FinishesBy(d, t, s)'
    BY <2>1, <2>3, <2>4 DEF FinishesBy
  <2>7. Settled'
    BY <1>1, <2>5, <2>6, SameSettled
  <2> QED  BY <1>1, <1>3, <2>1, <2>7, CalmAdapts
<1> QED  BY <1>5, <1>6

LEMMA CalmMark ==
  ASSUME IInv, Base, CalmBody, NEW d \in Drivers, Mark(d)
  PROVE  CalmBody'
<1>1. UNCHANGED vars /\ stored' = stored /\ work[d].at = "mark" /\ WorkBecomes(d, NoWork) /\ driver[d].pc = "returned"
  BY MarkStep
<1>2. work'[d].at = "none" /\ \A e \in Drivers \ {d} : work'[e] = work[e]
  BY <1>1, NoWorkFields DEF WorkBecomes
<1>3. \A e \in Drivers \ {d} : ~Busy(e)
  BY <1>1, OnlyBusy DEF Busy, Writes, Base
<1>4. UNCHANGED <<task, approval, driver>> /\ OthersStay(d)
  BY <1>1, VarsStay
<1>5. (\A u \in Tasks : Alike(u)) /\ Acts(d)
  BY <1>2, <1>3, <1>4, SameTasks DEF Acts
<1>6. \A t, s : FinishesBy(d, t, s) => FinishesBy(d, t, s)'
  BY <1>1, <1>2, <1>4 DEF FinishesBy, Unwritten
<1>7. Settled'
  BY <1>1, <1>5, <1>6, SameSettled
<1> QED  BY <1>1, <1>2, <1>3, <1>7, CalmAdapts

(***************************************************************************)
(* As long as no crash and no Founder interferes: every step.               *)
(***************************************************************************)
LEMMA CalmRequest ==
  ASSUME IInv, Base, NoPlan, AskedInv, Calm', CalmBody, NEW d \in Drivers, Free, Request(d), UNCHANGED <<files, work>>
  PROVE  CalmBody'
<1>0. TypeOK /\ InsuranceTypeOK /\ WorkInv /\ ClaimIsCurrent
  BY DEF IInv, Base
<1>1. driver[d].pc = "new" /\ driver'[d].pc = "enter" /\ OthersStay(d) /\ Quiet
  BY <1>0, OutOfRequest
<1>2. Acts(d) /\ stored' = stored
  BY <1>0, <1>1, NobodyBusy DEF Acts, files
<1>3. work[d].at = "none" /\ work'[d].at = "none"
  BY <1>0, <1>1, AtWork
<1>4. CalmTodo(d)' /\ CalmCall(d)'
  BY <1>1, <1>3, CalmIdle
<1>5. CASE UNCHANGED <<task, approval>>
  <2>1. \A u \in Tasks : Alike(u)
    BY <1>5, SameTasks
  <2> QED  BY <1>0, <1>1, <1>2, <1>3, <1>4, <2>1, CalmStill
<1>6. ASSUME NEW t \in Tasks, NEW n \in Attempt, NEW decision \in Decision, Resolve(d, t, n, decision) PROVE CalmBody'
  <2>1. /\ approval[t][n] = "pending" /\ approval' = [approval EXCEPT ![t][n] = decision]
        /\ SetStatus(t, Target(decision))
    BY <1>6 DEF Resolve, Resolvable
  <2>2. t = Release
    BY <2>1, Policies, Plan DEF AskedInv, Release
  <2>3. CalmTask(t) /\ task[t].status = "waiting_approval" /\ task[t].link = n
    BY <2>1, Plan DEF CalmBody, CalmTask
  <2>4. /\ approval'[t][n] = decision
        /\ \A m \in Attempt \ {n} : approval'[t][m] = approval[t][m]
        /\ \A u \in Tasks \ {t} : approval'[u] = approval[u]
    BY <1>0, <2>1 DEF TypeOK
  <2>5. decision = "approved"
    BY <2>2, <2>4 DEF Calm, Rejected, Release, Decision
  <2>6. SetStatus(t, "running") /\ "running" \in TaskStatus
    BY <2>1, <2>5 DEF Target, TaskStatus
  <2>7. task'[t].status = "running" /\ KeepsClaim(t) /\ \A u \in Tasks \ {t} : task'[u] = task[u]
    BY <1>0, <2>6, StatusFields
  <2>8. \A u \in Tasks \ {t} : Alike(u)
    BY <2>4, <2>7 DEF Alike, KeepsClaim
  <2>9. KeepsHold(t)
    BY <2>3 DEF KeepsHold
  <2>10. task[t].claim = n /\ n # 0
    BY <1>0, <2>3, NaturalLimits DEF ClaimIsCurrent, Attempt
  <2>11. \A m \in Attempt : approval'[t][m] # "pending"
    BY <2>3, <2>4, <2>5 DEF CalmTask
  <2>12. task'[t].claim = n /\ task'[t].link = n
    BY <2>3, <2>7, <2>10 DEF KeepsClaim
  <2>13. CalmTask(t)'
    BY <2>2, <2>4, <2>5, <2>7, <2>10, <2>11, <2>12, ReleaseFields DEF CalmTask
  <2> QED  BY <1>0, <1>1, <1>2, <1>3, <1>4, <2>8, <2>9, <2>13, CalmFrame
<1>7. \A decision : ~ResolvePlan(d, decision)
  BY DEF ResolvePlan, NoPlan
<1> QED  BY <1>5, <1>6, <1>7 DEF Request, Drive, Decision

LEMMA CalmSame ==
  ASSUME CalmBody, UNCHANGED <<task, approval, driver, work, stored>>
  PROVE  CalmBody'
<1>1. Settled'
  BY DEF CalmBody, Settled, Finishing, Unwritten
<1>2. \A t \in TaskKeys : CalmTask(t)'
  BY DEF CalmBody, CalmTask
<1>3. \A d \in Drivers : CalmTodo(d)' /\ CalmCall(d)'
  BY DEF CalmBody, CalmTodo, CalmCall, Holds, Owned, InLoop
<1> QED  BY <1>1, <1>2, <1>3 DEF CalmBody

\* Crashes and lapses only ever come.
LEMMA NothingComesBack ==
  ASSUME Steady, [InsuranceNext]_insuranceVars
  PROVE  expired \subseteq expired' /\ (IF Die THEN crashes' # 0 ELSE crashes' = crashes)
<1>0. TypeOK /\ IInv /\ Base
  BY DEF Steady, IInv
<1>1. CASE Die
  <2>1. crashes' # 0
    BY <1>0, <1>1, OutOfDie, CrashFields
  <2>2. expired' = expired
    <3>1. ASSUME NEW d, NEW t, TornClaim(d, t) \/ TornAsk(d, t) \/ TornClose(d, t) \/ TornFailure(d, t)
          PROVE  expired' = expired
      BY <3>1 DEF TornClaim, TornAsk, TornClose, TornFailure
    <3>2. ASSUME NEW d, NEW t, NEW n, NEW decision, TornResolve(d, t, n, decision) PROVE expired' = expired
      BY <3>2 DEF TornResolve
    <3> QED  BY <1>1, <3>1, <3>2 DEF Die, Crash, TornControl
  <2> QED  BY <1>1, <2>1, <2>2
<1>2. ASSUME Refuse \/ Lapse \/ UNCHANGED insuranceVars PROVE crashes' = crashes /\ expired \subseteq expired'
  BY <1>2 DEF Refuse, Lapse, Expire, insuranceVars, vars
<1>3. ASSUME NEW d, Request(d) PROVE UNCHANGED <<crashes, expired>>
  BY <1>3 DEF Request, Drive, ResolvePlan, Resolve
<1>4. ASSUME NEW d \in Drivers, Control(d) PROVE UNCHANGED <<crashes, expired>>
  <2>1. Enter(d) \/ Recover(d) \/ Blocked(d) \/ Activate(d) \/ CompleteClaimed(d) \/ Settle(d) => UNCHANGED <<crashes, expired>>
    BY DEF Enter, Recover, Blocked, Activate, CompleteClaimed, Settle
  <2>2. Ready(d) => UNCHANGED <<crashes, expired>>
    BY DEF Ready
  <2> QED  BY <1>4, <2>1, <2>2 DEF Control
<1>5. ASSUME NEW d \in Drivers, Fail(d) PROVE UNCHANGED <<crashes, expired>>
  BY <1>5 DEF Fail, CallFails
<1>6. ASSUME NEW d \in Drivers, Answers(d) \/ Write(d) \/ Register(d) \/ Mark(d) PROVE UNCHANGED <<crashes, expired>>
  <2>1. CallSucceeds(d, "bundle") => UNCHANGED <<crashes, expired>>
    BY DEF CallSucceeds
  <2>2. UNCHANGED vars => UNCHANGED <<crashes, expired>>
    BY DEF vars
  <2> QED  BY <1>0, <1>6, <2>1, <2>2, AnswerStep, WriteStep, RegisterStep, MarkStep
<1> QED  BY <1>1, <1>2, <1>3, <1>4, <1>5, <1>6, InsuranceSteps DEF Execute, Arrive

LEMMA CalmBefore ==
  ASSUME Steady, [InsuranceNext]_insuranceVars, ~Rejected', crashes = 0, ~Lapsed, InjectionIsSpared
  PROVE  Calm
<1>1. ApprovalsChange /\ TypeOK /\ TaskInv
  <2>1. Known /\ LoopInv
    BY DEF Steady, IInv, Known
  <2>2. [Next]_vars
    BY ControllerSteps DEF Steady, IInv
  <2> QED  BY <2>1, <2>2, KnownStep DEF Known
<1>2. \A n \in Attempt : approval[Release][n] = "rejected" => approval'[Release][n] = "rejected"
  BY <1>1, DecisionsStay, ReleaseFields
<1>3. ~Rejected
  BY <1>2 DEF Rejected, Release
<1> QED  BY <1>3 DEF Calm

LEMMA CalmStep ==
  ASSUME Steady, NoPlan, CalmInv, [InsuranceNext]_insuranceVars
  PROVE  CalmInv'
<1> SUFFICES ASSUME Calm' PROVE CalmBody'
  BY DEF CalmInv
<1>0. IInv /\ Base /\ AskedInv /\ FreshInv /\ TypeOK
  BY DEF Steady, IInv
<1>1. crashes' = 0 /\ ~Rejected' /\ ~Lapsed' /\ InjectionIsSpared
  BY DEF Calm
<1>2. ~Die /\ crashes = 0 /\ expired \subseteq expired'
  BY <1>1, NothingComesBack
<1>3. ~Lapsed
  <2>1. ApprovalsChange /\ TaskInv
    <3>1. Known /\ LoopInv
      BY DEF Steady, IInv, Known
    <3>2. [Next]_vars
      BY <1>0, ControllerSteps
    <3> QED  BY <3>1, <3>2, KnownStep DEF Known
  <2>2. \A n \in Attempt : approval[Release][n] = "approved" => approval'[Release][n] = "approved"
    BY <1>0, <2>1, DecisionsStay, ReleaseFields
  <2> QED  BY <1>1, <1>2, <2>2 DEF Lapsed, Release
<1>4. Calm /\ CalmBody
  BY <1>1, <1>2, <1>3, CalmBefore DEF CalmInv
<1>5. CASE Refuse \/ Lapse \/ UNCHANGED insuranceVars
  <2>1. UNCHANGED <<task, approval, driver, work, stored>>
    BY <1>5 DEF Refuse, Lapse, Expire, insuranceVars, vars, files
  <2> QED  BY <1>4, <2>1, CalmSame
<1>6. CASE Execute
  <2>1. Request(Job) /\ UNCHANGED <<files, work>> /\ job.status = "new"
    BY <1>6 DEF Execute
  <2>2. Free
    BY <1>0, <2>1, FreshIsIdle DEF Undecided
  <2> QED  BY <1>0, <1>4, <2>1, <2>2, CalmRequest, JobDrives
<1>7. ASSUME NEW d \in Drivers, Arrive(d) PROVE CalmBody'
  <2>1. Free /\ Request(d) /\ UNCHANGED <<files, work>>
    BY <1>7 DEF Arrive
  <2> QED  BY <1>0, <1>4, <2>1, CalmRequest
<1>8. ASSUME NEW d \in Drivers, Control(d) PROVE CalmBody'
  BY <1>0, <1>4, <1>8, CalmControl
<1>9. ASSUME NEW d \in Drivers, Fail(d) PROVE CalmBody'
  BY <1>0, <1>4, <1>9, CalmFail
<1>10. ASSUME NEW d \in Drivers, Answers(d) \/ Write(d) \/ Register(d) \/ Mark(d) PROVE CalmBody'
  BY <1>0, <1>4, <1>10, CalmAnswer, CalmWrite, CalmRegister, CalmMark
<1> QED  BY <1>2, <1>5, <1>6, <1>7, <1>8, <1>9, <1>10, InsuranceSteps

LEMMA InitCalm == InsuranceInit => NoPlan /\ CycleInv /\ CalmInv
<1> SUFFICES ASSUME InsuranceInit PROVE NoPlan /\ CycleInv /\ CalmInv
  OBVIOUS
<1>1. /\ stored = [s \in Slots |-> None] /\ work = [d \in Drivers |-> NoWork] /\ Init /\ run = "queued"
  BY DEF InsuranceInit
<1>2. /\ plan = "none" /\ task = New({}) /\ driver = [d \in Drivers |-> Idle("new")]
      /\ approval = [t \in Tasks |-> [n \in Attempt |-> "none"]]
  BY <1>1 DEF Init
<1>3. /\ Idle("new").pc = "new" /\ Idle("new").cycle = 0
  BY IdleFields DEF PC
<1>4. CycleInv
  <2>1. ASSUME NEW d \in Drivers PROVE CycleOK(d)
    <3>1. driver[d].pc = "new" /\ driver[d].cycle = 0 /\ 0 <= MaxCycles[d]
      BY <1>2, <1>3, NaturalLimits
    <3> QED  BY <3>1 DEF CycleOK, Sync
  <2> QED  BY <2>1 DEF CycleInv
<1>5. \A t \in TaskKeys : task[t].status = "pending" /\ task[t].claim = 0 /\ task[t].attempts = 0
  BY <1>2, Plan DEF New
<1>6. \A t \in TaskKeys : CalmTask(t)
  <2>1. 0 < MaxAttempts
    BY NaturalLimits
  <2>2. \A t \in TaskKeys, n \in Attempt : approval[t][n] # "pending"
    BY <1>2, Plan
  <2> QED  BY <1>5, <2>1, <2>2 DEF CalmTask
<1>7. \A d \in Drivers : CalmTodo(d) /\ CalmCall(d)
  <2>1. \A d \in Drivers : driver[d].pc = "new" /\ work[d].at = "none"
    BY <1>1, <1>2, <1>3, NoWorkFields
  <2> QED  BY <2>1 DEF CalmTodo, CalmCall, InLoop
<1>8. Settled
  <2>1. \A t \in TaskKeys : \A s \in SlotsOf(t) : stored[s] = None
    BY <1>1, AllSlots
  <2> QED  BY <2>1 DEF Settled
<1> QED  BY <1>2, <1>4, <1>6, <1>7, <1>8 DEF NoPlan, CalmInv, CalmBody

(***************************************************************************)
(* OutcomeHasCause.                                                         *)
(***************************************************************************)
\* Which steps of the Controller may fail the run.
LEMMA WhoFails ==
  ASSUME Steady, NoPlan, [InsuranceNext]_insuranceVars, run # "failed", run' = "failed"
  PROVE  \/ \E d \in Drivers, t \in Tasks, n \in Attempt, decision \in Decision :
              Resolve(d, t, n, decision) /\ run' = Target(decision)
         \/ \E d \in Drivers : Controls(d) /\ (Blocked(d) \/ Settle(d)) /\ FailRun(d)
<1> DEFINE Goal ==
      \/ \E d \in Drivers, t \in Tasks, n \in Attempt, decision \in Decision :
           Resolve(d, t, n, decision) /\ run' = Target(decision)
      \/ \E d \in Drivers : Controls(d) /\ (Blocked(d) \/ Settle(d)) /\ FailRun(d)
<1>0. TypeOK /\ IInv /\ Base
  BY DEF Steady, IInv
<1>1. ASSUME NEW d \in Drivers, Request(d) PROVE Goal
  <2>1. run' # run
    OBVIOUS
  <2>2. \A x : ~ResolvePlan(d, x)
    BY DEF ResolvePlan, NoPlan
  <2>3. PICK t \in Tasks, n \in Attempt, decision \in Decision : Resolve(d, t, n, decision)
    BY <1>1, <2>1, <2>2 DEF Request, Drive, Decision
  <2>4. run' = Target(decision)
    BY <2>1, <2>3 DEF Resolve
  <2> QED  BY <2>3, <2>4
<1>2. ASSUME NEW d \in Drivers, Control(d) PROVE Goal
  <2>1. ~Enter(d)
    BY DEF Enter
  <2>2. ~(Recover(d) \/ Activate(d) \/ CompleteClaimed(d))
    BY DEF Recover, Activate, CompleteClaimed
  <2>3. ~Ready(d)
    <3>1. ASSUME NEW t, Deny(d, t) \/ AskAgain(d, t) \/ AskRefused(d, t) \/ ClaimAndDispatch(d, t) \/ ClaimRefused(d, t)
          PROVE  run' = run
      BY <3>1 DEF Deny, AskAgain, AskRefused, ClaimAndDispatch, ClaimRefused
    <3>2. ASSUME NEW t, AskApproval(d, t) PROVE run' \in {run, "waiting_approval"}
      BY <3>2 DEF AskApproval
    <3> QED  BY <3>1, <3>2 DEF Ready
  <2>4. Controls(d)
    BY <1>0, <1>2, ControlActs DEF Controls
  <2>5. Blocked(d) => FailRun(d)
    BY DEF Blocked
  <2>6. Settle(d) => FailRun(d)
    BY DEF Settle
  <2> QED  BY <1>2, <2>1, <2>2, <2>3, <2>4, <2>5, <2>6 DEF Control
<1>3. ~(Refuse \/ Lapse \/ UNCHANGED insuranceVars)
  BY DEF Refuse, Lapse, Expire, insuranceVars, vars
<1>4. ~Die
  <2>1. ASSUME NEW d, NEW t, TornClaim(d, t) \/ TornAsk(d, t) \/ TornClose(d, t) \/ TornFailure(d, t) PROVE run' = run
    BY <2>1 DEF TornClaim, TornAsk, TornClose, TornFailure
  <2>2. ASSUME NEW d, NEW t, NEW n, NEW decision, TornResolve(d, t, n, decision) PROVE run' = run
    BY <2>2 DEF TornResolve
  <2> QED  BY <2>1, <2>2 DEF Die, Crash, TornControl
<1>5. \A d \in Drivers : ~(Answers(d) \/ Write(d) \/ Register(d) \/ Mark(d) \/ Fail(d))
  <2>1. UNCHANGED vars => run' = run
    BY DEF vars
  <2>2. \A d : CallSucceeds(d, "bundle") \/ Fail(d) => run' = run
    BY DEF CallSucceeds, Fail, CallFails
  <2> QED  BY <1>0, <2>1, <2>2, AnswerStep, WriteStep, RegisterStep, MarkStep
<1> HIDE DEF Goal
<1>6. Goal
  BY <1>1, <1>2, <1>3, <1>4, <1>5, InsuranceSteps, JobDrives DEF Execute, Arrive
<1> QED  BY <1>6 DEF Goal

\* Where nothing runs, is blocked, ready or runnable, everything is done.
LEMMA NothingLeft ==
  ASSUME TypeOK, TaskInv, WithStatus("running") = {}, WithStatus("blocked") = {}, WithStatus("ready") = {},
         ~AnyFailed, ~Waits, Runnable = {}
  PROVE  AllClosed
<1>1. ASSUME NEW t \in TaskKeys, \A u \in DependsOn(t) : Satisfied(u) PROVE Satisfied(t)
  <2>1. t \in Tasks /\ \A u \in Deps[t] : Satisfied(u)
    BY <1>1, Plan
  <2>2. task[t].status # "pending"
    BY <2>1 DEF Runnable, WithStatus
  <2>3. task[t].status \in {"completed", "cancelled"}
    BY <2>1, <2>2, TaskFields DEF WithStatus, AnyFailed, Waits, TaskStatus
  <2> QED  BY <2>1, <2>3 DEF Satisfied, TaskInv
<1> HIDE DEF Satisfied
<1>2. Satisfied("evidence-extraction")
  BY <1>1, Keys DEF DependsOn
<1>3. Satisfied("executive-orchestration")
  BY <1>1, <1>2, Keys DEF DependsOn
<1>4. Satisfied("product-analysis") /\ Satisfied("finance-analysis")
  BY <1>1, <1>3, Keys DEF DependsOn
<1>5. Satisfied("engineering-plan") /\ Satisfied("risk-review")
  BY <1>1, <1>4, Keys DEF DependsOn
<1>6. Satisfied("private-upload-policy")
  BY <1>1, <1>5, Keys DEF DependsOn
<1>7. Satisfied("artifact-synthesis")
  BY <1>1, <1>5, <1>6, Keys DEF DependsOn
<1>8. Satisfied("verification")
  BY <1>1, <1>7, Keys DEF DependsOn
<1>9. Satisfied("release-approval")
  BY <1>1, <1>8, Keys DEF DependsOn
<1>10. \A t \in TaskKeys : Satisfied(t)
  BY <1>2, <1>3, <1>4, <1>5, <1>6, <1>7, <1>8, <1>9, Keys
<1> QED  BY <1>10, Plan DEF Satisfied, AllClosed

LEMMA FailsForCause ==
  ASSUME InjectionIsSpared, Steady, NoPlan, CycleInv, CalmInv, [InsuranceNext]_insuranceVars,
         run # "failed", run' = "failed"
  PROVE  FailureHasCause
<1> SUFFICES ASSUME crashes = 0, ~Rejected', ~Lapsed, ~OutOfCycles PROVE FALSE
  <2>1. crashes = 0 \/ crashes > 0
    BY NaturalLimits DEF Steady, IInv, TypeOK
  <2> QED  BY <2>1 DEF FailureHasCause
<1>0. TypeOK /\ TaskInv /\ AskedInv
  BY DEF Steady, IInv
<1>1. CalmBody
  BY CalmBefore DEF CalmInv
<1>2. ~AnyFailed
  <2>1. \A t \in TaskKeys : task[t].status # "failed"
    BY <1>1 DEF CalmBody, CalmTask
  <2> QED  BY <2>1, Plan DEF AnyFailed, WithStatus
<1>3. ASSUME NEW d \in Drivers, NEW t \in Tasks, NEW n \in Attempt, NEW decision \in Decision,
             Resolve(d, t, n, decision), run' = Target(decision)
      PROVE  FALSE
  <2>1. approval[t][n] = "pending" /\ approval' = [approval EXCEPT ![t][n] = decision]
    BY <1>3 DEF Resolve, Resolvable
  <2>2. t = Release
    BY <1>0, <2>1, Policies, Plan DEF AskedInv, Release
  <2>3. decision = "rejected"
    BY <1>3 DEF Target, Decision
  <2>4. approval'[t][n] = "rejected"
    BY <1>0, <2>1, <2>3 DEF TypeOK
  <2> QED  BY <2>2, <2>4 DEF Rejected, Release
<1>4. ASSUME NEW d \in Drivers, Blocked(d) \/ Settle(d), FailRun(d), Controls(d) PROVE FALSE
  <2>1. driver'[d].pc \in Ended /\ driver[d] \in DriverRecord
    BY <1>0, <1>4, StopFields, DriverFields DEF FailRun
  <2>2. Settle(d)
    <3>1. ASSUME Blocked(d) PROVE FALSE
      <4>1. run' = run \/ AnyFailed
        BY <3>1 DEF Blocked
      <4> QED  BY <1>2, <4>1
    <3> QED  BY <1>4, <3>1
  <2>3. driver[d].pc = "settle" /\ ~AllClosed /\ ~Waits /\ ~(driver[d].progress /\ driver[d].cycle < MaxCycles[d])
    BY <1>2, <2>2 DEF Settle
  <2>4. ~driver[d].progress
    <3>1. driver[d].cycle \in Nat /\ MaxCycles[d] \in Nat /\ driver[d].cycle <= MaxCycles[d]
      <4>1. driver[d].cycle \in 0..CycleLimit /\ MaxCycles[d] \in 1..CycleLimit
        BY <2>1, NaturalLimits DEF DriverRecord
      <4>2. driver[d].cycle <= MaxCycles[d]
        BY DEF CycleInv, CycleOK
      <4> QED  BY <4>1, <4>2
    <3>2. driver[d].progress => driver[d].cycle # MaxCycles[d]
      BY <2>3 DEF OutOfCycles
    <3> QED  BY <2>3, <3>1, <3>2
  <2>5. WithStatus("running") = {} /\ WithStatus("blocked") = {} /\ WithStatus("ready") = {} /\ Runnable = {}
    <3>1. CycleOK(d)
      BY DEF CycleInv
    <3> QED  BY <2>3, <2>4, <3>1 DEF CycleOK, Sync
  <2> QED  BY <1>0, <1>2, <2>3, <2>5, NothingLeft
<1> QED  BY <1>3, <1>4, WhoFails

LEMMA RefusedForCause ==
  ASSUME Steady, [InsuranceNext]_insuranceVars, job.status # "refused", job'.status = "refused"
  PROVE  RefusalHasCause
<1>0. IInv /\ Base /\ InsuranceTypeOK
  BY DEF Steady, Base
<1>1. ASSUME NEW d \in Drivers, JobGoesOn(d) PROVE FALSE
  <2>1. job' = job \/ job'.status \in {"completed", "failed"}
    BY <1>1 DEF JobGoesOn
  <2> QED  BY <2>1
<1>2. ASSUME NEW r \in JobRecord, NEW s \in JobStatus \ {"refused"}, job' = [r EXCEPT !.status = s] PROVE FALSE
  <2>1. job'.status = s
    BY <1>2 DEF JobRecord
  <2> QED  BY <2>1
<1>3. job \in JobRecord
  BY <1>0 DEF InsuranceTypeOK, JobRecord, JobStatus
<1>4. ~Execute /\ ~Die
  <2>1. Execute => job' = [job EXCEPT !.status = "running"]
    BY DEF Execute
  <2>2. Die => job' = job \/ job' = [job EXCEPT !.status = "gone"]
    BY DEF Die
  <2> QED  BY <1>2, <1>3, <2>1, <2>2 DEF JobStatus
<1>5. ~(Lapse \/ UNCHANGED insuranceVars)
  BY DEF Lapse, insuranceVars
<1>6. \A d \in Drivers : ~(Control(d) \/ Fail(d))
  BY <1>1 DEF Control, Fail
<1>7. \A d \in Drivers : ~(Arrive(d) \/ Answers(d) \/ Write(d) \/ Register(d) \/ Mark(d))
  BY DEF Arrive, Answers, LiveAnswers, GatewayFails, AnswersInvalid, Write, Register, Mark
<1>8. Refuse
  BY <1>4, <1>5, <1>6, <1>7, InsuranceSteps
<1>9. PICK t \in TaskKeys : NotExecutable(t)
  BY <1>8 DEF Refuse
<1>10. RULES[t].local \in request.unavailable
  BY <1>0, <1>9, SpecialistSuffices DEF InsuranceTypeOK
<1> QED  BY <1>10 DEF RefusalHasCause

\* No answer of a live model and no overlap of requests ends the workflow
\* badly: a run fails only after a crash, on the decision of the Founder or when
\* it lapses, or with a request that allows too few cycles; a job is refused
\* only when a specialist is declared unavailable.
THEOREM OutcomeHasCauseAlways ==
  ASSUME InjectionIsSpared
  PROVE  InsuranceSpec => OutcomeHasCause
<1>1. InsuranceInit => NoPlan /\ CycleInv /\ CalmInv
  BY InitCalm
<1>2. Steady /\ NoPlan /\ CycleInv /\ CalmInv /\ [InsuranceNext]_insuranceVars => NoPlan' /\ CycleInv' /\ CalmInv'
  <2> SUFFICES ASSUME Steady, NoPlan, CycleInv, CalmInv, [InsuranceNext]_insuranceVars
               PROVE  NoPlan' /\ CycleInv' /\ CalmInv'
    OBVIOUS
  <2>1. [Next]_vars /\ Known /\ LoopInv
    BY ControllerSteps DEF Steady, IInv, Known
  <2> QED  BY <2>1, NoPlanStep, CycleStep, CalmStep
<1>3. Steady /\ NoPlan /\ CycleInv /\ CalmInv /\ [InsuranceNext]_insuranceVars
      => [/\ run # "failed" /\ run' = "failed" => FailureHasCause
          /\ job.status # "refused" /\ job'.status = "refused" => RefusalHasCause]_insuranceVars
  BY FailsForCause, RefusedForCause
<1> QED  BY <1>1, <1>2, <1>3, SteadyAlways, PTL DEF InsuranceSpec, OutcomeHasCause
=============================================================================
