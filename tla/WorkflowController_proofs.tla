---------------------- MODULE WorkflowController_proofs ----------------------
(***************************************************************************)
(* Theorems about WorkflowController, for every set of tasks with any       *)
(* dependencies and policies, any number of requests and crashes.           *)
(***************************************************************************)
EXTENDS WorkflowController, WellFoundedInduction, TLAPS

(***************************************************************************)
(* The inductive invariant.                                                 *)
(***************************************************************************)
\* A driver inside a loop of the given kind, suspended at a dispatch or not.
InLoop(d, loop) ==
  \/ driver[d].pc = loop
  \/ driver[d].pc \in {"call", "returned"} /\ driver[d].via = loop

\* What the record of a task says of its past.
TaskInv ==
  \A t \in Tasks :
    /\ task[t].status = "completed" => task[t].out
    /\ task[t].status = "cancelled" => t \in ExpectedDenied
    /\ task[t].status = "pending" => task[t].attempts = 0
    /\ task[t].status # "pending" => \A u \in Deps[t] : Satisfied(u)
    /\ \A n \in Attempt : approval[t][n] # "none" => n <= task[t].attempts

\* One driver at a time is between two awaits.
LoopInv == \A d, e \in Drivers : driver[d].pc \in Sync /\ driver[e].pc \in Sync => d = e

\* What a driver remembers of tasks is out of date only in the ways it allows for.
TrueView(d) ==
  \A t \in Tasks :
    /\ driver[d].view[t].out => task[t].out
    /\ driver[d].view[t].approved => /\ driver[d].view[t].claim # 0
                                     /\ approval[t][driver[d].view[t].claim] = "approved"

DriverOK(d) ==
  /\ driver[d].pc \in {"new", "enter"} => driver[d].cycle = 0
  /\ driver[d].pc = "blocked" => driver[d].todo \subseteq WithStatus("blocked")
  /\ driver[d].pc = "activate" => driver[d].todo \subseteq Runnable
  /\ driver[d].pc \in {"recover", "ready", "call", "returned"} =>
       \A t \in driver[d].todo : task[t].status # "pending"
  /\ driver[d].pc \in {"call", "returned"} =>
       task[driver[d].at].status # "pending" /\ driver[d].at \notin driver[d].todo
  /\ driver[d].pc = "returned" => task[driver[d].at].out
  /\ TrueView(d)

DriverInv == \A d \in Drivers : DriverOK(d)

\* Until the plan is approved nothing has started.
PlanInv ==
  plan \in {"pending", "rejected"} =>
    /\ \A t \in Tasks : task[t].status = "pending"
    /\ called = {}
    /\ \A d \in Drivers : driver[d].pc \in {"new", "enter"} \cup Ended
    /\ run \in {"waiting_approval", "failed"}
    /\ plan = "pending" => run = "waiting_approval"

\* Whom an agent was called for, but for the approval of the very claim.
CalledInv ==
  \A p \in called :
    /\ plan \in {"none", "approved"}
    /\ \A u \in Deps[p[1]] : Satisfied(u)
    /\ Policy[p[1]] # "deny"

\* Somebody can still answer for a task that waits.
Answerable == \E t \in Tasks : task[t].status = "waiting_approval" /\ approval[t][task[t].link] = "pending"

\* A request that is alone finds every task as it remembers it, and the run
\* goes on or waits for an answer that somebody can give.
Alone(d) ==
  /\ driver[d].pc # "raised"
  /\ InLoop(d, "recover") => \A t \in driver[d].todo :
       task[t].status = "running" /\ driver[d].view[t].claim = task[t].claim
  /\ InLoop(d, "ready") => \A t \in driver[d].todo : task[t].status = "ready"
  /\ driver[d].pc \in {"call", "returned"} =>
       Owned(driver[d].at, driver[d].view[driver[d].at].claim)
  /\ Active(d) /\ driver[d].pc # "enter" =>
       \/ run = "running"
       \/ run = "waiting_approval" /\ Answerable /\ (InLoop(d, "ready") \/ driver[d].pc = "settle")

WaitsForSomebody == run = "waiting_approval" /\ crashes = 0 => plan = "pending" \/ Answerable

AloneInv ==
  ~overlapped =>
    /\ \A d, e \in Drivers : Active(d) /\ Active(e) => d = e
    /\ \A d \in Drivers : Alone(d)
    /\ WaitsForSomebody

IInv == /\ TypeOK /\ ClaimIsCurrent /\ TaskInv /\ LoopInv /\ DriverInv /\ PlanInv /\ CalledInv
        /\ CompletedRunIsWhole /\ AloneInv

(***************************************************************************)
(* The operators of the model.                                              *)
(***************************************************************************)
\* A set of tasks that is not empty has a first one.
LEMMA FirstIn ==
  ASSUME NEW S \in SUBSET Tasks, S # {}
  PROVE  First(S) \in S
<1> DEFINE Ranks == {Rank[t] : t \in S}
<1>1. Ranks \subseteq Nat /\ Ranks # {}
  BY TaskGraph
<1>2. PICK n \in Ranks : \A m \in Ranks : ~(<<m, n>> \in OpToRel(<, Nat))
  BY <1>1, NatLessThanWellFounded, WFMin, Zenon
<1>3. \A m \in Ranks : ~(m < n)
  BY <1>1, <1>2 DEF OpToRel
<1>4. PICK t \in S : Rank[t] = n
  OBVIOUS
<1>5. \A u \in S : Rank[t] <= Rank[u]
  BY <1>1, <1>3, <1>4, TaskGraph
<1> QED  BY <1>4, <1>5 DEF First

\* The fields of a driver.
PC == Sync \cup Ended \cup {"new", "call"}
OthersStay(d) == \A e \in Drivers \ {d} : driver'[e] = driver[e]

LEMMA DriverFields ==
  ASSUME TypeOK, NEW d \in Drivers
  PROVE  /\ driver[d] \in DriverRecord /\ driver[d].pc \in PC /\ driver[d].todo \in SUBSET Tasks
         /\ driver[d].view \in [Tasks -> View] /\ driver[d].at \in Tasks
         /\ driver[d].via \in {"recover", "ready"} /\ driver[d].cycle \in 0..CycleLimit
         /\ driver[d].progress \in BOOLEAN
  BY DEF TypeOK, DriverRecord, PC

LEMMA BlankIsView == Blank \in View /\ NoView \in [Tasks -> View]
  BY NaturalLimits DEF Blank, View, NoView

LEMMA IdleFields ==
  ASSUME NEW q \in PC
  PROVE  /\ Idle(q) \in DriverRecord
         /\ Idle(q).pc = q /\ Idle(q).todo = {} /\ Idle(q).view = NoView /\ Idle(q).cycle = 0
<1>1. First(Tasks) \in Tasks
  BY FirstIn, TaskGraph
<1>2. 0 \in 0..CycleLimit
  BY NaturalLimits
<1> QED  BY <1>1, <1>2, BlankIsView DEF Idle, DriverRecord, PC

LEMMA GotoFields ==
  ASSUME TypeOK, NEW d \in Drivers, NEW q \in PC, NEW S \in SUBSET Tasks, Goto(d, q, S)
  PROVE  /\ driver' \in [Drivers -> DriverRecord] /\ OthersStay(d)
         /\ driver'[d].pc = q /\ driver'[d].todo = S /\ driver'[d].view = driver[d].view
         /\ driver'[d].cycle = driver[d].cycle /\ driver'[d].at = driver[d].at
         /\ driver'[d].via = driver[d].via
<1>1. driver[d] \in DriverRecord
  BY DriverFields
<1>2. driver' = [driver EXCEPT ![d] = [driver[d] EXCEPT !.pc = q, !.todo = S]]
  BY DEF Goto, TypeOK
<1>3. [driver[d] EXCEPT !.pc = q, !.todo = S] \in DriverRecord
  BY <1>1 DEF DriverRecord, PC
<1> QED  BY <1>1, <1>2, <1>3 DEF TypeOK, OthersStay, DriverRecord

LEMMA StopFields ==
  ASSUME TypeOK, NEW d \in Drivers, End(d) \/ Raise(d)
  PROVE  /\ driver' \in [Drivers -> DriverRecord] /\ OthersStay(d)
         /\ driver'[d].pc \in Ended /\ driver'[d].todo = {} /\ driver'[d].view = NoView
         /\ End(d) => driver'[d].pc = "ended"
<1>1. PICK q \in Ended : driver' = [driver EXCEPT ![d] = Idle(q)] /\ (End(d) => q = "ended")
  BY DEF End, Raise, Ended, Idle
<1>2. q \in PC
  BY DEF PC
<1>3. Idle(q) \in DriverRecord /\ Idle(q).pc = q /\ Idle(q).todo = {} /\ Idle(q).view = NoView
  BY <1>2, IdleFields
<1>4. driver'[d] = Idle(q) /\ OthersStay(d) /\ driver' \in [Drivers -> DriverRecord]
  BY <1>1, <1>3 DEF TypeOK, OthersStay
<1> QED  BY <1>1, <1>3, <1>4

LEMMA DoneFields ==
  ASSUME TypeOK, NEW d \in Drivers, driver[d].todo # {}, Done(d)
  PROVE  LET t == First(driver[d].todo) IN
         /\ driver' \in [Drivers -> DriverRecord] /\ OthersStay(d)
         /\ driver'[d].pc = driver[d].pc /\ driver'[d].todo = driver[d].todo \ {t}
         /\ driver'[d].view[t] = Blank
         /\ \A u \in Tasks \ {t} : driver'[d].view[u] = driver[d].view[u]
         /\ driver'[d].cycle = driver[d].cycle /\ driver'[d].at = driver[d].at
         /\ driver'[d].via = driver[d].via /\ driver'[d].progress
<1> DEFINE t == First(driver[d].todo)
           r == [driver[d] EXCEPT !.todo = driver[d].todo \ {t}, !.progress = TRUE,
                                  !.view = [driver[d].view EXCEPT ![t] = Blank]]
<1>1. t \in Tasks
  BY FirstIn, DriverFields
<1>2. driver[d] \in DriverRecord /\ driver[d].todo \in SUBSET Tasks /\ driver[d].view \in [Tasks -> View]
  BY DriverFields
<1>3. driver' = [driver EXCEPT ![d] = r]
  BY <1>2 DEF Done, TypeOK
<1>4. [driver[d].view EXCEPT ![t] = Blank] \in [Tasks -> View]
  BY <1>1, <1>2, BlankIsView
<1>5. r \in DriverRecord
  BY <1>2, <1>4 DEF DriverRecord
<1>6. /\ r.pc = driver[d].pc /\ r.todo = driver[d].todo \ {t} /\ r.view = [driver[d].view EXCEPT ![t] = Blank]
      /\ r.cycle = driver[d].cycle /\ r.at = driver[d].at /\ r.via = driver[d].via /\ r.progress
  BY <1>2 DEF DriverRecord
<1> HIDE DEF r
<1>7. driver'[d] = r /\ OthersStay(d) /\ driver' \in [Drivers -> DriverRecord]
  BY <1>3, <1>5 DEF TypeOK, OthersStay
<1> QED  BY <1>1, <1>2, <1>6, <1>7

LEMMA DispatchFields ==
  ASSUME TypeOK, NEW d \in Drivers, NEW t \in Tasks, NEW n \in 0..MaxAttempts,
         NEW via \in {"recover", "ready"}, Dispatch(d, t, n, via)
  PROVE  /\ driver' \in [Drivers -> DriverRecord] /\ OthersStay(d)
         /\ driver'[d].pc = "call" /\ driver'[d].at = t /\ driver'[d].via = via
         /\ driver'[d].todo = driver[d].todo \ {t} /\ driver'[d].cycle = driver[d].cycle
         /\ driver'[d].view[t] = [Blank EXCEPT !.claim = n]
         /\ \A u \in Tasks \ {t} : driver'[d].view[u] = driver[d].view[u]
<1> DEFINE w == [Blank EXCEPT !.claim = n]
           v == [driver[d].view EXCEPT ![t] = w]
           r == [driver[d] EXCEPT !.pc = "call", !.at = t, !.via = via, !.todo = driver[d].todo \ {t},
                                  !.view = v, !.progress = TRUE]
<1>1. driver[d] \in DriverRecord /\ driver[d].todo \in SUBSET Tasks /\ driver[d].view \in [Tasks -> View]
  BY DriverFields
<1>2. driver' = [driver EXCEPT ![d] = r]
  BY DEF Dispatch, TypeOK
<1>3. w \in View
  BY DEF Blank, View
<1> HIDE DEF w
<1>4. v \in [Tasks -> View] /\ v[t] = w /\ \A u \in Tasks \ {t} : v[u] = driver[d].view[u]
  BY <1>1, <1>3
<1> HIDE DEF v
<1>5. /\ r.pc = "call" /\ r.at = t /\ r.via = via /\ r.todo = driver[d].todo \ {t} /\ r.view = v
      /\ r.cycle = driver[d].cycle
  BY <1>1 DEF DriverRecord
<1>6. r \in DriverRecord
  BY <1>1, <1>4 DEF DriverRecord
<1> HIDE DEF r
<1>7. driver'[d] = r /\ OthersStay(d) /\ driver' \in [Drivers -> DriverRecord]
  BY <1>2, <1>6 DEF TypeOK, OthersStay
<1> QED  BY <1>4, <1>5, <1>7 DEF w

LEMMA BackFields ==
  ASSUME TypeOK, NEW d \in Drivers, driver' = [driver EXCEPT ![d] = Back(d)]
  PROVE  /\ driver' \in [Drivers -> DriverRecord] /\ OthersStay(d)
         /\ driver'[d].pc = driver[d].via /\ driver'[d].todo = driver[d].todo
         /\ driver'[d].via = driver[d].via /\ driver'[d].cycle = driver[d].cycle
         /\ driver'[d].view[driver[d].at] = Blank
         /\ \A u \in Tasks \ {driver[d].at} : driver'[d].view[u] = driver[d].view[u]
<1> DEFINE v == [driver[d].view EXCEPT ![driver[d].at] = Blank]
           f == First(Tasks)
           r == [driver[d] EXCEPT !.pc = driver[d].via, !.view = v, !.at = f]
<1>1. /\ driver[d] \in DriverRecord /\ driver[d].view \in [Tasks -> View] /\ driver[d].at \in Tasks
      /\ driver[d].via \in {"recover", "ready"}
  BY DriverFields
<1>2. r = Back(d)
  BY <1>1 DEF Back
<1>3. f \in Tasks
  BY FirstIn, TaskGraph
<1>4. /\ v \in [Tasks -> View] /\ v[driver[d].at] = Blank
      /\ \A u \in Tasks \ {driver[d].at} : v[u] = driver[d].view[u]
  BY <1>1, BlankIsView
<1> HIDE DEF v, f
<1>5. r \in DriverRecord
  BY <1>1, <1>3, <1>4 DEF DriverRecord, Sync
<1>6. /\ r.pc = driver[d].via /\ r.todo = driver[d].todo /\ r.via = driver[d].via /\ r.view = v
      /\ r.cycle = driver[d].cycle
  BY <1>1 DEF DriverRecord
<1> HIDE DEF r
<1>7. driver'[d] = r /\ OthersStay(d) /\ driver' \in [Drivers -> DriverRecord]
  BY <1>2, <1>5 DEF TypeOK, OthersStay
<1> QED  BY <1>4, <1>6, <1>7

\* What a snapshot says of the tasks it was taken for is true.
LEMMA SeenFields ==
  ASSUME TypeOK, NEW S \in SUBSET Tasks
  PROVE  /\ Seen(S) \in [Tasks -> View]
         /\ \A t \in Tasks \ S : Seen(S)[t] = Blank
         /\ \A t \in S : /\ Seen(S)[t].claim = task[t].claim /\ Seen(S)[t].out = task[t].out
                         /\ Seen(S)[t].approved => /\ task[t].claim # 0
                                                   /\ approval[t][task[t].claim] = "approved"
<1> DEFINE ok(t) == /\ task[t].link # 0 /\ task[t].link = task[t].claim
                    /\ approval[t][task[t].link] = "approved"
<1>1. Seen(S) \in [Tasks -> View]
  <2>1. \A t \in Tasks : ok(t) \in BOOLEAN
    OBVIOUS
  <2>2. Seen(S) = [t \in Tasks |-> IF t \in S
          THEN [claim |-> task[t].claim, approved |-> ok(t), out |-> task[t].out] ELSE Blank]
    BY DEF Seen
  <2> HIDE DEF ok
  <2>3. \A t \in S : [claim |-> task[t].claim, approved |-> ok(t), out |-> task[t].out] \in View
    BY <2>1 DEF TypeOK, TaskRecord, View
  <2>4. \A t \in Tasks :
          (IF t \in S THEN [claim |-> task[t].claim, approved |-> ok(t), out |-> task[t].out]
           ELSE Blank) \in View
    BY <2>3, BlankIsView
  <2> QED  BY <2>2, <2>4
<1>2. \A t \in S : Seen(S)[t] = [claim |-> task[t].claim, approved |-> ok(t), out |-> task[t].out]
  BY DEF Seen
<1>3. \A t \in Tasks \ S : Seen(S)[t] = Blank
  BY DEF Seen
<1>4. \A t \in S : ok(t) => task[t].claim # 0 /\ approval[t][task[t].claim] = "approved"
  OBVIOUS
<1>5. \A t \in Tasks : ok(t) \in BOOLEAN
  OBVIOUS
<1> HIDE DEF ok
<1>6. ASSUME NEW t \in S
      PROVE  /\ Seen(S)[t].claim = task[t].claim /\ Seen(S)[t].out = task[t].out
             /\ Seen(S)[t].approved = ok(t)
  <2>1. PICK b \in BOOLEAN : b = ok(t)
    BY <1>5
  <2>2. Seen(S)[t] = [claim |-> task[t].claim, approved |-> b, out |-> task[t].out]
    BY <1>2, <2>1
  <2> QED  BY <2>1, <2>2
<1> QED  BY <1>1, <1>3, <1>4, <1>6

LEMMA NewCycleFields ==
  ASSUME TypeOK, NEW d \in Drivers, driver[d].cycle < MaxCycles[d], NewCycle(d)
  PROVE  /\ driver' \in [Drivers -> DriverRecord] /\ OthersStay(d)
         /\ driver'[d].pc = "recover" /\ driver'[d].todo = WithStatus("running")
         /\ driver'[d].view = Seen(WithStatus("running"))
<1> DEFINE S == WithStatus("running")
           c == driver[d].cycle + 1
           r == [Idle("recover") EXCEPT !.todo = S, !.view = Seen(S), !.cycle = c]
<1>1. S \in SUBSET Tasks
  BY DEF WithStatus
<1>2. Seen(S) \in [Tasks -> View]
  BY <1>1, SeenFields
<1>3. c \in 0..CycleLimit
  <2>1. CycleLimit \in Nat /\ MaxCycles[d] \in 1..CycleLimit /\ driver[d].cycle \in 0..CycleLimit
    BY DriverFields, NaturalLimits
  <2> QED  BY <2>1
<1>4. Idle("recover") \in DriverRecord /\ Idle("recover").pc = "recover"
  BY IdleFields DEF PC, Sync
<1>5. driver' = [driver EXCEPT ![d] = r]
  BY DEF NewCycle
<1> HIDE DEF S, c
<1>6. r \in DriverRecord /\ r.pc = "recover" /\ r.todo = S /\ r.view = Seen(S)
  BY <1>1, <1>2, <1>3, <1>4 DEF DriverRecord
<1> HIDE DEF r
<1>7. driver'[d] = r /\ OthersStay(d) /\ driver' \in [Drivers -> DriverRecord]
  BY <1>5, <1>6 DEF TypeOK, OthersStay
<1> QED  BY <1>6, <1>7 DEF S

\* After a crash no request is being served.
LEMMA CrashFields ==
  ASSUME TypeOK, NEW lost, CrashAll(lost)
  PROVE  /\ crashes' \in 0..MaxCrashes /\ crashes' # 0
         /\ driver' \in [Drivers -> DriverRecord]
         /\ \A e \in Drivers :
              \/ driver'[e].pc = "ended" /\ driver'[e].todo = {} /\ driver'[e].view = NoView
              \/ driver'[e] = driver[e] /\ driver[e].pc \in Ended \cup {"new"}
<1>1. /\ Idle("ended") \in DriverRecord /\ Idle("ended").pc = "ended" /\ Idle("ended").todo = {}
      /\ Idle("ended").view = NoView
  BY IdleFields DEF PC, Ended
<1>2. crashes' \in 0..MaxCrashes /\ crashes' # 0
  BY NaturalLimits DEF CrashAll, TypeOK
<1>3. \A e \in Drivers : driver'[e] = IF Active(e) \/ e \in lost THEN Idle("ended") ELSE driver[e]
  BY DEF CrashAll
<1>4. driver' \in [Drivers -> DriverRecord]
  BY <1>1 DEF CrashAll, TypeOK
<1>5. \A e \in Drivers : ~Active(e) => driver[e].pc \in Ended \cup {"new"}
  BY DriverFields DEF Active, PC
<1> QED  BY <1>1, <1>2, <1>3, <1>4, <1>5

(***************************************************************************)
(* What a step can do to the tasks and the approvals.                       *)
(***************************************************************************)
KeepsClaim(t) ==
  /\ task'[t].claim = task[t].claim /\ task'[t].attempts = task[t].attempts
  /\ task'[t].link = task[t].link

\* At most files are written.
Stays(t) == task'[t].status = task[t].status /\ KeepsClaim(t) /\ (task[t].out => task'[t].out)

\* Only the status changes.
Moves(t) ==
  /\ KeepsClaim(t) /\ task'[t].out = task[t].out
  /\ task[t].status \notin TaskTerminal
  /\ task'[t].status \in {"ready", "running", "blocked", "failed", "cancelled"}
  /\ task'[t].status = "cancelled" => t \in ExpectedDenied
  /\ task[t].status = "pending" =>
       task'[t].status = "ready" /\ \A u \in Deps[t] : Satisfied(u)
  /\ task'[t].status = "running" => CanClaim(t) \/ \E n \in Attempt : approval[t][n] = "pending"

\* The holder of the claim completes the task or loses its attempt.
Releases(t) ==
  /\ task[t].status = "running" /\ task[t].claim # 0 /\ task'[t].claim = 0
  /\ task'[t].attempts = task[t].attempts /\ task'[t].link = task[t].link
  /\ task'[t].out = task[t].out
  /\ \/ task'[t].status \in {"blocked", "failed"}
     \/ task'[t].status = "completed" /\ task[t].out

\* A new attempt.
Takes(t) ==
  /\ CanClaim(t) /\ task'[t].attempts = task[t].attempts + 1
  /\ task'[t].claim \in {0, task'[t].attempts} /\ task'[t].out = task[t].out
  /\ task'[t].status \in {"running", "waiting_approval", "blocked", "failed"}
  /\ task'[t].status = "waiting_approval" =>
       task'[t].claim = task'[t].attempts /\ task'[t].link = task'[t].claim

TasksChange == \A t \in Tasks : Stays(t) \/ Moves(t) \/ Releases(t) \/ Takes(t)

ApprovalsChange ==
  \A t \in Tasks, n \in Attempt :
    \/ approval'[t][n] = approval[t][n]
    \/ approval[t][n] = "pending" /\ approval'[t][n] \in {"approved", "rejected"}
    \/ approval'[t][n] = "pending" /\ Takes(t) /\ n = task'[t].attempts

LEMMA TaskFields ==
  ASSUME TypeOK, NEW t \in Tasks
  PROVE  /\ task[t] \in TaskRecord /\ task[t].status \in TaskStatus
         /\ task[t].claim \in 0..MaxAttempts /\ task[t].attempts \in 0..MaxAttempts
         /\ task[t].link \in 0..MaxAttempts /\ task[t].part \in Contents \cup {NoContent}
         /\ task[t].out \in BOOLEAN
  BY DEF TypeOK, TaskRecord

LEMMA StatusFields ==
  ASSUME TypeOK, NEW t \in Tasks, NEW s \in TaskStatus, SetStatus(t, s)
  PROVE  /\ task' \in [Tasks -> TaskRecord]
         /\ task'[t].status = s /\ KeepsClaim(t) /\ task'[t].out = task[t].out
         /\ \A u \in Tasks \ {t} : task'[u] = task[u]
<1> DEFINE r == [task[t] EXCEPT !.status = s]
<1>1. task[t] \in TaskRecord
  BY TaskFields
<1>2. task' = [task EXCEPT ![t] = r]
  BY DEF SetStatus, TypeOK
<1>3. /\ r \in TaskRecord /\ r.status = s /\ r.claim = task[t].claim /\ r.attempts = task[t].attempts
      /\ r.link = task[t].link /\ r.out = task[t].out
  BY <1>1 DEF TaskRecord
<1> HIDE DEF r
<1> QED  BY <1>2, <1>3 DEF TypeOK, KeepsClaim

LEMMA FailedFields ==
  ASSUME TypeOK, NEW t \in Tasks, NEW n \in Attempt
  PROVE  /\ FailedAttempt(t, n) \in TaskRecord
         /\ FailedAttempt(t, n).status \in {"blocked", "failed"} /\ FailedAttempt(t, n).claim = 0
         /\ FailedAttempt(t, n).attempts = n /\ FailedAttempt(t, n).link = task[t].link
         /\ FailedAttempt(t, n).out = task[t].out
<1>1. task[t] \in TaskRecord
  BY TaskFields
<1>2. PICK s \in {"blocked", "failed"} :
        FailedAttempt(t, n) = [task[t] EXCEPT !.status = s, !.claim = 0, !.attempts = n]
  BY DEF FailedAttempt
<1> DEFINE r == [task[t] EXCEPT !.status = s, !.claim = 0, !.attempts = n]
<1>3. n \in 0..MaxAttempts /\ 0 \in 0..MaxAttempts /\ s \in TaskStatus
  BY NaturalLimits DEF Attempt, TaskStatus
<1>4. /\ r \in TaskRecord /\ r.status = s /\ r.claim = 0 /\ r.attempts = n
      /\ r.link = task[t].link /\ r.out = task[t].out
  BY <1>1, <1>3 DEF TaskRecord
<1>5. FailedAttempt(t, n) = r
  BY <1>2
<1> HIDE DEF r
<1> QED  BY <1>4, <1>5

\* The record of one task is replaced.
LEMMA ReplaceTask ==
  ASSUME TypeOK, NEW t \in Tasks, NEW r \in TaskRecord, task' = [task EXCEPT ![t] = r]
  PROVE  task' \in [Tasks -> TaskRecord] /\ task'[t] = r /\ \A u \in Tasks \ {t} : task'[u] = task[u]
  BY DEF TypeOK

LEMMA RecordFailureChanges ==
  ASSUME TypeOK, ClaimIsCurrent, NEW t \in Tasks, task[t].status = "running", task[t].claim # 0,
         RecordFailure(t)
  PROVE  task' \in [Tasks -> TaskRecord] /\ Releases(t) /\ \A u \in Tasks \ {t} : task'[u] = task[u]
<1>1. task[t].attempts \in Attempt
  BY TaskFields, NaturalLimits DEF ClaimIsCurrent, Attempt
<1> DEFINE r == FailedAttempt(t, task[t].attempts)
<1>2. task' = [task EXCEPT ![t] = r]
  BY DEF RecordFailure
<1>3. /\ r \in TaskRecord /\ r.status \in {"blocked", "failed"} /\ r.claim = 0
      /\ r.attempts = task[t].attempts /\ r.link = task[t].link /\ r.out = task[t].out
  BY <1>1, FailedFields
<1> HIDE DEF r
<1>4. task' \in [Tasks -> TaskRecord] /\ task'[t] = r /\ \A u \in Tasks \ {t} : task'[u] = task[u]
  BY <1>2, <1>3, ReplaceTask
<1> QED  BY <1>3, <1>4 DEF Releases

LEMMA CompleteChanges ==
  ASSUME TypeOK, NEW t \in Tasks, task[t].status = "running", task[t].claim # 0, task[t].out, Complete(t)
  PROVE  /\ task' \in [Tasks -> TaskRecord] /\ Releases(t) /\ task'[t].status = "completed"
         /\ \A u \in Tasks \ {t} : task'[u] = task[u]
<1> DEFINE r == [task[t] EXCEPT !.status = "completed", !.claim = 0]
<1>1. task[t] \in TaskRecord
  BY TaskFields
<1>2. task' = [task EXCEPT ![t] = r]
  BY <1>1 DEF Complete, TypeOK, TaskRecord
<1>3. /\ r \in TaskRecord /\ r.status = "completed" /\ r.claim = 0 /\ r.attempts = task[t].attempts
      /\ r.link = task[t].link /\ r.out = task[t].out
  <2>1. "completed" \in TaskStatus /\ 0 \in 0..MaxAttempts
    BY NaturalLimits DEF TaskStatus
  <2> QED  BY <1>1, <2>1 DEF TaskRecord
<1> HIDE DEF r
<1>4. task' \in [Tasks -> TaskRecord] /\ task'[t] = r /\ \A u \in Tasks \ {t} : task'[u] = task[u]
  BY <1>2, <1>3, ReplaceTask
<1> QED  BY <1>3, <1>4 DEF Releases

LEMMA OneTaskChanges ==
  ASSUME TypeOK, NEW t \in Tasks, Stays(t) \/ Moves(t) \/ Releases(t) \/ Takes(t),
         \A u \in Tasks \ {t} : task'[u] = task[u]
  PROVE  TasksChange
  BY DEF TasksChange, Stays, KeepsClaim

LEMMA NothingChanges ==
  /\ task' = task => TasksChange
  /\ approval' = approval => ApprovalsChange
  BY DEF TasksChange, ApprovalsChange, Stays, KeepsClaim

(***************************************************************************)
(* What such a step keeps.                                                  *)
(***************************************************************************)
LEMMA TasksGrow ==
  ASSUME TypeOK, TasksChange
  PROVE  \A t \in Tasks :
           /\ task[t].status \in TaskTerminal => task'[t].status = task[t].status
           /\ task[t].status # "pending" => task'[t].status # "pending"
           /\ Satisfied(t) => Satisfied(t)'
           /\ task[t].out => task'[t].out
           /\ task'[t].status = "pending" => KeepsClaim(t) /\ task[t].status = "pending"
<1> SUFFICES ASSUME NEW t \in Tasks
             PROVE  /\ task[t].status \in TaskTerminal => task'[t].status = task[t].status
                    /\ task[t].status # "pending" => task'[t].status # "pending"
                    /\ Satisfied(t) => Satisfied(t)'
                    /\ task[t].out => task'[t].out
                    /\ task'[t].status = "pending" => KeepsClaim(t) /\ task[t].status = "pending"
  OBVIOUS
<1>1. CASE Stays(t)
  BY <1>1 DEF Stays, Satisfied, KeepsClaim
<1>2. CASE Moves(t)
  BY <1>2 DEF Moves, Satisfied, TaskTerminal
<1>3. CASE Releases(t)
  BY <1>3 DEF Releases, Satisfied, TaskTerminal
<1>4. CASE Takes(t)
  BY <1>4 DEF Takes, CanClaim, Satisfied, TaskTerminal
<1> QED  BY <1>1, <1>2, <1>3, <1>4 DEF TasksChange

LEMMA DecisionsStay ==
  ASSUME TypeOK, TaskInv, ApprovalsChange
  PROVE  \A t \in Tasks, n \in Attempt :
           approval[t][n] \in {"approved", "rejected"} => approval'[t][n] = approval[t][n]
<1> SUFFICES ASSUME NEW t \in Tasks, NEW n \in Attempt, approval[t][n] \in {"approved", "rejected"}
             PROVE  approval'[t][n] = approval[t][n]
  OBVIOUS
<1>1. n <= task[t].attempts
  BY DEF TaskInv
<1>2. ~(Takes(t) /\ n = task'[t].attempts)
  BY <1>1, TaskFields DEF Takes, Attempt
<1> QED  BY <1>2 DEF ApprovalsChange

LEMMA ClaimStep ==
  ASSUME TypeOK, TypeOK', ClaimIsCurrent, TasksChange
  PROVE  ClaimIsCurrent'
<1> SUFFICES ASSUME NEW t \in Tasks
             PROVE  /\ task'[t].claim \in {0, task'[t].attempts}
                    /\ task'[t].status = "waiting_approval" =>
                         task'[t].claim # 0 /\ task'[t].link = task'[t].claim
  BY DEF ClaimIsCurrent
<1>1. CASE Stays(t)
  BY <1>1 DEF Stays, ClaimIsCurrent, KeepsClaim
<1>2. CASE Moves(t)
  BY <1>2 DEF Moves, ClaimIsCurrent, KeepsClaim
<1>3. CASE Releases(t)
  BY <1>3 DEF Releases
<1>4. CASE Takes(t)
  BY <1>4, TaskFields DEF Takes
<1> QED  BY <1>1, <1>2, <1>3, <1>4 DEF TasksChange

LEMMA TaskStep ==
  ASSUME TypeOK, TypeOK', TaskInv, TasksChange, ApprovalsChange
  PROVE  TaskInv'
<1> SUFFICES ASSUME NEW t \in Tasks
             PROVE  /\ task'[t].status = "completed" => task'[t].out
                    /\ task'[t].status = "cancelled" => t \in ExpectedDenied
                    /\ task'[t].status = "pending" => task'[t].attempts = 0
                    /\ task'[t].status # "pending" => \A u \in Deps[t] : Satisfied(u)'
                    /\ \A n \in Attempt : approval'[t][n] # "none" => n <= task'[t].attempts
  BY DEF TaskInv
<1>1. Deps[t] \subseteq Tasks
  BY TaskGraph
<1>2. task[t].attempts <= task'[t].attempts
  BY TaskFields DEF TasksChange, Stays, Moves, Releases, Takes, KeepsClaim
<1>3. \A n \in Attempt : approval'[t][n] # "none" => n <= task'[t].attempts
  <2> SUFFICES ASSUME NEW n \in Attempt, approval'[t][n] # "none" PROVE n <= task'[t].attempts
    OBVIOUS
  <2>1. task'[t].attempts \in Nat /\ task[t].attempts \in Nat /\ n \in Nat
    BY DEF TypeOK, TaskRecord, Attempt
  <2>2. CASE Takes(t) /\ n = task'[t].attempts
    BY <2>1, <2>2
  <2>3. CASE approval[t][n] # "none"
    BY <1>2, <2>1, <2>3 DEF TaskInv
  <2> QED  BY <2>2, <2>3 DEF ApprovalsChange
<1>4. task'[t].status # "pending" => \A u \in Deps[t] : Satisfied(u)'
  <2>1. (task[t].status # "pending" \/ Moves(t)) /\ task'[t].status # "pending"
          => \A u \in Deps[t] : Satisfied(u)
    BY DEF TaskInv, Moves
  <2>2. task'[t].status # "pending" => task[t].status # "pending" \/ Moves(t)
    BY DEF TasksChange, Stays, Releases, Takes, CanClaim
  <2> QED  BY <1>1, <2>1, <2>2, TasksGrow
<1>5. task'[t].status = "pending" => task'[t].attempts = 0
  BY TasksGrow DEF TaskInv, KeepsClaim
<1>6. /\ task'[t].status = "completed" => task'[t].out
      /\ task'[t].status = "cancelled" => t \in ExpectedDenied
  <2>1. CASE Stays(t)
    BY <2>1 DEF Stays, TaskInv
  <2>2. CASE Moves(t)
    BY <2>2 DEF Moves
  <2>3. CASE Releases(t)
    BY <2>3 DEF Releases
  <2>4. CASE Takes(t)
    BY <2>4 DEF Takes
  <2> QED  BY <2>1, <2>2, <2>3, <2>4 DEF TasksChange
<1> QED  BY <1>3, <1>4, <1>5, <1>6

\* What a driver remembers stays true, whoever takes the step.
LEMMA ViewStays ==
  ASSUME TypeOK, TaskInv, TasksChange, ApprovalsChange, NEW t \in Tasks, NEW v \in View,
         v.out => task[t].out,
         v.approved => v.claim # 0 /\ approval[t][v.claim] = "approved"
  PROVE  /\ v.out => task'[t].out
         /\ v.approved => v.claim # 0 /\ approval'[t][v.claim] = "approved"
<1>1. v.claim # 0 => v.claim \in Attempt
  BY NaturalLimits DEF View, Attempt
<1> QED  BY <1>1, TasksGrow, DecisionsStay

\* A driver that is not between two awaits is as it was.
LEMMA OtherDriverOK ==
  ASSUME TypeOK, TaskInv, TasksChange, ApprovalsChange, NEW e \in Drivers, DriverOK(e),
         driver'[e] = driver[e], driver[e].pc \notin {"blocked", "activate"}
  PROVE  DriverOK(e)'
<1>1. /\ driver[e].todo \in SUBSET Tasks /\ driver[e].at \in Tasks /\ driver[e].view \in [Tasks -> View]
  BY DriverFields
<1>2. \A t \in Tasks :
        /\ driver[e].view[t].out => task'[t].out
        /\ driver[e].view[t].approved => /\ driver[e].view[t].claim # 0
                                         /\ approval'[t][driver[e].view[t].claim] = "approved"
  BY <1>1, ViewStays DEF DriverOK, TrueView
<1> QED  BY <1>1, <1>2, TasksGrow DEF DriverOK, TrueView

\* A view that claims nothing.
Forgets(v) == ~v.approved /\ ~v.out

LEMMA ViewStep ==
  ASSUME TypeOK, TaskInv, TasksChange, ApprovalsChange, NEW d \in Drivers, DriverOK(d),
         \A t \in Tasks : \/ driver'[d].view[t] = driver[d].view[t]
                          \/ Forgets(driver'[d].view[t])
  PROVE  TrueView(d)'
<1>1. driver[d].view \in [Tasks -> View]
  BY DriverFields
<1>2. \A t \in Tasks :
        /\ driver[d].view[t].out => task'[t].out
        /\ driver[d].view[t].approved => /\ driver[d].view[t].claim # 0
                                         /\ approval'[t][driver[d].view[t].claim] = "approved"
  BY <1>1, ViewStays DEF DriverOK, TrueView
<1> QED  BY <1>2 DEF TrueView, Forgets

LEMMA BlankView ==
  ASSUME NEW n
  PROVE  /\ Forgets(Blank) /\ Forgets([Blank EXCEPT !.claim = n])
         /\ [Blank EXCEPT !.claim = n].claim = n
         /\ \A t \in Tasks : NoView[t] = Blank
  BY DEF Blank, NoView, Forgets

LEMMA SeenView ==
  ASSUME TypeOK, NEW d \in Drivers, NEW S \in SUBSET Tasks, driver'[d].view = Seen(S),
         UNCHANGED <<task, approval>>
  PROVE  TrueView(d)'
  BY SeenFields, BlankView DEF TrueView, Forgets

\* A driver that has stopped, or is about to start.
LEMMA StoppedOK ==
  ASSUME NEW d \in Drivers, driver'[d].pc \in Ended, driver'[d].view = NoView
  PROVE  DriverOK(d)'
<1>1. TrueView(d)'
  BY BlankView DEF TrueView, Forgets
<1> QED  BY <1>1 DEF DriverOK, Ended

(***************************************************************************)
(* The actions, one by one.                                                 *)
(***************************************************************************)
StepOK(d) == TypeOK' /\ TasksChange /\ ApprovalsChange /\ OthersStay(d) /\ DriverOK(d)'

Known == TypeOK /\ ClaimIsCurrent /\ TaskInv /\ DriverInv

LEMMA EnterStep ==
  ASSUME Known, NEW d \in Drivers, Enter(d), overlapped' \in BOOLEAN
  PROVE  StepOK(d)
<1> USE DEF Known
<1>1. UNCHANGED <<plan, task, approval, expired, called, crashes>> /\ run' \in RunStatus
  BY DEF Enter, TypeOK, RunStatus
<1>2. driver' \in [Drivers -> DriverRecord] /\ OthersStay(d) /\ DriverOK(d)'
  <2>1. CASE End(d)
    BY <2>1, StopFields, StoppedOK
  <2>2. CASE NewCycle(d)
    <3>1. driver[d].cycle < MaxCycles[d]
      BY NaturalLimits DEF Enter, DriverInv, DriverOK
    <3>2. WithStatus("running") \in SUBSET Tasks
      BY DEF WithStatus
    <3>3. TrueView(d)'
      BY <1>1, <2>2, <3>1, <3>2, NewCycleFields, SeenView
    <3> QED  BY <1>1, <2>2, <3>1, <3>3, NewCycleFields DEF DriverOK, WithStatus
  <2> QED  BY <2>1, <2>2 DEF Enter
<1> QED  BY <1>1, <1>2, NothingChanges DEF StepOK, TypeOK

LEMMA SettleStep ==
  ASSUME Known, NEW d \in Drivers, Settle(d), overlapped' \in BOOLEAN
  PROVE  StepOK(d)
<1> USE DEF Known
<1>1. UNCHANGED <<plan, task, approval, expired, called, crashes>> /\ run' \in RunStatus
  BY DEF Settle, FailRun, TypeOK, RunStatus
<1>2. driver' \in [Drivers -> DriverRecord] /\ OthersStay(d) /\ DriverOK(d)'
  <2>1. CASE End(d) \/ Raise(d)
    BY <2>1, StopFields, StoppedOK
  <2>2. CASE NewCycle(d) /\ driver[d].cycle < MaxCycles[d]
    <3>1. WithStatus("running") \in SUBSET Tasks
      BY DEF WithStatus
    <3>2. TrueView(d)'
      BY <1>1, <2>2, <3>1, NewCycleFields, SeenView
    <3> QED  BY <1>1, <2>2, <3>2, NewCycleFields DEF DriverOK, WithStatus
  <2> QED  BY <2>1, <2>2 DEF Settle, FailRun
<1> QED  BY <1>1, <1>2, NothingChanges DEF StepOK, TypeOK

\* The task at the head of a loop is dealt with.
LEMMA DoneOK ==
  ASSUME Known, NEW d \in Drivers, driver[d].todo # {}, Done(d), TasksChange, ApprovalsChange,
         driver[d].pc \in {"recover", "ready"}
  PROVE  driver' \in [Drivers -> DriverRecord] /\ OthersStay(d) /\ DriverOK(d)'
<1> USE DEF Known
<1> DEFINE t == First(driver[d].todo)
<1>1. t \in Tasks
  BY FirstIn, DriverFields
<1>2. driver[d].todo \in SUBSET Tasks
  BY DriverFields
<1>3. /\ driver' \in [Drivers -> DriverRecord] /\ OthersStay(d)
      /\ driver'[d].pc = driver[d].pc /\ driver'[d].todo = driver[d].todo \ {t}
      /\ driver'[d].view[t] = Blank
      /\ \A u \in Tasks \ {t} : driver'[d].view[u] = driver[d].view[u]
  BY DoneFields
<1> HIDE DEF t
<1>4. TrueView(d)'
  BY <1>1, <1>3, ViewStep, BlankView DEF DriverInv
<1> QED  BY <1>2, <1>3, <1>4, TasksGrow DEF DriverOK, DriverInv

\* A dispatch; the claim of the task, when there is a new one, is made before.
LEMMA DispatchOK ==
  ASSUME Known, NEW d \in Drivers, NEW t \in driver[d].todo, NEW n \in 1..MaxAttempts,
         NEW via \in {"recover", "ready"}, driver[d].pc \in {"recover", "ready"},
         Dispatch(d, t, n, via), TasksChange, ApprovalsChange
  PROVE  /\ driver' \in [Drivers -> DriverRecord] /\ OthersStay(d) /\ DriverOK(d)'
         /\ called' \subseteq Tasks \X Attempt
<1> USE DEF Known
<1>1. driver[d].todo \in SUBSET Tasks /\ t \in Tasks /\ n \in 0..MaxAttempts
  BY DriverFields
<1>2. /\ driver' \in [Drivers -> DriverRecord] /\ OthersStay(d)
      /\ driver'[d].pc = "call" /\ driver'[d].at = t /\ driver'[d].todo = driver[d].todo \ {t}
      /\ driver'[d].view[t] = [Blank EXCEPT !.claim = n]
      /\ \A u \in Tasks \ {t} : driver'[d].view[u] = driver[d].view[u]
  BY <1>1, DispatchFields
<1>3. TrueView(d)'
  <2>1. Forgets(driver'[d].view[t])
    BY <1>2, BlankView
  <2>2. \A u \in Tasks : driver'[d].view[u] = driver[d].view[u] \/ Forgets(driver'[d].view[u])
    BY <1>2, <2>1
  <2> QED  BY <2>2, ViewStep DEF DriverInv
<1>4. called' \subseteq Tasks \X Attempt
  BY <1>1 DEF Dispatch, TypeOK, Attempt
<1> QED  BY <1>1, <1>2, <1>3, <1>4, TasksGrow DEF DriverOK, DriverInv

LEMMA RecoverStep ==
  ASSUME Known, NEW d \in Drivers, Recover(d), overlapped' \in BOOLEAN
  PROVE  StepOK(d)
<1> USE DEF Known
<1>1. UNCHANGED <<run, plan, approval, expired, crashes>> /\ driver[d].pc = "recover"
  BY DEF Recover
<1>2. ApprovalsChange
  BY <1>1, NothingChanges
<1>3. driver[d].todo \in SUBSET Tasks /\ driver[d].view \in [Tasks -> View]
  BY DriverFields
<1>4. CASE driver[d].todo = {}
  <2>1. Goto(d, "blocked", WithStatus("blocked")) /\ UNCHANGED <<task, called>>
    BY <1>4 DEF Recover
  <2>2. TasksChange
    BY <2>1, NothingChanges
  <2>3. "blocked" \in PC /\ WithStatus("blocked") \in SUBSET Tasks
    BY DEF PC, Sync, WithStatus
  <2>4. /\ driver' \in [Drivers -> DriverRecord] /\ OthersStay(d) /\ driver'[d].pc = "blocked"
        /\ driver'[d].todo = WithStatus("blocked") /\ driver'[d].view = driver[d].view
    BY <2>1, <2>3, GotoFields
  <2>5. TrueView(d)'
    BY <1>2, <2>2, <2>4, ViewStep DEF DriverInv
  <2>6. DriverOK(d)'
    BY <2>1, <2>4, <2>5 DEF DriverOK, WithStatus
  <2> QED  BY <1>1, <1>2, <2>1, <2>2, <2>4, <2>6 DEF StepOK, TypeOK
<1>5. CASE driver[d].todo # {}
  <2> DEFINE t == First(driver[d].todo)
  <2>1. t \in driver[d].todo /\ t \in Tasks /\ task[t].status # "pending"
    BY <1>1, <1>3, <1>5, FirstIn DEF DriverInv, DriverOK
  <2>2. RecoverUnclaimed(d, t) \/ RecoverFinished(d, t) \/ RecoverResume(d, t) \/ RecoverRefused(d, t)
    BY <1>5 DEF Recover
  <2> HIDE DEF t
  <2>3. CASE task' = task /\ Raise(d) /\ called' = called
    <3>1. TasksChange
      BY <2>3, NothingChanges
    <3>2. driver' \in [Drivers -> DriverRecord] /\ OthersStay(d) /\ DriverOK(d)'
      BY <2>3, StopFields, StoppedOK
    <3> QED  BY <1>1, <1>2, <2>3, <3>1, <3>2 DEF StepOK, TypeOK
  <2>4. ASSUME Done(d), task' \in [Tasks -> TaskRecord], called' = called, TasksChange PROVE StepOK(d)
    <3>1. driver' \in [Drivers -> DriverRecord] /\ OthersStay(d) /\ DriverOK(d)'
      BY <1>1, <1>2, <1>5, <2>4, DoneOK
    <3> QED  BY <1>1, <1>2, <2>4, <3>1 DEF StepOK, TypeOK
  <2>5. CASE RecoverUnclaimed(d, t)
    <3>1. CASE CanBecome(t, "blocked") /\ SetStatus(t, "blocked") /\ Done(d) /\ called' = called
      <4>1. "blocked" \in TaskStatus
        BY DEF TaskStatus
      <4>2. task' \in [Tasks -> TaskRecord] /\ TasksChange
        <5>1. task[t].status \notin TaskTerminal
          BY <3>1, TaskFields, <2>1 DEF CanBecome, TaskTransitions, TaskTerminal
        <5>2. /\ task' \in [Tasks -> TaskRecord] /\ task'[t].status = "blocked" /\ KeepsClaim(t)
              /\ task'[t].out = task[t].out /\ \A u \in Tasks \ {t} : task'[u] = task[u]
          BY <2>1, <3>1, <4>1, StatusFields
        <5>3. Moves(t)
          BY <2>1, <5>1, <5>2 DEF Moves
        <5> QED  BY <2>1, <5>2, <5>3, OneTaskChanges
      <4> QED  BY <2>4, <3>1, <4>2
    <3> QED  BY <2>3, <2>5, <3>1 DEF RecoverUnclaimed
  <2>6. CASE RecoverFinished(d, t)
    <3>1. CASE Owned(t, driver[d].view[t].claim) /\ Complete(t) /\ Done(d) /\ called' = called
      <4>1. task[t].out
        BY <2>1, <2>6 DEF RecoverFinished, DriverInv, DriverOK, TrueView
      <4>2. task' \in [Tasks -> TaskRecord] /\ TasksChange
        BY <2>1, <3>1, <4>1, CompleteChanges, OneTaskChanges DEF Owned
      <4> QED  BY <2>4, <3>1, <4>2
    <3> QED  BY <2>3, <2>6, <3>1 DEF RecoverFinished
  <2>7. CASE RecoverResume(d, t)
    <3>1. task' = task /\ Dispatch(d, t, driver[d].view[t].claim, "recover")
      BY <2>7 DEF RecoverResume
    <3>2. driver[d].view[t].claim \in 1..MaxAttempts
      BY <1>3, <2>1, <2>7, NaturalLimits DEF RecoverResume, View
    <3>3. TasksChange
      BY <3>1, NothingChanges
    <3>4. /\ driver' \in [Drivers -> DriverRecord] /\ OthersStay(d) /\ DriverOK(d)'
          /\ called' \subseteq Tasks \X Attempt
      BY <1>1, <1>2, <2>1, <3>1, <3>2, <3>3, DispatchOK
    <3> QED  BY <1>1, <1>2, <3>1, <3>3, <3>4 DEF StepOK, TypeOK
  <2>8. CASE RecoverRefused(d, t)
    <3>1. CASE Owned(t, driver[d].view[t].claim) /\ RecordFailure(t) /\ Done(d) /\ called' = called
      <4>1. task' \in [Tasks -> TaskRecord] /\ TasksChange
        BY <2>1, <3>1, RecordFailureChanges, OneTaskChanges DEF Owned
      <4> QED  BY <2>4, <3>1, <4>1
    <3> QED  BY <2>3, <2>8, <3>1 DEF RecoverRefused
  <2> QED  BY <2>2, <2>5, <2>6, <2>7, <2>8
<1> QED  BY <1>4, <1>5

LEMMA BlockedStep ==
  ASSUME Known, NEW d \in Drivers, Blocked(d), overlapped' \in BOOLEAN
  PROVE  StepOK(d)
<1> USE DEF Known
<1>1. UNCHANGED <<plan, approval, expired, called, crashes>> /\ driver[d].pc = "blocked" /\ run' \in RunStatus
  BY DEF Blocked, FailRun, TypeOK, RunStatus
<1>2. ApprovalsChange
  BY <1>1, NothingChanges
<1>3. driver[d].todo \in SUBSET WithStatus("blocked") /\ driver[d].todo \in SUBSET Tasks
  BY <1>1, DriverFields DEF DriverInv, DriverOK
<1>4. CASE driver[d].todo # {}
  <2> DEFINE t == First(driver[d].todo)
  <2>1. t \in driver[d].todo /\ t \in Tasks /\ task[t].status = "blocked"
    BY <1>3, <1>4, FirstIn DEF WithStatus
  <2>2. PICK s \in {"ready", "failed"} : SetStatus(t, s)
    BY <1>4 DEF Blocked
  <2>3. Done(d)
    BY <1>4 DEF Blocked
  <2>4. /\ driver' \in [Drivers -> DriverRecord] /\ OthersStay(d) /\ driver'[d].pc = "blocked"
        /\ driver'[d].todo = driver[d].todo \ {t} /\ driver'[d].view[t] = Blank
        /\ \A u \in Tasks \ {t} : driver'[d].view[u] = driver[d].view[u]
    BY <1>1, <1>4, <2>3, DoneFields
  <2> HIDE DEF t
  <2>5. /\ task' \in [Tasks -> TaskRecord] /\ task'[t].status = s /\ KeepsClaim(t)
        /\ task'[t].out = task[t].out /\ \A u \in Tasks \ {t} : task'[u] = task[u]
    BY <2>1, <2>2, StatusFields DEF TaskStatus
  <2>6. Moves(t)
    BY <2>1, <2>5 DEF Moves, TaskTerminal
  <2>7. TasksChange
    BY <2>1, <2>5, <2>6, OneTaskChanges
  <2>8. TrueView(d)'
    <3>1. \A u \in Tasks : driver'[d].view[u] = driver[d].view[u] \/ Forgets(driver'[d].view[u])
      BY <2>4, BlankView
    <3> QED  BY <1>2, <2>7, <3>1, ViewStep DEF DriverInv
  <2>9. driver'[d].todo \subseteq WithStatus("blocked")'
    BY <1>3, <2>4, <2>5 DEF WithStatus
  <2>10. DriverOK(d)'
    BY <2>4, <2>8, <2>9 DEF DriverOK
  <2> QED  BY <1>1, <1>2, <2>4, <2>5, <2>7, <2>10 DEF StepOK, TypeOK
<1>5. CASE driver[d].todo = {} /\ AnyFailed /\ FailRun(d) /\ task' = task
  <2>1. driver' \in [Drivers -> DriverRecord] /\ OthersStay(d) /\ DriverOK(d)'
    BY <1>5, StopFields, StoppedOK DEF FailRun
  <2> QED  BY <1>1, <1>2, <1>5, <2>1, NothingChanges DEF StepOK, TypeOK
<1>6. CASE Goto(d, "activate", Runnable) /\ task' = task
  <2>1. "activate" \in PC /\ Runnable \in SUBSET Tasks
    BY DEF PC, Sync, Runnable, WithStatus
  <2>2. /\ driver' \in [Drivers -> DriverRecord] /\ OthersStay(d) /\ driver'[d].pc = "activate"
        /\ driver'[d].todo = Runnable /\ driver'[d].view = driver[d].view
    BY <1>6, <2>1, GotoFields
  <2>3. TasksChange
    BY <1>6, NothingChanges
  <2>4. TrueView(d)'
    BY <1>2, <2>2, <2>3, ViewStep DEF DriverInv
  <2>5. Runnable' = Runnable
    BY <1>6 DEF Runnable, WithStatus, Satisfied
  <2>6. DriverOK(d)'
    BY <2>2, <2>4, <2>5 DEF DriverOK
  <2> QED  BY <1>1, <1>2, <1>6, <2>2, <2>3, <2>6 DEF StepOK, TypeOK
<1> QED  BY <1>4, <1>5, <1>6 DEF Blocked

LEMMA ActivateStep ==
  ASSUME Known, NEW d \in Drivers, Activate(d), overlapped' \in BOOLEAN
  PROVE  StepOK(d)
<1> USE DEF Known
<1>1. UNCHANGED <<run, plan, approval, expired, called, crashes>> /\ driver[d].pc = "activate"
  BY DEF Activate
<1>2. ApprovalsChange
  BY <1>1, NothingChanges
<1>3. driver[d].todo \in SUBSET Runnable /\ driver[d].todo \in SUBSET Tasks
  BY <1>1, DriverFields DEF DriverInv, DriverOK
<1>4. CASE driver[d].todo # {}
  <2> DEFINE t == First(driver[d].todo)
  <2>1. t \in driver[d].todo /\ t \in Tasks /\ t \in Runnable
    BY <1>3, <1>4, FirstIn
  <2>2. SetStatus(t, "ready") /\ Done(d)
    BY <1>4 DEF Activate
  <2>3. /\ driver' \in [Drivers -> DriverRecord] /\ OthersStay(d) /\ driver'[d].pc = "activate"
        /\ driver'[d].todo = driver[d].todo \ {t} /\ driver'[d].view[t] = Blank
        /\ \A u \in Tasks \ {t} : driver'[d].view[u] = driver[d].view[u]
    BY <1>1, <1>4, <2>2, DoneFields
  <2> HIDE DEF t
  <2>4. /\ task' \in [Tasks -> TaskRecord] /\ task'[t].status = "ready" /\ KeepsClaim(t)
        /\ task'[t].out = task[t].out /\ \A u \in Tasks \ {t} : task'[u] = task[u]
    BY <2>1, <2>2, StatusFields DEF TaskStatus
  <2>5. Moves(t)
    BY <2>1, <2>4 DEF Moves, TaskTerminal, Runnable, WithStatus
  <2>6. TasksChange
    BY <2>1, <2>4, <2>5, OneTaskChanges
  <2>7. TrueView(d)'
    <3>1. \A u \in Tasks : driver'[d].view[u] = driver[d].view[u] \/ Forgets(driver'[d].view[u])
      BY <2>3, BlankView
    <3> QED  BY <1>2, <2>6, <3>1, ViewStep DEF DriverInv
  <2>8. driver'[d].todo \subseteq Runnable'
    <3>1. \A u \in driver'[d].todo : u \in Runnable /\ u \in Tasks \ {t}
      BY <1>3, <2>3
    <3>2. \A u \in Tasks : Deps[u] \subseteq Tasks
      BY TaskGraph
    <3> QED  BY <2>4, <2>6, <3>1, <3>2, TasksGrow DEF Runnable, WithStatus
  <2>9. DriverOK(d)'
    BY <2>3, <2>7, <2>8 DEF DriverOK
  <2> QED  BY <1>1, <1>2, <2>3, <2>4, <2>6, <2>9 DEF StepOK, TypeOK
<1>5. CASE driver[d].todo = {}
  <2> DEFINE S == WithStatus("ready")
             r == [driver[d] EXCEPT !.pc = "ready", !.todo = S, !.view = Seen(S)]
  <2>1. S \in SUBSET Tasks
    BY DEF WithStatus
  <2>2. Seen(S) \in [Tasks -> View]
    BY <2>1, SeenFields
  <2>3. driver[d] \in DriverRecord
    BY DriverFields
  <2>4. task' = task /\ driver' = [driver EXCEPT ![d] = r]
    BY <1>5, <2>3 DEF Activate, TypeOK
  <2> HIDE DEF S
  <2>5. r \in DriverRecord /\ r.pc = "ready" /\ r.todo = S /\ r.view = Seen(S)
    BY <2>1, <2>2, <2>3 DEF DriverRecord, Sync
  <2> HIDE DEF r
  <2>6. driver'[d] = r /\ OthersStay(d) /\ driver' \in [Drivers -> DriverRecord]
    BY <2>4, <2>5 DEF TypeOK, OthersStay
  <2>7. TrueView(d)'
    BY <1>1, <2>1, <2>4, <2>5, <2>6, SeenView
  <2>8. \A t \in S : task'[t].status # "pending"
    BY <2>4 DEF S, WithStatus
  <2>9. DriverOK(d)'
    BY <2>5, <2>6, <2>7, <2>8 DEF DriverOK
  <2> QED  BY <1>1, <1>2, <2>4, <2>6, <2>9, NothingChanges DEF StepOK, TypeOK
<1> QED  BY <1>4, <1>5

\* The record of a task that is claimed anew.
Claimed(t, s, l) == [task[t] EXCEPT !.status = s, !.claim = task[t].attempts + 1,
                                    !.attempts = task[t].attempts + 1, !.link = l]

LEMMA ClaimedChanges ==
  ASSUME TypeOK, NEW t \in Tasks, CanClaim(t), NEW s \in {"running", "waiting_approval"},
         NEW l \in {task[t].link, task[t].attempts + 1},
         s = "waiting_approval" => l = task[t].attempts + 1,
         task' = [task EXCEPT ![t] = Claimed(t, s, l)]
  PROVE  /\ task[t].attempts + 1 \in Attempt
         /\ task' \in [Tasks -> TaskRecord] /\ Takes(t) /\ TasksChange
         /\ task'[t].attempts = task[t].attempts + 1 /\ task'[t].claim = task[t].attempts + 1
         /\ task'[t].status = s /\ task'[t].link = l /\ \A u \in Tasks \ {t} : task'[u] = task[u]
<1> DEFINE n == task[t].attempts + 1
           r == Claimed(t, s, l)
<1>1. task[t] \in TaskRecord
  BY TaskFields
<1>2. n \in Attempt /\ n \in 0..MaxAttempts /\ n # 0 /\ l \in 0..MaxAttempts /\ s \in TaskStatus
  BY TaskFields, NaturalLimits DEF CanClaim, Attempt, TaskStatus
<1>3. /\ r \in TaskRecord /\ r.status = s /\ r.claim = n /\ r.attempts = n /\ r.link = l
      /\ r.out = task[t].out
  BY <1>1, <1>2 DEF TaskRecord, Claimed
<1> HIDE DEF r
<1>4. task' \in [Tasks -> TaskRecord] /\ task'[t] = r /\ \A u \in Tasks \ {t} : task'[u] = task[u]
  BY <1>3, ReplaceTask DEF r
<1>5. Takes(t)
  BY <1>3, <1>4 DEF Takes
<1> QED  BY <1>2, <1>3, <1>4, <1>5, OneTaskChanges

\* An approval is asked for under the new claim.
LEMMA AskedChanges ==
  ASSUME TypeOK, NEW t \in Tasks, NEW n \in Attempt, Takes(t), task'[t].attempts = n,
         approval' = [approval EXCEPT ![t][n] = "pending"]
  PROVE  /\ approval' \in [Tasks -> [Attempt -> ApprovalStatus]] /\ ApprovalsChange
         /\ approval'[t][n] = "pending"
<1>1. approval' \in [Tasks -> [Attempt -> ApprovalStatus]]
  BY DEF TypeOK, ApprovalStatus
<1>2. approval'[t][n] = "pending"
  BY DEF TypeOK
<1>3. \A u \in Tasks, m \in Attempt : u # t \/ m # n => approval'[u][m] = approval[u][m]
  BY DEF TypeOK
<1> QED  BY <1>1, <1>2, <1>3 DEF ApprovalsChange

LEMMA StatusMoves ==
  ASSUME TypeOK, NEW t \in Tasks, NEW s \in {"failed", "cancelled", "blocked"}, SetStatus(t, s),
         task[t].status \notin TaskTerminal \cup {"pending"}, s = "cancelled" => t \in ExpectedDenied
  PROVE  /\ task' \in [Tasks -> TaskRecord] /\ TasksChange /\ task'[t].status = s
         /\ \A u \in Tasks \ {t} : task'[u] = task[u]
<1>1. s \in TaskStatus
  BY DEF TaskStatus
<1>2. /\ task' \in [Tasks -> TaskRecord] /\ task'[t].status = s /\ KeepsClaim(t)
      /\ task'[t].out = task[t].out /\ \A u \in Tasks \ {t} : task'[u] = task[u]
  BY <1>1, StatusFields
<1>3. Moves(t)
  BY <1>2 DEF Moves
<1> QED  BY <1>2, <1>3, OneTaskChanges

\* Who can be blocked has not ended.
LEMMA BlockableIsOpen ==
  ASSUME TypeOK, NEW t \in Tasks, CanBecome(t, "blocked")
  PROVE  task[t].status \in {"pending", "ready", "running", "waiting_approval"}
  BY TaskFields DEF CanBecome, TaskTransitions, TaskStatus

LEMMA ReadyStep ==
  ASSUME Known, NEW d \in Drivers, Ready(d), overlapped' \in BOOLEAN
  PROVE  StepOK(d)
<1> USE DEF Known
<1>1. UNCHANGED <<plan, expired, crashes>> /\ driver[d].pc = "ready"
  BY DEF Ready
<1>2. driver[d].todo \in SUBSET Tasks /\ driver[d].view \in [Tasks -> View]
  BY DriverFields
<1>3. CASE driver[d].todo = {}
  <2>1. Goto(d, "settle", {}) /\ UNCHANGED <<run, task, approval, called>>
    BY <1>3 DEF Ready
  <2>2. TasksChange /\ ApprovalsChange
    BY <2>1, NothingChanges
  <2>3. "settle" \in PC
    BY DEF PC, Sync
  <2>4. /\ driver' \in [Drivers -> DriverRecord] /\ OthersStay(d) /\ driver'[d].pc = "settle"
        /\ driver'[d].view = driver[d].view
    BY <2>1, <2>3, GotoFields
  <2>5. TrueView(d)'
    BY <2>2, <2>4, ViewStep DEF DriverInv
  <2>6. DriverOK(d)'
    BY <2>4, <2>5 DEF DriverOK
  <2> QED  BY <1>1, <2>1, <2>2, <2>4, <2>6 DEF StepOK, TypeOK
<1>4. CASE driver[d].todo # {}
  <2> DEFINE t == First(driver[d].todo)
  <2>1. t \in driver[d].todo /\ t \in Tasks /\ task[t].status # "pending"
    BY <1>1, <1>2, <1>4, FirstIn DEF DriverInv, DriverOK
  <2>2. \/ Deny(d, t) \/ AskApproval(d, t) \/ AskAgain(d, t) \/ AskRefused(d, t)
        \/ ClaimAndDispatch(d, t) \/ ClaimRefused(d, t)
    BY <1>4 DEF Ready
  <2> HIDE DEF t
  <2>3. CASE task' = task /\ Raise(d) /\ UNCHANGED <<run, approval, called>>
    <3>1. TasksChange /\ ApprovalsChange
      BY <2>3, NothingChanges
    <3>2. driver' \in [Drivers -> DriverRecord] /\ OthersStay(d) /\ DriverOK(d)'
      BY <2>3, StopFields, StoppedOK
    <3> QED  BY <1>1, <2>3, <3>1, <3>2 DEF StepOK, TypeOK
  <2>4. ASSUME Done(d), task' \in [Tasks -> TaskRecord], TasksChange, UNCHANGED <<run, approval, called>>
        PROVE  StepOK(d)
    <3>1. ApprovalsChange
      BY <2>4, NothingChanges
    <3>2. driver' \in [Drivers -> DriverRecord] /\ OthersStay(d) /\ DriverOK(d)'
      BY <1>1, <1>4, <2>4, <3>1, DoneOK
    <3> QED  BY <1>1, <2>4, <3>1, <3>2 DEF StepOK, TypeOK
  <2>5. ASSUME NEW s \in {"failed", "cancelled"}, Close(d, t, s), s = "cancelled" => t \in ExpectedDenied,
               UNCHANGED <<run, approval, called>>
        PROVE  StepOK(d)
    <3>1. CASE CanBecome(t, "blocked") /\ SetStatus(t, s) /\ Done(d)
      <4>1. task[t].status \notin TaskTerminal \cup {"pending"}
        BY <2>1, <3>1, BlockableIsOpen DEF TaskTerminal
      <4>2. task' \in [Tasks -> TaskRecord] /\ TasksChange
        BY <2>1, <2>5, <3>1, <4>1, StatusMoves
      <4> QED  BY <2>4, <2>5, <3>1, <4>2
    <3> QED  BY <2>3, <2>5, <3>1 DEF Close
  <2>6. CASE Deny(d, t)
    BY <2>5, <2>6 DEF Deny
  <2>7. CASE AskApproval(d, t)
    <3> DEFINE n == task[t].attempts + 1
    <3>1. CanClaim(t) /\ Done(d) /\ called' = called
      BY <2>7 DEF AskApproval
    <3>2. task' = [task EXCEPT ![t] = Claimed(t, "waiting_approval", n)]
      BY <2>1, <2>7 DEF AskApproval, Claimed, TypeOK, TaskRecord
    <3>3. /\ n \in Attempt /\ task' \in [Tasks -> TaskRecord] /\ Takes(t) /\ TasksChange
          /\ task'[t].attempts = n
      BY <2>1, <3>1, <3>2, ClaimedChanges
    <3>4. approval' = [approval EXCEPT ![t][n] = "pending"] /\ run' \in RunStatus
      BY <2>7 DEF AskApproval, TypeOK, RunStatus
    <3>5. approval' \in [Tasks -> [Attempt -> ApprovalStatus]] /\ ApprovalsChange
      BY <2>1, <3>3, <3>4, AskedChanges
    <3>6. driver' \in [Drivers -> DriverRecord] /\ OthersStay(d) /\ DriverOK(d)'
      BY <1>1, <1>4, <3>1, <3>3, <3>5, DoneOK
    <3> QED  BY <1>1, <3>1, <3>3, <3>4, <3>5, <3>6 DEF StepOK, TypeOK
  <2>8. CASE AskAgain(d, t)
    <3> DEFINE r == FailedAttempt(t, task[t].attempts + 1)
    <3>1. CanClaim(t) /\ Done(d) /\ UNCHANGED <<run, approval, called>> /\ task' = [task EXCEPT ![t] = r]
      BY <2>8 DEF AskAgain
    <3>2. task[t].attempts + 1 \in Attempt
      BY <2>1, <3>1, TaskFields, NaturalLimits DEF CanClaim, Attempt
    <3>3. /\ r \in TaskRecord /\ r.status \in {"blocked", "failed"} /\ r.claim = 0
          /\ r.attempts = task[t].attempts + 1 /\ r.out = task[t].out
      BY <2>1, <3>2, FailedFields
    <3> HIDE DEF r
    <3>4. task' \in [Tasks -> TaskRecord] /\ task'[t] = r /\ \A u \in Tasks \ {t} : task'[u] = task[u]
      BY <2>1, <3>1, <3>3, ReplaceTask
    <3>5. Takes(t)
      BY <3>1, <3>3, <3>4 DEF Takes
    <3> QED  BY <2>1, <2>4, <3>1, <3>4, <3>5, OneTaskChanges
  <2>9. CASE AskRefused(d, t)
    <3>1. CASE task[t].status # "running" /\ Close(d, t, "failed")
      BY <2>5, <2>9, <3>1 DEF AskRefused
    <3>2. CASE task[t].status = "running" /\ task[t].claim # 0 /\ RecordFailure(t) /\ Done(d)
      <4>1. task' \in [Tasks -> TaskRecord] /\ TasksChange
        BY <2>1, <3>2, RecordFailureChanges, OneTaskChanges
      <4> QED  BY <2>4, <2>9, <3>2, <4>1 DEF AskRefused
    <3> QED  BY <2>3, <2>9, <3>1, <3>2 DEF AskRefused
  <2>10. CASE ClaimAndDispatch(d, t)
    <3> DEFINE n == task[t].attempts + 1
    <3>1. CanClaim(t) /\ Dispatch(d, t, n, "ready") /\ UNCHANGED <<run, approval>>
      BY <2>10 DEF ClaimAndDispatch
    <3>2. task' = [task EXCEPT ![t] = Claimed(t, "running", task[t].link)]
      BY <2>1, <2>10 DEF ClaimAndDispatch, Claimed, TypeOK, TaskRecord
    <3>3. n \in Attempt /\ task' \in [Tasks -> TaskRecord] /\ TasksChange
      BY <2>1, <3>1, <3>2, ClaimedChanges
    <3>4. ApprovalsChange
      BY <3>1, NothingChanges
    <3>5. n \in 1..MaxAttempts
      BY <3>3 DEF Attempt
    <3> HIDE DEF n
    <3>6. /\ driver' \in [Drivers -> DriverRecord] /\ OthersStay(d) /\ DriverOK(d)'
          /\ called' \subseteq Tasks \X Attempt
      BY <1>1, <2>1, <3>1, <3>3, <3>4, <3>5, DispatchOK
    <3> QED  BY <1>1, <3>1, <3>3, <3>4, <3>6 DEF StepOK, TypeOK
  <2>11. CASE ClaimRefused(d, t)
    <3>1. CASE task[t].status = "ready" /\ SetStatus(t, "failed")
      <4>1. task' \in [Tasks -> TaskRecord] /\ TasksChange
        BY <2>1, <3>1, StatusMoves DEF TaskTerminal
      <4> QED  BY <2>4, <2>11, <4>1 DEF ClaimRefused
    <3>2. CASE task' = task
      BY <2>4, <2>11, <3>2, NothingChanges DEF ClaimRefused, TypeOK
    <3> QED  BY <2>11, <3>1, <3>2 DEF ClaimRefused
  <2> QED  BY <2>2, <2>6, <2>7, <2>8, <2>9, <2>10, <2>11
<1> QED  BY <1>3, <1>4

\* A driver goes on after a dispatch.
LEMMA BackOK ==
  ASSUME Known, NEW d \in Drivers, driver[d].pc \in {"call", "returned"},
         driver' = [driver EXCEPT ![d] = Back(d)], TasksChange, ApprovalsChange
  PROVE  driver' \in [Drivers -> DriverRecord] /\ OthersStay(d) /\ DriverOK(d)'
<1> USE DEF Known
<1>1. /\ driver[d].todo \in SUBSET Tasks /\ driver[d].at \in Tasks
      /\ driver[d].via \in {"recover", "ready"}
  BY DriverFields
<1>2. /\ driver' \in [Drivers -> DriverRecord] /\ OthersStay(d)
      /\ driver'[d].pc = driver[d].via /\ driver'[d].todo = driver[d].todo
      /\ driver'[d].view[driver[d].at] = Blank
      /\ \A u \in Tasks \ {driver[d].at} : driver'[d].view[u] = driver[d].view[u]
  BY BackFields
<1>3. \A u \in Tasks : driver'[d].view[u] = driver[d].view[u] \/ Forgets(driver'[d].view[u])
  BY <1>2, BlankView
<1>4. TrueView(d)'
  BY <1>3, ViewStep DEF DriverInv
<1> QED  BY <1>1, <1>2, <1>4, TasksGrow DEF DriverOK, DriverInv

\* The files of a task, and nothing else, may have been written.
Written(files, t) ==
  /\ files \in [Tasks -> TaskRecord] /\ \A u \in Tasks \ {t} : files[u] = task[u]
  /\ files[t].status = task[t].status /\ files[t].claim = task[t].claim
  /\ files[t].attempts = task[t].attempts /\ files[t].link = task[t].link
  /\ files[t].out = task[t].out

LEMMA WrittenFields ==
  ASSUME TypeOK, NEW t \in Tasks, NEW c \in Contents \cup {NoContent}
  PROVE  Written([task EXCEPT ![t].part = c], t) /\ Written(task, t)
<1>1. task[t] \in TaskRecord
  BY TaskFields
<1>2. [task[t] EXCEPT !.part = c] \in TaskRecord
  BY <1>1 DEF TaskRecord
<1> QED  BY <1>1, <1>2 DEF Written, TypeOK, TaskRecord

LEMMA UnownedChanges ==
  ASSUME Known, NEW d \in Drivers, NEW t \in Tasks, NEW files, Written(files, t), Unowned(d, t, files),
         driver[d].pc \in {"call", "returned"}, approval' = approval
  PROVE  /\ task' \in [Tasks -> TaskRecord] /\ TasksChange /\ ApprovalsChange
         /\ driver' \in [Drivers -> DriverRecord] /\ OthersStay(d) /\ DriverOK(d)'
<1> USE DEF Known
<1>1. ASSUME task' = files PROVE task' \in [Tasks -> TaskRecord] /\ TasksChange
  BY <1>1, OneTaskChanges DEF Written, Stays, KeepsClaim
<1>2. ASSUME task[t].status = "ready", task' = [files EXCEPT ![t].status = "failed"]
      PROVE  task' \in [Tasks -> TaskRecord] /\ TasksChange
  <2> DEFINE r == [files[t] EXCEPT !.status = "failed"]
  <2>1. files[t] \in TaskRecord
    BY DEF Written
  <2>2. "failed" \in TaskStatus
    BY DEF TaskStatus
  <2>3. /\ r \in TaskRecord /\ r.status = "failed" /\ r.claim = files[t].claim
        /\ r.attempts = files[t].attempts /\ r.link = files[t].link /\ r.out = files[t].out
    BY <2>1, <2>2 DEF TaskRecord
  <2>4. task' = [files EXCEPT ![t] = r]
    BY <1>2 DEF Written
  <2> HIDE DEF r
  <2>5. task' \in [Tasks -> TaskRecord] /\ task'[t] = r /\ \A u \in Tasks \ {t} : task'[u] = task[u]
    BY <2>3, <2>4 DEF Written
  <2>6. Moves(t)
    BY <1>2, <2>3, <2>5 DEF Moves, KeepsClaim, TaskTerminal, Written
  <2> QED  BY <2>5, <2>6, OneTaskChanges
<1>3. task' \in [Tasks -> TaskRecord] /\ TasksChange
  BY <1>1, <1>2 DEF Unowned
<1>4. ApprovalsChange
  BY NothingChanges
<1>5. driver' \in [Drivers -> DriverRecord] /\ OthersStay(d) /\ DriverOK(d)'
  BY <1>3, <1>4, BackOK, StopFields, StoppedOK DEF Unowned
<1> QED  BY <1>3, <1>4, <1>5

LEMMA CallSucceedsStep ==
  ASSUME Known, NEW d \in Drivers, NEW c \in Contents, CallSucceeds(d, c), overlapped' \in BOOLEAN
  PROVE  StepOK(d)
<1> USE DEF Known
<1> DEFINE t == driver[d].at
<1> DEFINE r == [task[t] EXCEPT !.part = c, !.out = TRUE]
<1>1. /\ UNCHANGED <<run, plan, approval, expired, called, crashes>> /\ driver[d].pc = "call"
      /\ driver' = [driver EXCEPT ![d].pc = "returned"]
  BY DEF CallSucceeds, Resumed
<1>2. t \in Tasks /\ driver[d] \in DriverRecord /\ driver[d].todo \in SUBSET Tasks
  BY DriverFields
<1>3. task[t] \in TaskRecord
  BY <1>2, TaskFields
<1>4. task' = [task EXCEPT ![t] = r]
  <2>1. task' = [task EXCEPT ![t].part = c, ![t].out = TRUE]
    BY DEF CallSucceeds
  <2> HIDE DEF t
  <2> QED  BY <1>2, <1>3, <2>1 DEF TypeOK, TaskRecord
<1>5. /\ r \in TaskRecord /\ r.status = task[t].status /\ r.claim = task[t].claim /\ r.out
      /\ r.attempts = task[t].attempts /\ r.link = task[t].link
  BY <1>3 DEF TaskRecord
<1>6. /\ driver' \in [Drivers -> DriverRecord] /\ OthersStay(d) /\ driver'[d].pc = "returned"
      /\ driver'[d].at = t /\ driver'[d].todo = driver[d].todo /\ driver'[d].view = driver[d].view
  BY <1>1, <1>2 DEF TypeOK, DriverRecord, OthersStay, Sync
<1> HIDE DEF t, r
<1>7. task' \in [Tasks -> TaskRecord] /\ task'[t] = r /\ \A u \in Tasks \ {t} : task'[u] = task[u]
  BY <1>2, <1>4, <1>5, ReplaceTask
<1>8. TasksChange
  BY <1>2, <1>5, <1>7, OneTaskChanges DEF Stays, KeepsClaim
<1>9. ApprovalsChange
  BY <1>1, NothingChanges
<1>10. TrueView(d)'
  BY <1>6, <1>8, <1>9, ViewStep DEF DriverInv
<1>11. DriverOK(d)'
  <2>1. task[t].status # "pending" /\ t \notin driver[d].todo
    BY <1>1 DEF DriverInv, DriverOK, t
  <2>2. \A u \in driver[d].todo : task[u].status # "pending"
    BY <1>1 DEF DriverInv, DriverOK
  <2>3. \A u \in Tasks : task[u].status # "pending" => task'[u].status # "pending"
    BY <1>8, TasksGrow
  <2>4. task'[t].out
    BY <1>5, <1>7
  <2> QED  BY <1>2, <1>6, <1>10, <2>1, <2>2, <2>3, <2>4 DEF DriverOK
<1> QED  BY <1>1, <1>6, <1>7, <1>8, <1>9, <1>11 DEF StepOK, TypeOK

LEMMA CallFailsStep ==
  ASSUME Known, NEW d \in Drivers, NEW c \in Contents \cup {NoContent}, CallFails(d, c),
         overlapped' \in BOOLEAN
  PROVE  StepOK(d)
<1> USE DEF Known
<1> DEFINE t == driver[d].at
           files == IF task[t].part = NoContent THEN [task EXCEPT ![t].part = c] ELSE task
<1>1. UNCHANGED <<run, plan, approval, expired, called, crashes>> /\ driver[d].pc = "call"
  BY DEF CallFails, Resumed
<1>2. t \in Tasks
  BY DriverFields
<1>3. Written(files, t)
  BY <1>2, WrittenFields
<1>4. CASE Owned(t, driver[d].view[t].claim)
  <2> DEFINE f == FailedAttempt(t, task[t].attempts)
             r == [f EXCEPT !.part = files[t].part]
  <2>1. task' = [files EXCEPT ![t] = r] /\ driver' = [driver EXCEPT ![d] = Back(d)]
    BY <1>4 DEF CallFails
  <2>2. task[t].attempts \in Attempt /\ task[t].status = "running" /\ task[t].claim # 0
    BY <1>2, <1>4, TaskFields, NaturalLimits DEF Owned, ClaimIsCurrent, Attempt
  <2>3. /\ f \in TaskRecord /\ f.status \in {"blocked", "failed"} /\ f.claim = 0
        /\ f.attempts = task[t].attempts /\ f.link = task[t].link /\ f.out = task[t].out
    BY <1>2, <2>2, FailedFields
  <2>4. files[t].part \in Contents \cup {NoContent}
    BY <1>2, <1>3 DEF Written, TaskRecord
  <2> HIDE DEF f, files
  <2>5. /\ r \in TaskRecord /\ r.status = f.status /\ r.claim = 0 /\ r.attempts = task[t].attempts
        /\ r.link = task[t].link /\ r.out = task[t].out
    BY <2>3, <2>4 DEF TaskRecord
  <2> HIDE DEF r
  <2>6. task' \in [Tasks -> TaskRecord] /\ task'[t] = r /\ \A u \in Tasks \ {t} : task'[u] = task[u]
    BY <1>2, <1>3, <2>1, <2>5 DEF Written
  <2>7. Releases(t)
    BY <2>2, <2>3, <2>5, <2>6 DEF Releases
  <2>8. TasksChange /\ ApprovalsChange
    BY <1>1, <1>2, <2>6, <2>7, OneTaskChanges, NothingChanges
  <2>9. driver' \in [Drivers -> DriverRecord] /\ OthersStay(d) /\ DriverOK(d)'
    BY <1>1, <2>1, <2>8, BackOK
  <2> QED  BY <1>1, <2>6, <2>8, <2>9 DEF StepOK, TypeOK
<1>5. CASE ~Owned(t, driver[d].view[t].claim)
  <2>1. Unowned(d, t, files)
    BY <1>5 DEF CallFails
  <2> HIDE DEF files, t
  <2>2. /\ task' \in [Tasks -> TaskRecord] /\ TasksChange /\ ApprovalsChange
        /\ driver' \in [Drivers -> DriverRecord] /\ OthersStay(d) /\ DriverOK(d)'
    BY <1>1, <1>2, <1>3, <2>1, UnownedChanges
  <2> QED  BY <1>1, <2>2 DEF StepOK, TypeOK
<1> QED  BY <1>4, <1>5

LEMMA CompleteClaimedStep ==
  ASSUME Known, NEW d \in Drivers, CompleteClaimed(d), overlapped' \in BOOLEAN
  PROVE  StepOK(d)
<1> USE DEF Known
<1> DEFINE t == driver[d].at
<1>1. UNCHANGED <<run, plan, approval, expired, called, crashes>> /\ driver[d].pc = "returned"
  BY DEF CompleteClaimed
<1>2. t \in Tasks /\ task[t].out
  BY <1>1, DriverFields DEF DriverInv, DriverOK
<1>3. CASE Owned(t, driver[d].view[t].claim)
  <2>1. Complete(t) /\ driver' = [driver EXCEPT ![d] = Back(d)]
    BY <1>3 DEF CompleteClaimed
  <2>2. task' \in [Tasks -> TaskRecord] /\ TasksChange /\ ApprovalsChange
    BY <1>1, <1>2, <1>3, <2>1, CompleteChanges, OneTaskChanges, NothingChanges DEF Owned
  <2>3. driver' \in [Drivers -> DriverRecord] /\ OthersStay(d) /\ DriverOK(d)'
    BY <1>1, <2>1, <2>2, BackOK
  <2> QED  BY <1>1, <2>2, <2>3 DEF StepOK, TypeOK
<1>4. CASE ~Owned(t, driver[d].view[t].claim)
  <2>1. Unowned(d, t, task)
    BY <1>4 DEF CompleteClaimed
  <2>2. Written(task, t)
    BY <1>2 DEF Written, TypeOK
  <2> HIDE DEF t
  <2>3. /\ task' \in [Tasks -> TaskRecord] /\ TasksChange /\ ApprovalsChange
        /\ driver' \in [Drivers -> DriverRecord] /\ OthersStay(d) /\ DriverOK(d)'
    BY <1>1, <1>2, <2>1, <2>2, UnownedChanges
  <2> QED  BY <1>1, <2>3 DEF StepOK, TypeOK
<1> QED  BY <1>3, <1>4

LEMMA DriveStep ==
  ASSUME Known, NEW d \in Drivers, driver[d].pc = "new", Goto(d, "enter", {}), TasksChange, ApprovalsChange
  PROVE  driver' \in [Drivers -> DriverRecord] /\ OthersStay(d) /\ DriverOK(d)'
<1> USE DEF Known
<1>1. "enter" \in PC /\ {} \in SUBSET Tasks
  BY DEF PC, Sync
<1>2. /\ driver' \in [Drivers -> DriverRecord] /\ OthersStay(d) /\ driver'[d].pc = "enter"
      /\ driver'[d].view = driver[d].view /\ driver'[d].cycle = driver[d].cycle
  BY <1>1, GotoFields
<1>3. TrueView(d)'
  BY <1>2, ViewStep DEF DriverInv
<1>4. driver[d].cycle = 0
  BY DEF DriverInv, DriverOK
<1> QED  BY <1>2, <1>3, <1>4 DEF DriverOK

Decision == {"approved", "rejected"}

LEMMA DecidedChanges ==
  ASSUME TypeOK, NEW t \in Tasks, NEW n \in Attempt, NEW decision \in Decision,
         Resolvable(t, n, decision), approval' = [approval EXCEPT ![t][n] = decision]
  PROVE  /\ approval' \in [Tasks -> [Attempt -> ApprovalStatus]] /\ ApprovalsChange
         /\ Target(decision) \in {"running", "failed"}
         /\ SetStatus(t, Target(decision)) =>
              /\ task' \in [Tasks -> TaskRecord] /\ TasksChange
              /\ task'[t].status = Target(decision) /\ \A u \in Tasks \ {t} : task'[u] = task[u]
<1>1. approval[t][n] = "pending"
  BY DEF Resolvable
<1>2. approval' \in [Tasks -> [Attempt -> ApprovalStatus]]
  BY DEF TypeOK, ApprovalStatus, Decision
<1>3. approval'[t][n] = decision
  BY DEF TypeOK
<1>4. \A u \in Tasks, m \in Attempt : u # t \/ m # n => approval'[u][m] = approval[u][m]
  BY DEF TypeOK
<1>5. ApprovalsChange
  BY <1>1, <1>3, <1>4 DEF ApprovalsChange, Decision
<1>6. PICK s \in {"running", "failed"} : s = Target(decision)
  BY DEF Target
<1>7. ASSUME SetStatus(t, s)
      PROVE  /\ task' \in [Tasks -> TaskRecord] /\ TasksChange
             /\ task'[t].status = s /\ \A u \in Tasks \ {t} : task'[u] = task[u]
  <2>1. s \in TaskStatus
    BY DEF TaskStatus
  <2>2. task[t].status \in {"ready", "running", "waiting_approval", "blocked"}
    BY <1>6, TaskFields DEF Resolvable, CanBecome, TaskTransitions, TaskStatus
  <2>3. /\ task' \in [Tasks -> TaskRecord] /\ task'[t].status = s /\ KeepsClaim(t)
        /\ task'[t].out = task[t].out /\ \A u \in Tasks \ {t} : task'[u] = task[u]
    BY <1>7, <2>1, StatusFields
  <2>4. Moves(t)
    BY <1>1, <2>2, <2>3 DEF Moves, TaskTerminal
  <2> QED  BY <2>3, <2>4, OneTaskChanges
<1> QED  BY <1>2, <1>5, <1>6, <1>7

LEMMA RequestStep ==
  ASSUME Known, NEW d \in Drivers, Request(d)
  PROVE  StepOK(d)
<1> USE DEF Known
<1>1. overlapped' \in BOOLEAN
  BY DEF Request, TypeOK
<1>2. CASE Drive(d)
  <2>1. TasksChange /\ ApprovalsChange
    BY <1>2, NothingChanges DEF Drive
  <2>2. driver' \in [Drivers -> DriverRecord] /\ OthersStay(d) /\ DriverOK(d)'
    BY <1>2, <2>1, DriveStep DEF Drive
  <2> QED  BY <1>1, <1>2, <2>1, <2>2 DEF Drive, StepOK, TypeOK
<1>3. ASSUME NEW decision \in Decision, ResolvePlan(d, decision) PROVE StepOK(d)
  <2>1. TasksChange /\ ApprovalsChange
    BY <1>3, NothingChanges DEF ResolvePlan
  <2>2. driver' \in [Drivers -> DriverRecord] /\ OthersStay(d) /\ DriverOK(d)'
    BY <1>3, <2>1, DriveStep DEF ResolvePlan
  <2>3. run' \in RunStatus /\ plan' \in ApprovalStatus
    BY <1>3 DEF ResolvePlan, Target, RunStatus, ApprovalStatus, Decision
  <2> QED  BY <1>1, <1>3, <2>1, <2>2, <2>3 DEF ResolvePlan, StepOK, TypeOK
<1>4. ASSUME NEW decision \in Decision, NEW t \in Tasks, NEW n \in Attempt, Resolve(d, t, n, decision)
      PROVE  StepOK(d)
  <2>1. /\ approval' \in [Tasks -> [Attempt -> ApprovalStatus]] /\ ApprovalsChange
        /\ Target(decision) \in {"running", "failed"}
        /\ task' \in [Tasks -> TaskRecord] /\ TasksChange
    BY <1>4, DecidedChanges DEF Resolve
  <2>2. driver' \in [Drivers -> DriverRecord] /\ OthersStay(d) /\ DriverOK(d)'
    BY <1>4, <2>1, DriveStep DEF Resolve
  <2>3. run' \in RunStatus
    BY <1>4, <2>1 DEF Resolve, TypeOK, RunStatus
  <2> QED  BY <1>1, <1>4, <2>1, <2>2, <2>3 DEF Resolve, StepOK, TypeOK
<1> QED  BY <1>2, <1>3, <1>4 DEF Request, Decision

(***************************************************************************)
(* Crashes.                                                                 *)
(***************************************************************************)
CrashOK == TypeOK' /\ TasksChange /\ ApprovalsChange /\ DriverInv'

LEMMA CrashDrivers ==
  ASSUME Known, NEW lost, CrashAll(lost), TasksChange, ApprovalsChange
  PROVE  DriverInv'
<1> USE DEF Known
<1> SUFFICES ASSUME NEW e \in Drivers PROVE DriverOK(e)'
  BY DEF DriverInv
<1>1. CASE driver'[e].pc = "ended" /\ driver'[e].view = NoView
  BY <1>1, StoppedOK DEF Ended
<1>2. CASE driver'[e] = driver[e] /\ driver[e].pc \in Ended \cup {"new"}
  BY <1>2, OtherDriverOK DEF DriverInv, Ended
<1> QED  BY <1>1, <1>2, CrashFields

LEMMA CrashTyped ==
  ASSUME Known, NEW lost, CrashAll(lost), TasksChange, ApprovalsChange,
         task' \in [Tasks -> TaskRecord], approval' \in [Tasks -> [Attempt -> ApprovalStatus]],
         run' = run, plan' \in ApprovalStatus, UNCHANGED <<expired, called, overlapped>>
  PROVE  CrashOK
<1> USE DEF Known
<1>1. DriverInv'
  BY CrashDrivers
<1>2. driver' \in [Drivers -> DriverRecord] /\ crashes' \in 0..MaxCrashes
  BY CrashFields
<1> QED  BY <1>1, <1>2 DEF CrashOK, TypeOK

LEMMA TornAskChanges ==
  ASSUME Known, NEW d \in Drivers, NEW t \in Tasks, TornAsk(d, t)
  PROVE  /\ task' \in [Tasks -> TaskRecord] /\ TasksChange /\ Takes(t)
         /\ approval' \in [Tasks -> [Attempt -> ApprovalStatus]] /\ ApprovalsChange
         /\ \A u \in Tasks \ {t} : task'[u] = task[u]
<1> USE DEF Known
<1> DEFINE n == task[t].attempts + 1
           claimed == [task EXCEPT ![t].status = "running", ![t].claim = n, ![t].attempts = n]
<1>1. CanClaim(t)
  BY DEF TornAsk
<1>2. \/ task' = claimed
      \/ task' = [claimed EXCEPT ![t].link = n]
      \/ task' = [claimed EXCEPT ![t].link = n, ![t].status = "waiting_approval"]
  BY DEF TornAsk
<1>3. approval' = approval \/ approval' = [approval EXCEPT ![t][n] = "pending"]
  BY DEF TornAsk
<1>4. \/ task' = [task EXCEPT ![t] = Claimed(t, "running", task[t].link)]
      \/ task' = [task EXCEPT ![t] = Claimed(t, "running", n)]
      \/ task' = [task EXCEPT ![t] = Claimed(t, "waiting_approval", n)]
  <2>1. CASE task' = claimed
    BY <2>1 DEF Claimed, TypeOK, TaskRecord
  <2>2. CASE task' = [claimed EXCEPT ![t].link = n]
    BY <2>2 DEF Claimed, TypeOK, TaskRecord
  <2>3. CASE task' = [claimed EXCEPT ![t].link = n, ![t].status = "waiting_approval"]
    BY <2>3 DEF Claimed, TypeOK, TaskRecord
  <2> QED  BY <1>2, <2>1, <2>2, <2>3
<1>5. PICK s \in {"running", "waiting_approval"}, l \in {task[t].link, n} :
        /\ s = "waiting_approval" => l = n
        /\ task' = [task EXCEPT ![t] = Claimed(t, s, l)]
  BY <1>4
<1>6. /\ n \in Attempt /\ task' \in [Tasks -> TaskRecord] /\ Takes(t) /\ TasksChange
      /\ task'[t].attempts = n /\ \A u \in Tasks \ {t} : task'[u] = task[u]
  BY <1>1, <1>5, ClaimedChanges
<1>7. approval' \in [Tasks -> [Attempt -> ApprovalStatus]] /\ ApprovalsChange
  <2>1. CASE approval' = approval
    BY <2>1, NothingChanges DEF TypeOK
  <2>2. CASE approval' = [approval EXCEPT ![t][n] = "pending"]
    BY <1>6, <2>2, AskedChanges
  <2> QED  BY <1>3, <2>1, <2>2
<1> QED  BY <1>6, <1>7

LEMMA TornStep ==
  ASSUME Known, NEW d \in Drivers, Torn(d)
  PROVE  CrashOK
<1> USE DEF Known
<1>1. UNCHANGED overlapped
  BY DEF Torn
<1>2. approval' = approval => approval' \in [Tasks -> [Attempt -> ApprovalStatus]] /\ ApprovalsChange
  BY NothingChanges DEF TypeOK
<1>3. task' = task => task' \in [Tasks -> TaskRecord] /\ TasksChange
  BY NothingChanges DEF TypeOK
<1>4. plan \in ApprovalStatus
  BY DEF TypeOK
<1>5. ASSUME NEW t \in Tasks, TornClaim(d, t) PROVE CrashOK
  <2>1. /\ CanClaim(t) /\ SetStatus(t, "running") /\ CrashAll({})
        /\ UNCHANGED <<run, plan, approval, expired, called>>
    BY <1>5 DEF TornClaim
  <2>2. /\ task' \in [Tasks -> TaskRecord] /\ task'[t].status = "running" /\ KeepsClaim(t)
        /\ task'[t].out = task[t].out /\ \A u \in Tasks \ {t} : task'[u] = task[u]
    BY <2>1, StatusFields DEF TaskStatus
  <2>3. Moves(t)
    BY <2>1, <2>2 DEF Moves, CanClaim, TaskTerminal
  <2> QED  BY <1>1, <1>2, <1>4, <2>1, <2>2, <2>3, OneTaskChanges, CrashTyped
<1>6. ASSUME NEW t \in Tasks, TornAsk(d, t) PROVE CrashOK
  <2>1. CrashAll({}) /\ UNCHANGED <<run, plan, expired, called>>
    BY <1>6 DEF TornAsk
  <2> QED  BY <1>1, <1>4, <1>6, <2>1, TornAskChanges, CrashTyped
<1>7. ASSUME NEW t \in Tasks, TornFailure(d, t) PROVE CrashOK
  <2>1. CrashAll({}) /\ UNCHANGED <<run, plan, approval, expired, called>> /\ task[t].status = "running"
    BY <1>7 DEF TornFailure, Owned
  <2>2. PICK s \in {"failed", "cancelled", "blocked"} : s # "cancelled" /\ SetStatus(t, s)
    <3>1. task[t].claim # 0
      BY <1>7 DEF TornFailure, Owned
    <3>2. task[t].attempts \in Attempt
      BY <3>1, TaskFields, NaturalLimits DEF ClaimIsCurrent, Attempt
    <3>3. FailedAttempt(t, task[t].attempts).status \in {"blocked", "failed"}
      BY <3>2, FailedFields
    <3> QED  BY <1>7, <3>3 DEF TornFailure
  <2>3. task' \in [Tasks -> TaskRecord] /\ TasksChange
    BY <2>1, <2>2, StatusMoves DEF TaskTerminal
  <2> QED  BY <1>1, <1>2, <1>4, <2>1, <2>3, CrashTyped
<1>8. ASSUME NEW t \in Tasks, TornClose(d, t) PROVE CrashOK
  <2>1. /\ CrashAll({}) /\ UNCHANGED <<run, plan, approval, expired, called>>
        /\ AtTask(d, "ready", t) /\ CanBecome(t, "blocked") /\ SetStatus(t, "blocked")
    BY <1>8 DEF TornClose
  <2>2. task[t].status # "pending"
    BY <2>1, DriverFields, FirstIn DEF AtTask, DriverInv, DriverOK
  <2>3. task' \in [Tasks -> TaskRecord] /\ TasksChange
    BY <2>1, <2>2, BlockableIsOpen, StatusMoves DEF TaskTerminal
  <2> QED  BY <1>1, <1>2, <1>4, <2>1, <2>3, CrashTyped
<1>9. ASSUME NEW decision \in Decision, TornResolvePlan(d, decision) PROVE CrashOK
  <2>1. CrashAll({d}) /\ UNCHANGED <<run, task, approval, expired, called>> /\ plan' \in ApprovalStatus
    BY <1>9 DEF TornResolvePlan, Decision, ApprovalStatus
  <2> QED  BY <1>1, <1>2, <1>3, <2>1, CrashTyped
<1>10. ASSUME NEW decision \in Decision, NEW t \in Tasks, NEW n \in Attempt, TornResolve(d, t, n, decision)
       PROVE  CrashOK
  <2>1. CrashAll({d}) /\ UNCHANGED <<run, plan, expired, called>>
    BY <1>10 DEF TornResolve
  <2>2. /\ approval' \in [Tasks -> [Attempt -> ApprovalStatus]] /\ ApprovalsChange
        /\ task' \in [Tasks -> TaskRecord] /\ TasksChange
    BY <1>3, <1>10, DecidedChanges DEF TornResolve
  <2> QED  BY <1>1, <1>4, <2>1, <2>2, CrashTyped
<1>11. ASSUME NEW c \in Contents, TornWrite(d, c) PROVE CrashOK
  <2> DEFINE t == driver[d].at
  <2>1. /\ CrashAll({}) /\ UNCHANGED <<run, plan, approval, expired, called>>
        /\ task' = [task EXCEPT ![t].part = c]
    BY <1>11 DEF TornWrite
  <2>2. t \in Tasks
    BY DriverFields
  <2> HIDE DEF t
  <2>3. Written(task', t)
    BY <2>1, <2>2, WrittenFields
  <2>4. task' \in [Tasks -> TaskRecord] /\ TasksChange
    BY <2>2, <2>3, OneTaskChanges DEF Written, Stays, KeepsClaim
  <2> QED  BY <1>1, <1>2, <1>4, <2>1, <2>4, CrashTyped
<1> QED  BY <1>5, <1>6, <1>7, <1>8, <1>9, <1>10, <1>11 DEF Torn, Decision

(***************************************************************************)
(* What every step keeps.                                                   *)
(***************************************************************************)
\* Who takes a step of its own is the only one between two awaits.
LEMMA ActsAlone ==
  ASSUME LoopInv, NEW d \in Drivers, Step(d) \/ Request(d)
  PROVE  \A e \in Drivers \ {d} : driver[e].pc \notin Sync
<1>1. driver[d].pc \in Sync \/ Quiet
  BY DEF Step, Request, Enter, Recover, Blocked, Activate, Ready, CallSucceeds, CallFails,
         CompleteClaimed, Settle, Drive, ResolvePlan, Resolve, Resumed, Sync
<1> QED  BY <1>1 DEF LoopInv, Quiet

LEMMA StepOfDriver ==
  ASSUME Known, NEW d \in Drivers, Step(d) \/ Request(d)
  PROVE  StepOK(d)
<1>1. CASE Request(d)
  BY <1>1, RequestStep
<1>2. CASE Step(d)
  <2>1. overlapped' \in BOOLEAN
    BY <1>2 DEF Step, Known, TypeOK
  <2> QED  BY <1>2, <2>1, EnterStep, RecoverStep, BlockedStep, ActivateStep, ReadyStep, CallSucceedsStep,
              CallFailsStep, CompleteClaimedStep, SettleStep DEF Step
<1> QED  BY <1>1, <1>2

LEMMA KnownStep ==
  ASSUME Known, LoopInv, [Next]_vars
  PROVE  Known' /\ LoopInv' /\ TasksChange /\ ApprovalsChange
<1> USE DEF Known
<1>1. TypeOK' /\ TasksChange /\ ApprovalsChange /\ DriverInv' /\ LoopInv'
  <2>1. ASSUME NEW d \in Drivers, Step(d) \/ Request(d)
        PROVE  TypeOK' /\ TasksChange /\ ApprovalsChange /\ DriverInv' /\ LoopInv'
    <3>1. TypeOK' /\ TasksChange /\ ApprovalsChange /\ OthersStay(d) /\ DriverOK(d)'
      BY <2>1, StepOfDriver DEF StepOK
    <3>2. \A e \in Drivers \ {d} : driver'[e] = driver[e] /\ driver[e].pc \notin Sync
      BY <2>1, <3>1, ActsAlone DEF OthersStay
    <3>3. LoopInv'
      BY <3>2 DEF LoopInv
    <3>4. \A e \in Drivers \ {d} : DriverOK(e)'
      BY <3>1, <3>2, OtherDriverOK DEF Sync, DriverInv
    <3> QED  BY <3>1, <3>3, <3>4 DEF DriverInv
  <2>2. ASSUME CrashOK, NEW lost, CrashAll(lost)
        PROVE  TypeOK' /\ TasksChange /\ ApprovalsChange /\ DriverInv' /\ LoopInv'
    BY <2>2, CrashFields DEF CrashOK, LoopInv, Sync, Ended
  <2>3. ASSUME NEW d \in Drivers, Torn(d) PROVE CrashOK /\ \E lost : CrashAll(lost)
    <3>1. \E lost : CrashAll(lost)
      BY <2>3 DEF Torn, TornClaim, TornAsk, TornFailure, TornClose, TornResolvePlan, TornResolve, TornWrite
    <3> QED  BY <2>3, <3>1, TornStep
  <2>4. ASSUME Crash /\ UNCHANGED overlapped PROVE CrashOK /\ \E lost : CrashAll(lost)
    <3>1. CrashAll({}) /\ UNCHANGED <<run, plan, task, approval, expired, called, overlapped>>
      BY <2>4 DEF Crash
    <3>2. task' \in [Tasks -> TaskRecord] /\ approval' \in [Tasks -> [Attempt -> ApprovalStatus]] /\ plan' \in ApprovalStatus
      BY <3>1 DEF TypeOK
    <3> QED  BY <3>1, <3>2, NothingChanges, CrashTyped
  <2>5. ASSUME UNCHANGED <<task, approval, driver>>, TypeOK'
        PROVE  TypeOK' /\ TasksChange /\ ApprovalsChange /\ DriverInv' /\ LoopInv'
    <3>1. Runnable' = Runnable /\ WithStatus("blocked")' = WithStatus("blocked")
      BY <2>5 DEF Runnable, WithStatus, Satisfied
    <3>2. \A e \in Drivers : DriverOK(e)'
      BY <2>5, <3>1 DEF DriverInv, DriverOK, TrueView
    <3> QED  BY <2>5, <3>2, NothingChanges DEF DriverInv, LoopInv
  <2>6. ASSUME NEW t \in Tasks, NEW n \in Attempt, Expire(t, n) /\ UNCHANGED overlapped
        PROVE  UNCHANGED <<task, approval, driver>> /\ TypeOK'
    BY <2>6 DEF Expire, TypeOK
  <2>7. ASSUME UNCHANGED vars PROVE UNCHANGED <<task, approval, driver>> /\ TypeOK'
    BY <2>7 DEF vars, TypeOK
  <2> QED  BY <2>1, <2>2, <2>3, <2>4, <2>5, <2>6, <2>7 DEF Next
<1> QED  BY <1>1, ClaimStep, TaskStep

\* A run that has ended stays as it is, and it is completed only when all its
\* tasks are closed.
LEMMA RunMoves ==
  ASSUME TypeOK, [Next]_vars
  PROVE  /\ run \in RunTerminal => run' = run
         /\ run' = "completed" => run = "completed" \/ (AllClosed /\ task' = task)
<1> DEFINE Goal == /\ run \in RunTerminal => run' = run
                   /\ run' = "completed" => run = "completed" \/ (AllClosed /\ task' = task)
<1>1. ASSUME NEW d \in Drivers, Step(d) PROVE Goal
  <2>1. CASE Enter(d)
    BY <2>1 DEF Enter, RunTerminal
  <2>2. CASE run' = run
    BY <2>2
  <2>3. CASE Blocked(d)
    BY <2>3 DEF Blocked, FailRun, RunTerminal
  <2>4. CASE Ready(d)
    <3>1. run' = run \/ (run = "running" /\ run' = "waiting_approval")
      BY <2>4 DEF Ready, Deny, AskApproval, AskAgain, AskRefused, ClaimAndDispatch, ClaimRefused
    <3> QED  BY <3>1 DEF RunTerminal
  <2>5. CASE Settle(d)
    BY <2>5 DEF Settle, FailRun, RunTerminal
  <2> QED  BY <1>1, <2>1, <2>2, <2>3, <2>4, <2>5
           DEF Step, Recover, Activate, CallSucceeds, CallFails, CompleteClaimed
<1>2. ASSUME NEW d \in Drivers, Request(d) PROVE Goal
  <2>1. CASE Drive(d)
    BY <2>1 DEF Drive
  <2>2. ASSUME NEW decision \in Decision, ResolvePlan(d, decision) PROVE Goal
    <3>1. run' \in {"running", "failed"} /\ run' \in RunTransitions[run]
      BY <2>2 DEF ResolvePlan, Target
    <3>2. run \notin RunTerminal
      BY <3>1 DEF RunTransitions, RunTerminal
    <3> QED  BY <3>1, <3>2
  <2>3. ASSUME NEW decision \in Decision, NEW t \in Tasks, NEW n \in Attempt, Resolve(d, t, n, decision)
        PROVE  Goal
    BY <2>3 DEF Resolve, Target, RunTerminal
  <2> QED  BY <1>2, <2>1, <2>2, <2>3 DEF Request, Decision
<1>3. ASSUME NEW d \in Drivers, Torn(d) PROVE run' = run
  BY <1>3 DEF Torn, TornClaim, TornAsk, TornFailure, TornClose, TornResolvePlan, TornResolve, TornWrite
<1>4. ASSUME Crash \/ UNCHANGED vars \/ \E t \in Tasks, n \in Attempt : Expire(t, n) PROVE run' = run
  BY <1>4 DEF Crash, vars, Expire
<1>5. run' = run => Goal
  OBVIOUS
<1> HIDE DEF Goal
<1>6. Goal
  BY <1>1, <1>2, <1>3, <1>4, <1>5 DEF Next
<1> QED  BY <1>6 DEF Goal

LEMMA WholeStep ==
  ASSUME Known, TasksChange, CompletedRunIsWhole, [Next]_vars
  PROVE  CompletedRunIsWhole'
<1> SUFFICES ASSUME run' = "completed", NEW t \in Tasks
             PROVE  \/ task'[t].status = "completed" /\ task'[t].out
                    \/ task'[t].status = "cancelled" /\ t \in ExpectedDenied
  BY DEF CompletedRunIsWhole
<1>1. \/ task[t].status = "completed" /\ task[t].out
      \/ task[t].status = "cancelled" /\ t \in ExpectedDenied
  BY RunMoves DEF Known, CompletedRunIsWhole, AllClosed, TaskInv
<1> QED  BY <1>1, TasksGrow DEF Known, TaskTerminal

\* While the plan waits or is refused, a step is an empty one of a driver, an
\* answer about the plan, or a crash.
LEMMA PlanStep ==
  ASSUME Known, PlanInv, [Next]_vars
  PROVE  PlanInv'
<1> USE DEF Known
<1> SUFFICES ASSUME plan' \in {"pending", "rejected"}
             PROVE  /\ \A t \in Tasks : task'[t].status = "pending"
                    /\ called' = {}
                    /\ \A d \in Drivers : driver'[d].pc \in {"new", "enter"} \cup Ended
                    /\ run' \in {"waiting_approval", "failed"}
                    /\ plan' = "pending" => run' = "waiting_approval"
  BY DEF PlanInv
<1>1. plan \in {"pending", "rejected"} /\ (plan' = "pending" => plan = "pending")
  <2>1. ASSUME NEW d \in Drivers, Step(d) PROVE plan' = plan
    BY <2>1 DEF Step, Enter, Recover, Blocked, Activate, Ready, CallSucceeds, CallFails, CompleteClaimed,
                Settle
  <2>2. ASSUME NEW d \in Drivers, Request(d) PROVE plan' = plan \/ (plan = "pending" /\ plan' \in Decision)
    BY <2>2 DEF Request, Drive, ResolvePlan, Resolve, Decision
  <2>3. ASSUME NEW d \in Drivers, Torn(d) PROVE plan' = plan \/ (plan = "pending" /\ plan' \in Decision)
    BY <2>3 DEF Torn, TornClaim, TornAsk, TornFailure, TornClose, TornResolvePlan, TornResolve, TornWrite,
                Decision
  <2>4. ASSUME Crash \/ UNCHANGED vars \/ \E t \in Tasks, n \in Attempt : Expire(t, n) PROVE plan' = plan
    BY <2>4 DEF Crash, vars, Expire
  <2>5. plan' = plan \/ (plan = "pending" /\ plan' \in Decision)
    BY <2>1, <2>2, <2>3, <2>4 DEF Next
  <2> QED  BY <2>5 DEF Decision
<1>2. /\ \A t \in Tasks : task[t].status = "pending"
      /\ called = {} /\ \A d \in Drivers : driver[d].pc \in {"new", "enter"} \cup Ended
      /\ run \in {"waiting_approval", "failed"} /\ (plan = "pending" => run = "waiting_approval")
  BY <1>1 DEF PlanInv
<1>3. \A t \in Tasks, n \in Attempt : approval[t][n] = "none"
  BY <1>2, NaturalLimits DEF TaskInv, Attempt
<1>4. ASSUME NEW d \in Drivers, Step(d)
      PROVE  UNCHANGED <<run, plan, task, called>> /\ End(d)
  <2>1. driver[d].pc \notin (Sync \ {"enter"}) \cup {"call"}
    BY <1>2 DEF Sync, Ended
  <2>2. Enter(d)
    BY <1>4, <2>1 DEF Step, Recover, Blocked, Activate, Ready, CallSucceeds, CallFails, CompleteClaimed,
                      Settle, Resumed, Sync
  <2> QED  BY <1>2, <2>2 DEF Enter
<1>5. ASSUME NEW d \in Drivers, Request(d)
      PROVE  /\ UNCHANGED <<task, called>> /\ Goto(d, "enter", {})
             /\ run' \in {"waiting_approval", "failed"} /\ (plan' = "pending" => run' = "waiting_approval")
  <2>1. CASE Drive(d)
    BY <1>1, <1>2, <2>1 DEF Drive
  <2>2. ASSUME NEW decision \in Decision, ResolvePlan(d, decision)
        PROVE  /\ UNCHANGED <<task, called>> /\ Goto(d, "enter", {})
               /\ run' = "failed" /\ plan' # "pending"
    BY <2>2 DEF ResolvePlan, Decision, Target
  <2>3. ASSUME NEW decision \in Decision, NEW t \in Tasks, NEW n \in Attempt, Resolve(d, t, n, decision)
        PROVE  FALSE
    BY <1>3, <2>3 DEF Resolve, Resolvable
  <2> QED  BY <1>5, <2>1, <2>2, <2>3 DEF Request, Decision
<1>6. ASSUME NEW d \in Drivers, Torn(d)
      PROVE  UNCHANGED <<run, task, called>> /\ \E lost : CrashAll(lost)
  <2>1. driver[d].pc \notin {"recover", "ready", "call"}
    BY <1>2 DEF Ended
  <2>2. ~(\E t \in Tasks : TornClaim(d, t) \/ TornAsk(d, t) \/ TornFailure(d, t) \/ TornClose(d, t))
    BY <2>1 DEF TornClaim, TornAsk, TornFailure, TornClose, AtTask, Resumed
  <2>3. ~(\E c \in Contents : TornWrite(d, c))
    BY <2>1 DEF TornWrite, Resumed
  <2>4. ~(\E decision \in Decision, t \in Tasks, n \in Attempt : TornResolve(d, t, n, decision))
    BY <1>3 DEF TornResolve, Resolvable
  <2> QED  BY <1>6, <2>2, <2>3, <2>4 DEF Torn, TornResolvePlan, Decision
<1>7. ASSUME UNCHANGED <<run, task, called>>, NEW lost, CrashAll(lost)
      PROVE  /\ UNCHANGED <<run, task, called>>
             /\ \A d \in Drivers : driver'[d].pc \in {"new", "enter"} \cup Ended
  BY <1>7, CrashFields DEF Ended
<1>8. ASSUME NEW d \in Drivers, Goto(d, "enter", {}) \/ End(d)
      PROVE  \A e \in Drivers : driver'[e].pc \in {"new", "enter"} \cup Ended
  <2>1. OthersStay(d) /\ driver'[d].pc \in {"new", "enter"} \cup Ended
    <3>1. "enter" \in PC /\ {} \in SUBSET Tasks
      BY DEF PC, Sync
    <3> QED  BY <1>8, <3>1, GotoFields, StopFields
  <2> QED  BY <1>2, <2>1 DEF OthersStay
<1>9. ASSUME UNCHANGED <<run, task, called, driver>>
      PROVE  /\ UNCHANGED <<run, task, called>>
             /\ \A d \in Drivers : driver'[d].pc \in {"new", "enter"} \cup Ended
  BY <1>2, <1>9
<1>10. CASE \E d \in Drivers : Step(d)
  BY <1>1, <1>2, <1>4, <1>8, <1>10
<1>11. CASE \E d \in Drivers : Request(d)
  BY <1>1, <1>2, <1>5, <1>8, <1>11
<1>12. CASE \E d \in Drivers : Torn(d)
  BY <1>1, <1>2, <1>6, <1>7, <1>12
<1>13. CASE Crash
  BY <1>1, <1>2, <1>7, <1>13 DEF Crash
<1>14. CASE (\E t \in Tasks, n \in Attempt : Expire(t, n)) \/ UNCHANGED vars
  BY <1>1, <1>2, <1>9, <1>14 DEF Expire, vars
<1> QED  BY <1>10, <1>11, <1>12, <1>13, <1>14 DEF Next

\* Who is called for has a policy that lets it be, and it has left pending, so
\* its dependencies are satisfied and the plan is approved.
LEMMA DispatchAllowed ==
  ASSUME Known, PlanInv, NEW d \in Drivers, driver[d].pc \in {"recover", "ready"}, driver[d].todo # {},
         Policy[First(driver[d].todo)] \in {"allow", "approve"}
  PROVE  LET t == First(driver[d].todo) IN
         /\ t \in Tasks /\ plan \in {"none", "approved"} /\ Policy[t] # "deny"
         /\ \A u \in Deps[t] : Satisfied(u)
<1> USE DEF Known
<1> DEFINE t == First(driver[d].todo)
<1>1. t \in driver[d].todo /\ t \in Tasks
  BY DriverFields, FirstIn
<1>2. task[t].status # "pending"
  BY <1>1 DEF DriverInv, DriverOK
<1>3. plan \notin {"pending", "rejected"}
  BY DEF PlanInv, Ended
<1> QED  BY <1>1, <1>2, <1>3 DEF TaskInv, TypeOK, ApprovalStatus

LEMMA CalledStep ==
  ASSUME Known, TypeOK', TasksChange, PlanInv, CalledInv, [Next]_vars
  PROVE  CalledInv'
<1> USE DEF Known
<1>1. \A t \in Tasks : Satisfied(t) => Satisfied(t)'
  BY TasksGrow
<1>2. \A t \in Tasks : Deps[t] \subseteq Tasks
  BY TaskGraph
<1>3. plan \in {"none", "approved"} => plan' = plan
  <2>1. ASSUME NEW d \in Drivers, Step(d) PROVE plan' = plan
    BY <2>1 DEF Step, Enter, Recover, Blocked, Activate, Ready, CallSucceeds, CallFails, CompleteClaimed,
                Settle
  <2>2. ASSUME NEW d \in Drivers, Request(d) PROVE plan' = plan \/ plan = "pending"
    BY <2>2 DEF Request, Drive, ResolvePlan, Resolve
  <2>3. ASSUME NEW d \in Drivers, Torn(d) PROVE plan' = plan \/ plan = "pending"
    BY <2>3 DEF Torn, TornClaim, TornAsk, TornFailure, TornClose, TornResolvePlan, TornResolve, TornWrite
  <2>4. ASSUME Crash \/ UNCHANGED vars \/ \E t \in Tasks, n \in Attempt : Expire(t, n) PROVE plan' = plan
    BY <2>4 DEF Crash, vars, Expire
  <2> QED  BY <2>1, <2>2, <2>3, <2>4 DEF Next
<1>4. called \subseteq Tasks \X Attempt
  BY DEF TypeOK
<1>5. \A p \in called : /\ plan' \in {"none", "approved"} /\ Policy[p[1]] # "deny"
                        /\ \A u \in Deps[p[1]] : Satisfied(u)'
  <2> SUFFICES ASSUME NEW p \in called
               PROVE  /\ plan' \in {"none", "approved"} /\ Policy[p[1]] # "deny"
                      /\ \A u \in Deps[p[1]] : Satisfied(u)'
    OBVIOUS
  <2>1. p[1] \in Tasks
    BY <1>4
  <2> QED  BY <1>1, <1>2, <1>3, <2>1 DEF CalledInv
<1>6. ASSUME called' = called PROVE CalledInv'
  BY <1>5, <1>6 DEF CalledInv
<1>7. ASSUME NEW t \in Tasks, NEW n, called' = called \cup {<<t, n>>}, plan' = plan,
             plan \in {"none", "approved"}, Policy[t] # "deny", \A u \in Deps[t] : Satisfied(u)
      PROVE  CalledInv'
  <2> SUFFICES ASSUME NEW p \in called'
               PROVE  /\ plan' \in {"none", "approved"} /\ Policy[p[1]] # "deny"
                      /\ \A u \in Deps[p[1]] : Satisfied(u)'
    BY DEF CalledInv
  <2>1. CASE p \in called
    BY <1>5, <2>1
  <2>2. CASE p = <<t, n>>
    BY <1>1, <1>2, <1>7, <2>2
  <2> QED  BY <1>7, <2>1, <2>2
<1>8. ASSUME NEW d \in Drivers, Step(d) PROVE CalledInv'
  <2>1. CASE Recover(d) /\ called' # called
    <3> DEFINE t == First(driver[d].todo)
    <3>1. RecoverResume(d, t) /\ driver[d].pc = "recover" /\ driver[d].todo # {} /\ plan' = plan
      BY <2>1 DEF Recover, RecoverUnclaimed, RecoverFinished, RecoverRefused
    <3>2. Policy[t] \in {"allow", "approve"} /\ called' = called \cup {<<t, driver[d].view[t].claim>>}
      BY <3>1 DEF RecoverResume, MayResume, Dispatch
    <3>3. /\ t \in Tasks /\ plan \in {"none", "approved"} /\ Policy[t] # "deny"
          /\ \A u \in Deps[t] : Satisfied(u)
      BY <3>1, <3>2, DispatchAllowed
    <3> HIDE DEF t
    <3> QED  BY <1>7, <3>1, <3>2, <3>3
  <2>2. CASE Ready(d) /\ called' # called
    <3> DEFINE t == First(driver[d].todo)
    <3>1. ClaimAndDispatch(d, t) /\ driver[d].pc = "ready" /\ driver[d].todo # {} /\ plan' = plan
      BY <2>2 DEF Ready, Deny, AskApproval, AskAgain, AskRefused, ClaimRefused
    <3>2. Policy[t] \in {"allow", "approve"} /\ called' = called \cup {<<t, task[t].attempts + 1>>}
      BY <3>1 DEF ClaimAndDispatch, Executes, Dispatch
    <3>3. /\ t \in Tasks /\ plan \in {"none", "approved"} /\ Policy[t] # "deny"
          /\ \A u \in Deps[t] : Satisfied(u)
      BY <3>1, <3>2, DispatchAllowed
    <3> HIDE DEF t
    <3> QED  BY <1>7, <3>1, <3>2, <3>3
  <2>3. \/ called' = called \/ Recover(d) \/ Ready(d)
    BY <1>8 DEF Step, Enter, Blocked, Activate, CallSucceeds, CallFails, CompleteClaimed, Settle
  <2> QED  BY <1>6, <2>1, <2>2, <2>3
<1>9. ASSUME NEW d \in Drivers, Request(d) PROVE called' = called
  BY <1>9 DEF Request, Drive, ResolvePlan, Resolve
<1>10. ASSUME NEW d \in Drivers, Torn(d) PROVE called' = called
  BY <1>10 DEF Torn, TornClaim, TornAsk, TornFailure, TornClose, TornResolvePlan, TornResolve, TornWrite
<1>11. ASSUME Crash \/ UNCHANGED vars \/ \E t \in Tasks, n \in Attempt : Expire(t, n) PROVE called' = called
  BY <1>11 DEF Crash, vars, Expire
<1> QED  BY <1>6, <1>8, <1>9, <1>10, <1>11 DEF Next

(***************************************************************************)
(* A request that is alone.                                                 *)
(***************************************************************************)
\* The loop goes on after a task is dealt with; the others are as they were.
LEMMA AloneDone ==
  ASSUME Known, NEW d \in Drivers, Alone(d), driver[d].pc \in {"recover", "blocked", "activate", "ready"},
         driver[d].todo # {}, Done(d), \A u \in Tasks \ {First(driver[d].todo)} : task'[u] = task[u],
         \/ run' = "running"
         \/ run' = "waiting_approval" /\ Answerable' /\ driver[d].pc = "ready"
  PROVE  Alone(d)'
<1> DEFINE t == First(driver[d].todo)
<1>1. t \in Tasks /\ driver[d].todo \in SUBSET Tasks
  BY DriverFields, FirstIn DEF Known
<1>2. /\ driver'[d].pc = driver[d].pc /\ driver'[d].todo = driver[d].todo \ {t}
      /\ \A u \in Tasks \ {t} : driver'[d].view[u] = driver[d].view[u]
  BY DoneFields DEF Known
<1> HIDE DEF t
<1>3. \A u \in driver'[d].todo : u \in driver[d].todo /\ task'[u] = task[u] /\ driver'[d].view[u] = driver[d].view[u]
  BY <1>1, <1>2 DEF t
<1> QED  BY <1>2, <1>3 DEF Alone, InLoop

\* So it does after a dispatch.
LEMMA AloneBack ==
  ASSUME Known, NEW d \in Drivers, Alone(d), driver[d].pc \in {"call", "returned"},
         driver' = [driver EXCEPT ![d] = Back(d)], run' = run, Answerable => Answerable',
         \A u \in Tasks \ {driver[d].at} : task'[u] = task[u]
  PROVE  Alone(d)'
<1>1. /\ driver[d].todo \in SUBSET Tasks /\ driver[d].at \in Tasks
      /\ driver[d].via \in {"recover", "ready"} /\ driver[d].at \notin driver[d].todo
  BY DriverFields DEF Known, DriverInv, DriverOK
<1>2. /\ driver'[d].pc = driver[d].via /\ driver'[d].todo = driver[d].todo
      /\ \A u \in Tasks \ {driver[d].at} : driver'[d].view[u] = driver[d].view[u]
  BY BackFields DEF Known
<1>3. \A u \in driver'[d].todo : u \in driver[d].todo /\ task'[u] = task[u] /\ driver'[d].view[u] = driver[d].view[u]
  BY <1>1, <1>2
<1>4. Active(d) /\ driver[d].pc # "enter" /\ driver[d].pc # "settle"
  BY DEF Active, Sync
<1> QED  BY <1>1, <1>2, <1>3, <1>4 DEF Alone, InLoop

LEMMA AloneDispatch ==
  ASSUME Known, NEW d \in Drivers, Alone(d), NEW via \in {"recover", "ready"}, driver[d].pc = via,
         NEW t \in driver[d].todo, NEW n \in Attempt, Dispatch(d, t, n, via), run' = run,
         Answerable => Answerable', \A u \in Tasks \ {t} : task'[u] = task[u],
         task'[t].status = "running", task'[t].claim = n
  PROVE  Alone(d)'
<1>1. driver[d].todo \in SUBSET Tasks /\ t \in Tasks /\ n \in 0..MaxAttempts /\ n # 0
  BY DriverFields, NaturalLimits DEF Known, Attempt
<1>2. /\ driver'[d].pc = "call" /\ driver'[d].at = t /\ driver'[d].via = via
      /\ driver'[d].todo = driver[d].todo \ {t} /\ driver'[d].view[t] = [Blank EXCEPT !.claim = n]
      /\ \A u \in Tasks \ {t} : driver'[d].view[u] = driver[d].view[u]
  BY <1>1, DispatchFields DEF Known
<1>3. \A u \in driver'[d].todo : u \in driver[d].todo /\ task'[u] = task[u] /\ driver'[d].view[u] = driver[d].view[u]
  BY <1>1, <1>2
<1>4. Owned(t, n)'
  BY <1>1 DEF Owned
<1>5. driver'[d].view[t].claim = n
  BY <1>2, BlankView
<1>6. Active(d) /\ driver[d].pc # "enter" /\ driver[d].pc # "settle"
  BY DEF Active, Sync
<1>7. Owned(driver[d].at, driver[d].view[driver[d].at].claim)'
  BY <1>2, <1>4, <1>5
<1> QED  BY <1>2, <1>3, <1>6, <1>7 DEF Alone, InLoop

\* An answer is not lost when a task that does not wait changes.
LEMMA AnswerableStays ==
  ASSUME NEW t \in Tasks, task[t].status # "waiting_approval", \A u \in Tasks \ {t} : task'[u] = task[u],
         approval' = approval, Answerable
  PROVE  Answerable'
  BY DEF Answerable

\* The step of a driver that is alone.
StaysAlone(d) == Alone(d)' /\ WaitsForSomebody'

LEMMA AloneStopped ==
  ASSUME TypeOK, NEW d \in Drivers, End(d)
  PROVE  Alone(d)'
<1>1. driver'[d].pc = "ended"
  BY StopFields
<1> QED  BY <1>1 DEF Alone, InLoop, Active, Sync

LEMMA AloneEnter ==
  ASSUME Known, NEW d \in Drivers, Alone(d), WaitsForSomebody, Enter(d)
  PROVE  StaysAlone(d)
<1> USE DEF Known
<1>1. CASE run' = run /\ End(d)
  BY <1>1, AloneStopped DEF Enter, StaysAlone, WaitsForSomebody, Answerable
<1>2. CASE run' = "running" /\ NewCycle(d)
  <2> DEFINE S == WithStatus("running")
  <2>1. driver[d].cycle < MaxCycles[d] /\ S \in SUBSET Tasks
    BY NaturalLimits DEF Enter, DriverInv, DriverOK, WithStatus
  <2>2. driver'[d].pc = "recover" /\ driver'[d].todo = S /\ driver'[d].view = Seen(S)
    BY <1>2, <2>1, NewCycleFields
  <2>3. \A t \in S : task'[t] = task[t] /\ task[t].status = "running" /\ Seen(S)[t].claim = task[t].claim
    BY <2>1, SeenFields DEF Enter, WithStatus
  <2> HIDE DEF S
  <2> QED  BY <1>2, <2>2, <2>3 DEF StaysAlone, Alone, InLoop, WaitsForSomebody
<1> QED  BY <1>1, <1>2 DEF Enter

LEMMA AloneRecover ==
  ASSUME Known, NEW d \in Drivers, Alone(d), Recover(d)
  PROVE  StaysAlone(d)
<1> USE DEF Known
<1>1. run = "running" /\ run' = "running" /\ approval' = approval /\ driver[d].pc = "recover"
  BY DEF Recover, Alone, Active, Sync, InLoop
<1>2. WaitsForSomebody'
  BY <1>1 DEF WaitsForSomebody
<1>3. driver[d].todo \in SUBSET Tasks /\ driver[d].view \in [Tasks -> View]
  BY DriverFields
<1>4. CASE driver[d].todo = {}
  <2>1. "blocked" \in PC /\ WithStatus("blocked") \in SUBSET Tasks
    BY DEF PC, Sync, WithStatus
  <2>2. driver'[d].pc = "blocked"
    BY <1>4, <2>1, GotoFields DEF Recover
  <2> QED  BY <1>1, <1>2, <2>2 DEF StaysAlone, Alone, InLoop
<1>5. CASE driver[d].todo # {}
  <2> DEFINE t == First(driver[d].todo)
             n == driver[d].view[t].claim
  <2>1. t \in driver[d].todo /\ t \in Tasks /\ task[t].status = "running" /\ n = task[t].claim
    BY <1>1, <1>3, <1>5, FirstIn DEF Alone, InLoop
  <2>2. n \in 0..MaxAttempts
    BY <2>1, TaskFields
  <2>3. n # 0 => Owned(t, n) /\ n \in Attempt
    BY <2>1, <2>2, NaturalLimits DEF Owned, Attempt
  <2>4. RecoverUnclaimed(d, t) \/ RecoverFinished(d, t) \/ RecoverResume(d, t) \/ RecoverRefused(d, t)
    BY <1>5 DEF Recover
  <2>5. ASSUME Done(d), \A u \in Tasks \ {t} : task'[u] = task[u] PROVE StaysAlone(d)
    BY <1>1, <1>2, <1>5, <2>5, AloneDone DEF StaysAlone
  <2>6. CASE RecoverUnclaimed(d, t)
    <3>1. CanBecome(t, "blocked")
      BY <2>1 DEF CanBecome, TaskTransitions
    <3>2. SetStatus(t, "blocked") /\ Done(d)
      BY <2>6, <3>1 DEF RecoverUnclaimed
    <3> QED  BY <2>1, <2>5, <3>2 DEF SetStatus, TypeOK
  <2>7. CASE RecoverFinished(d, t)
    <3>1. Complete(t) /\ Done(d)
      BY <2>3, <2>7 DEF RecoverFinished
    <3> QED  BY <2>1, <2>5, <3>1 DEF Complete, TypeOK
  <2>8. CASE RecoverRefused(d, t)
    <3>1. RecordFailure(t) /\ Done(d)
      BY <2>3, <2>8 DEF RecoverRefused, Unresumable
    <3> QED  BY <2>1, <2>5, <3>1 DEF RecordFailure, TypeOK
  <2>9. CASE RecoverResume(d, t)
    <3>1. Dispatch(d, t, n, "recover") /\ task' = task /\ n \in Attempt
      BY <2>3, <2>9 DEF RecoverResume
    <3>2. Answerable => Answerable'
      BY <1>1, <3>1 DEF Answerable
    <3>3. \A u \in Tasks \ {t} : task'[u] = task[u]
      BY <3>1
    <3>4. task'[t].status = "running" /\ task'[t].claim = n
      BY <2>1, <3>1
    <3> HIDE DEF n, t
    <3>5. Alone(d)'
      BY <1>1, <2>1, <3>1, <3>2, <3>3, <3>4, AloneDispatch
    <3> QED  BY <1>2, <3>5 DEF StaysAlone
  <2> QED  BY <2>4, <2>6, <2>7, <2>8, <2>9
<1> QED  BY <1>4, <1>5

LEMMA AloneBlocked ==
  ASSUME Known, NEW d \in Drivers, Alone(d), Blocked(d)
  PROVE  StaysAlone(d)
<1> USE DEF Known
<1>1. run = "running" /\ driver[d].pc = "blocked"
  BY DEF Blocked, Alone, Active, Sync, InLoop
<1>2. CASE driver[d].todo # {} /\ run' = run /\ Done(d)
  <2> DEFINE t == First(driver[d].todo)
  <2>1. t \in Tasks
    BY <1>2, DriverFields, FirstIn
  <2>2. \A u \in Tasks \ {t} : task'[u] = task[u]
    BY <1>2, <2>1 DEF Blocked, SetStatus, TypeOK
  <2> QED  BY <1>1, <1>2, <2>2, AloneDone DEF StaysAlone, WaitsForSomebody
<1>3. CASE FailRun(d)
  <2>1. run' = "failed" /\ Alone(d)'
    BY <1>1, <1>3, AloneStopped DEF FailRun
  <2> QED  BY <2>1 DEF StaysAlone, WaitsForSomebody
<1>4. CASE Goto(d, "activate", Runnable) /\ run' = run
  <2>1. "activate" \in PC /\ Runnable \in SUBSET Tasks
    BY DEF PC, Sync, Runnable, WithStatus
  <2>2. driver'[d].pc = "activate"
    BY <1>4, <2>1, GotoFields
  <2> QED  BY <1>1, <1>4, <2>2 DEF StaysAlone, Alone, InLoop, WaitsForSomebody
<1> QED  BY <1>2, <1>3, <1>4 DEF Blocked

LEMMA AloneActivate ==
  ASSUME Known, NEW d \in Drivers, Alone(d), Activate(d)
  PROVE  StaysAlone(d)
<1> USE DEF Known
<1>1. run = "running" /\ run' = "running" /\ driver[d].pc = "activate"
  BY DEF Activate, Alone, Active, Sync, InLoop
<1>2. WaitsForSomebody'
  BY <1>1 DEF WaitsForSomebody
<1>3. CASE driver[d].todo # {}
  <2> DEFINE t == First(driver[d].todo)
  <2>1. t \in Tasks
    BY <1>3, DriverFields, FirstIn
  <2>2. Done(d) /\ \A u \in Tasks \ {t} : task'[u] = task[u]
    BY <1>3, <2>1 DEF Activate, SetStatus, TypeOK
  <2> QED  BY <1>1, <1>2, <1>3, <2>2, AloneDone DEF StaysAlone
<1>4. CASE driver[d].todo = {}
  <2>1. driver[d] \in DriverRecord
    BY DriverFields
  <2>2. task' = task /\ driver'[d].pc = "ready" /\ driver'[d].todo = WithStatus("ready")
    BY <1>4, <2>1 DEF Activate, TypeOK, DriverRecord
  <2> QED  BY <1>1, <1>2, <2>2 DEF StaysAlone, Alone, InLoop, WithStatus
<1> QED  BY <1>3, <1>4

LEMMA AloneReady ==
  ASSUME Known, NEW d \in Drivers, Alone(d), Ready(d)
  PROVE  StaysAlone(d)
<1> USE DEF Known
<1>1. driver[d].pc = "ready" /\ (run = "running" \/ (run = "waiting_approval" /\ Answerable))
  BY DEF Ready, Alone, Active, Sync, InLoop
<1>2. driver[d].todo \in SUBSET Tasks /\ \A t \in driver[d].todo : task[t].status = "ready"
  BY <1>1, DriverFields DEF Alone, InLoop
<1>3. CASE driver[d].todo = {}
  <2>1. Goto(d, "settle", {}) /\ UNCHANGED <<run, task, approval>>
    BY <1>3 DEF Ready
  <2>2. "settle" \in PC /\ {} \in SUBSET Tasks
    BY DEF PC, Sync
  <2>3. driver'[d].pc = "settle"
    BY <2>1, <2>2, GotoFields
  <2>4. run' = "running" \/ (run' = "waiting_approval" /\ Answerable')
    BY <1>1, <2>1 DEF Answerable
  <2> QED  BY <2>3, <2>4 DEF StaysAlone, Alone, InLoop, WaitsForSomebody
<1>4. CASE driver[d].todo # {}
  <2> DEFINE t == First(driver[d].todo)
  <2>1. t \in driver[d].todo /\ t \in Tasks /\ task[t].status = "ready"
    BY <1>2, <1>4, FirstIn
  <2>2. \/ Deny(d, t) \/ AskApproval(d, t) \/ AskAgain(d, t) \/ AskRefused(d, t)
        \/ ClaimAndDispatch(d, t) \/ ClaimRefused(d, t)
    BY <1>4 DEF Ready
  <2>3. ASSUME Done(d), \A u \in Tasks \ {t} : task'[u] = task[u],
               run' = "running" \/ (run' = "waiting_approval" /\ Answerable')
        PROVE  StaysAlone(d)
    <3>1. Alone(d)'
      BY <1>1, <1>4, <2>3, AloneDone
    <3> QED  BY <2>3, <3>1 DEF StaysAlone, WaitsForSomebody
  <2> HIDE DEF t
  <2>4. ASSUME \A u \in Tasks \ {t} : task'[u] = task[u], UNCHANGED <<run, approval>>
        PROVE  run' = "running" \/ (run' = "waiting_approval" /\ Answerable')
    BY <1>1, <2>1, <2>4, AnswerableStays
  <2>5. ASSUME NEW s, Close(d, t, s), UNCHANGED <<run, approval>> PROVE StaysAlone(d)
    <3>1. CanBecome(t, "blocked")
      BY <2>1 DEF CanBecome, TaskTransitions
    <3>2. SetStatus(t, s) /\ Done(d)
      BY <2>5, <3>1 DEF Close
    <3>3. \A u \in Tasks \ {t} : task'[u] = task[u]
      BY <2>1, <3>2 DEF SetStatus, TypeOK
    <3> QED  BY <2>3, <2>4, <2>5, <3>2, <3>3
  <2>6. CASE Deny(d, t)
    BY <2>5, <2>6 DEF Deny
  <2>7. CASE AskApproval(d, t)
    <3> DEFINE n == task[t].attempts + 1
    <3>1. CanClaim(t) /\ Done(d) /\ approval' = [approval EXCEPT ![t][n] = "pending"]
      BY <2>7 DEF AskApproval
    <3>2. task' = [task EXCEPT ![t] = Claimed(t, "waiting_approval", n)]
      BY <2>1, <2>7 DEF AskApproval, Claimed, TypeOK, TaskRecord
    <3>3. /\ n \in Attempt /\ task'[t].status = "waiting_approval" /\ task'[t].link = n
          /\ \A u \in Tasks \ {t} : task'[u] = task[u]
      BY <2>1, <3>1, <3>2, ClaimedChanges
    <3>4. run' \in {"running", "waiting_approval"}
      BY <1>1, <2>7 DEF AskApproval
    <3>5. approval'[t][n] = "pending"
      BY <2>1, <3>1, <3>3 DEF TypeOK
    <3> HIDE DEF n
    <3>6. Answerable'
      BY <2>1, <3>3, <3>5 DEF Answerable
    <3> QED  BY <2>3, <3>1, <3>3, <3>4, <3>6
  <2>8. CASE AskAgain(d, t)
    <3>1. Done(d) /\ UNCHANGED <<run, approval>> /\ \A u \in Tasks \ {t} : task'[u] = task[u]
      BY <2>1, <2>8 DEF AskAgain, TypeOK
    <3> QED  BY <2>3, <2>4, <3>1
  <2>9. CASE AskRefused(d, t)
    BY <2>1, <2>5, <2>9 DEF AskRefused
  <2>10. CASE ClaimAndDispatch(d, t)
    <3> DEFINE n == task[t].attempts + 1
    <3>1. CanClaim(t) /\ Dispatch(d, t, n, "ready") /\ UNCHANGED <<run, approval>>
      BY <2>10 DEF ClaimAndDispatch
    <3>2. task' = [task EXCEPT ![t] = Claimed(t, "running", task[t].link)]
      BY <2>1, <2>10 DEF ClaimAndDispatch, Claimed, TypeOK, TaskRecord
    <3>3. /\ n \in Attempt /\ task'[t].status = "running" /\ task'[t].claim = n
          /\ \A u \in Tasks \ {t} : task'[u] = task[u]
      BY <2>1, <3>1, <3>2, ClaimedChanges
    <3>4. Answerable => Answerable'
      BY <2>1, <3>1, <3>3, AnswerableStays
    <3> HIDE DEF n
    <3>5. Alone(d)'
      BY <1>1, <2>1, <3>1, <3>3, <3>4, AloneDispatch
    <3> QED  BY <1>1, <3>1, <3>4, <3>5 DEF StaysAlone, WaitsForSomebody
  <2>11. CASE ClaimRefused(d, t)
    <3>1. Done(d) /\ UNCHANGED <<run, approval>> /\ \A u \in Tasks \ {t} : task'[u] = task[u]
      BY <2>1, <2>11 DEF ClaimRefused, SetStatus, TypeOK
    <3> QED  BY <2>3, <2>4, <3>1
  <2> QED  BY <2>2, <2>6, <2>7, <2>8, <2>9, <2>10, <2>11
<1> QED  BY <1>3, <1>4

LEMMA AloneCallSucceeds ==
  ASSUME Known, NEW d \in Drivers, Alone(d), WaitsForSomebody, NEW c \in Contents, CallSucceeds(d, c)
  PROVE  StaysAlone(d)
<1> USE DEF Known
<1> DEFINE t == driver[d].at
<1>1. /\ UNCHANGED <<run, plan, approval, crashes>> /\ driver[d].pc = "call"
      /\ driver' = [driver EXCEPT ![d].pc = "returned"]
      /\ task' = [task EXCEPT ![t].part = c, ![t].out = TRUE]
  BY DEF CallSucceeds, Resumed
<1>2. t \in Tasks /\ driver[d] \in DriverRecord /\ driver[d].todo \in SUBSET Tasks
  BY DriverFields
<1>3. /\ driver'[d].pc = "returned" /\ driver'[d].at = t /\ driver'[d].todo = driver[d].todo
      /\ driver'[d].view = driver[d].view /\ driver'[d].via = driver[d].via
  BY <1>1, <1>2 DEF TypeOK, DriverRecord
<1> HIDE DEF t
<1>4. \A u \in Tasks : /\ task'[u].status = task[u].status /\ task'[u].claim = task[u].claim
                       /\ task'[u].link = task[u].link
  BY <1>1, <1>2 DEF TypeOK, TaskRecord
<1>5. Answerable' = Answerable
  BY <1>1, <1>4 DEF Answerable
<1>6. task[t].claim = driver[d].view[t].claim /\ task[t].claim # 0 /\ task[t].status = "running"
  BY <1>1 DEF Alone, Owned, t
<1>7. run = "running" \/ (run = "waiting_approval" /\ Answerable /\ InLoop(d, "ready"))
  BY <1>1 DEF Alone, Active
<1>8. \A loop \in {"recover", "ready"} : InLoop(d, loop)' = InLoop(d, loop)
  BY <1>1, <1>3 DEF InLoop
<1>9. Alone(d)'
  <2>1. \A u \in driver'[d].todo : u \in driver[d].todo /\ u \in Tasks /\ driver'[d].view[u] = driver[d].view[u]
    BY <1>2, <1>3
  <2>2. InLoop(d, "recover")' => \A u \in driver'[d].todo :
          task'[u].status = "running" /\ driver'[d].view[u].claim = task'[u].claim
    BY <1>4, <1>8, <2>1 DEF Alone
  <2>3. InLoop(d, "ready")' => \A u \in driver'[d].todo : task'[u].status = "ready"
    BY <1>4, <1>8, <2>1 DEF Alone
  <2>4. Owned(driver[d].at, driver[d].view[driver[d].at].claim)'
    BY <1>2, <1>3, <1>4, <1>6 DEF Owned
  <2>5. run' = "running" \/ (run' = "waiting_approval" /\ Answerable' /\ InLoop(d, "ready")')
    BY <1>1, <1>5, <1>7, <1>8
  <2> QED  BY <1>3, <2>2, <2>3, <2>4, <2>5 DEF Alone
<1> QED  BY <1>1, <1>5, <1>9 DEF StaysAlone, WaitsForSomebody

LEMMA AloneReturns ==
  ASSUME Known, NEW d \in Drivers, Alone(d), WaitsForSomebody,
         CompleteClaimed(d) \/ \E c \in Contents \cup {NoContent} : CallFails(d, c)
  PROVE  StaysAlone(d)
<1> USE DEF Known
<1> DEFINE t == driver[d].at
<1>1. UNCHANGED <<run, plan, approval, crashes>> /\ driver[d].pc \in {"call", "returned"}
  BY DEF CompleteClaimed, CallFails, Resumed
<1>2. t \in Tasks /\ Owned(t, driver[d].view[t].claim)
  BY <1>1, DriverFields DEF Alone
<1>3. driver' = [driver EXCEPT ![d] = Back(d)]
  BY <1>2 DEF CompleteClaimed, CallFails
<1>4. \A u \in Tasks \ {t} : task'[u] = task[u]
  BY <1>2 DEF CompleteClaimed, CallFails, Complete, TypeOK
<1>5. Answerable => Answerable'
  BY <1>1, <1>2, <1>4, AnswerableStays DEF Owned
<1>6. Alone(d)'
  BY <1>1, <1>3, <1>4, <1>5, AloneBack
<1> QED  BY <1>1, <1>5, <1>6 DEF StaysAlone, WaitsForSomebody

LEMMA AloneSettle ==
  ASSUME Known, NEW d \in Drivers, Alone(d), WaitsForSomebody, Settle(d)
  PROVE  StaysAlone(d)
<1> USE DEF Known
<1>1. /\ UNCHANGED <<plan, task, approval, crashes>> /\ driver[d].pc = "settle"
      /\ run = "running" \/ (run = "waiting_approval" /\ Answerable)
  BY DEF Settle, Alone, Active, Sync
<1>2. Answerable => Answerable' /\ Waits /\ ~AllClosed
  BY <1>1 DEF Answerable, Waits, WithStatus, AllClosed
<1>3. CASE End(d) /\ (run' = run \/ run' \in {"failed", "completed"})
  BY <1>1, <1>2, <1>3, AloneStopped DEF StaysAlone, WaitsForSomebody
<1>4. CASE NewCycle(d) /\ driver[d].cycle < MaxCycles[d] /\ run' = run /\ ~Waits
  <2> DEFINE S == WithStatus("running")
  <2>1. S \in SUBSET Tasks
    BY DEF WithStatus
  <2>2. driver'[d].pc = "recover" /\ driver'[d].todo = S /\ driver'[d].view = Seen(S)
    BY <1>4, <2>1, NewCycleFields
  <2>3. \A t \in S : task'[t] = task[t] /\ task[t].status = "running" /\ Seen(S)[t].claim = task[t].claim
    BY <1>1, <2>1, SeenFields DEF WithStatus
  <2> HIDE DEF S
  <2>4. run' = "running"
    BY <1>1, <1>2, <1>4
  <2> QED  BY <2>2, <2>3, <2>4 DEF StaysAlone, Alone, InLoop, WaitsForSomebody
<1> QED  BY <1>1, <1>2, <1>3, <1>4 DEF Settle, FailRun

LEMMA AloneStep ==
  ASSUME Known, LoopInv, AloneInv, [Next]_vars
  PROVE  AloneInv'
<1> USE DEF Known
<1> SUFFICES ASSUME ~overlapped'
             PROVE  /\ \A d, e \in Drivers : (Active(d) /\ Active(e))' => d = e
                    /\ \A d \in Drivers : Alone(d)'
                    /\ WaitsForSomebody'
  BY DEF AloneInv
<1>1. ~overlapped
  BY DEF Next, Step, Request, Torn, vars
<1>2. /\ \A d, e \in Drivers : Active(d) /\ Active(e) => d = e
      /\ \A d \in Drivers : Alone(d)
      /\ WaitsForSomebody
  BY <1>1 DEF AloneInv
<1>3. ASSUME NEW d \in Drivers, OthersStay(d), \A e \in Drivers \ {d} : ~Active(e), StaysAlone(d)
      PROVE  /\ \A e, f \in Drivers : (Active(e) /\ Active(f))' => e = f
             /\ \A e \in Drivers : Alone(e)'
             /\ WaitsForSomebody'
  <2>1. \A e \in Drivers \ {d} : driver'[e] = driver[e] /\ ~Active(e) /\ ~Active(e)'
    BY <1>3 DEF OthersStay, Active
  <2>2. ASSUME NEW e \in Drivers \ {d} PROVE Alone(e)'
    <3>1. driver'[e].pc # "raised" /\ driver'[e].pc \notin Sync \cup {"call"}
      BY <1>2, <2>1 DEF Alone, Active
    <3> QED  BY <2>1, <3>1 DEF Alone, InLoop, Sync
  <2>3. Alone(d)' /\ WaitsForSomebody'
    BY <1>3 DEF StaysAlone
  <2> QED  BY <2>1, <2>2, <2>3
<1>4. CASE \E d \in Drivers : Step(d)
  <2>1. PICK d \in Drivers : Step(d)
    BY <1>4
  <2>2. Active(d)
    BY <2>1 DEF Step, Enter, Recover, Blocked, Activate, Ready, CallSucceeds, CallFails, CompleteClaimed,
                Settle, Resumed, Active, Sync
  <2>3. OthersStay(d)
    BY <2>1, StepOfDriver DEF StepOK
  <2>4. StaysAlone(d)
    BY <1>2, <2>1, AloneEnter, AloneRecover, AloneBlocked, AloneActivate, AloneReady, AloneCallSucceeds,
       AloneReturns, AloneSettle DEF Step
  <2> QED  BY <1>2, <1>3, <2>2, <2>3, <2>4
<1>5. CASE \E d \in Drivers : Request(d)
  <2>1. PICK d \in Drivers : Request(d)
    BY <1>5
  <2>2. \A e \in Drivers : ~Active(e)
    BY <2>1 DEF Request
  <2>3. OthersStay(d)
    BY <2>1, StepOfDriver DEF StepOK
  <2>4. Goto(d, "enter", {})
    BY <2>1 DEF Request, Drive, ResolvePlan, Resolve
  <2>5. driver'[d].pc = "enter" /\ driver'[d].todo = {}
    <3>1. "enter" \in PC /\ {} \in SUBSET Tasks
      BY DEF PC, Sync
    <3> QED  BY <2>4, <3>1, GotoFields
  <2>6. Alone(d)'
    BY <2>5 DEF Alone, InLoop
  <2>7. WaitsForSomebody'
    <3>1. CASE Drive(d)
      BY <1>2, <3>1 DEF Drive, WaitsForSomebody, Answerable
    <3>2. ASSUME NEW decision \in Decision, ResolvePlan(d, decision) PROVE run' # "waiting_approval"
      BY <3>2 DEF ResolvePlan, Target
    <3>3. ASSUME NEW decision \in Decision, NEW t \in Tasks, NEW n \in Attempt, Resolve(d, t, n, decision)
          PROVE  run' # "waiting_approval"
      BY <3>3 DEF Resolve, Target
    <3> QED  BY <2>1, <3>1, <3>2, <3>3 DEF Request, Decision, WaitsForSomebody
  <2> QED  BY <1>3, <2>2, <2>3, <2>6, <2>7 DEF StaysAlone
<1>6. CASE Crash \/ \E d \in Drivers : Torn(d)
  <2>1. PICK lost : CrashAll(lost)
    <3>1. ASSUME NEW d \in Drivers, Torn(d) PROVE \E lost : CrashAll(lost)
      BY <3>1 DEF Torn, TornClaim, TornAsk, TornFailure, TornClose, TornResolvePlan, TornResolve, TornWrite
    <3>2. Crash => CrashAll({})
      BY DEF Crash
    <3> QED  BY <1>6, <3>1, <3>2
  <2>2. WaitsForSomebody'
    BY <2>1, CrashFields DEF WaitsForSomebody
  <2>3. \A e \in Drivers : driver'[e].pc \in {"ended", "new"}
    BY <1>2, <2>1, CrashFields DEF Alone, Ended
  <2>4. \A e \in Drivers : ~Active(e)' /\ Alone(e)'
    BY <2>3 DEF Alone, Active, InLoop, Sync
  <2> QED  BY <2>2, <2>4
<1>7. CASE UNCHANGED vars \/ \E t \in Tasks, n \in Attempt : Expire(t, n)
  <2>1. UNCHANGED <<run, plan, task, approval, driver, crashes>>
    BY <1>7 DEF vars, Expire
  <2>2. Answerable' = Answerable
    BY <2>1 DEF Answerable
  <2>3. \A d \in Drivers : Active(d)' = Active(d) /\ Alone(d)'
    BY <1>2, <2>1, <2>2 DEF Active, Alone, InLoop, Owned
  <2>4. WaitsForSomebody'
    BY <1>2, <2>1, <2>2 DEF WaitsForSomebody
  <2> QED  BY <1>2, <2>3, <2>4
<1> QED  BY <1>4, <1>5, <1>6, <1>7 DEF Next

(***************************************************************************)
(* The theorems.                                                            *)
(***************************************************************************)
LEMMA InitIInv ==
  ASSUME Init
  PROVE  IInv
<1>1. \A active \in SUBSET Tasks : /\ New(active) \in [Tasks -> TaskRecord]
        /\ \A t \in Tasks : /\ New(active)[t].status = IF t \in active THEN "ready" ELSE "pending"
                            /\ New(active)[t].claim = 0 /\ New(active)[t].attempts = 0
  BY NaturalLimits DEF New, TaskRecord, TaskStatus
<1>2. PICK active \in SUBSET Tasks : task = New(active) /\ active \subseteq {t \in Tasks : Deps[t] = {}}
        /\ (plan = "pending" => active = {} /\ run = "waiting_approval")
        /\ (run = "waiting_approval" => plan = "pending")
  BY DEF Init
<1>3. \A t \in Tasks : /\ task[t].status = IF t \in active THEN "ready" ELSE "pending"
                       /\ task[t].claim = 0 /\ task[t].attempts = 0
  BY <1>1, <1>2
<1>4. Idle("new") \in DriverRecord /\ Idle("new").pc = "new" /\ Idle("new").todo = {}
      /\ Idle("new").view = NoView /\ Idle("new").cycle = 0
  BY IdleFields DEF PC
<1>5. /\ run \in {"queued", "running", "waiting_approval"} /\ plan \in {"none", "pending"}
      /\ approval = [t \in Tasks |-> [n \in Attempt |-> "none"]] /\ expired = {} /\ called = {}
      /\ driver = [d \in Drivers |-> Idle("new")] /\ crashes = 0 /\ overlapped = FALSE
  BY DEF Init
<1>6. TypeOK
  <2>1. task \in [Tasks -> TaskRecord]
    BY <1>1, <1>2
  <2>2. driver \in [Drivers -> DriverRecord]
    BY <1>4, <1>5
  <2>3. approval \in [Tasks -> [Attempt -> ApprovalStatus]] /\ plan \in ApprovalStatus
    BY <1>5 DEF ApprovalStatus
  <2>4. run \in RunStatus /\ overlapped \in BOOLEAN
    BY <1>5 DEF RunStatus
  <2>5. expired \subseteq Tasks \X Attempt /\ called \subseteq Tasks \X Attempt /\ crashes \in 0..MaxCrashes
    BY <1>5, NaturalLimits
  <2> QED  BY <2>1, <2>2, <2>3, <2>4, <2>5 DEF TypeOK
<1>7. ClaimIsCurrent
  BY <1>3 DEF ClaimIsCurrent
<1>8. TaskInv
  BY <1>2, <1>3, <1>5 DEF TaskInv
<1>9. LoopInv
  BY <1>4, <1>5 DEF LoopInv, Sync
<1>10. DriverInv
  <2> SUFFICES ASSUME NEW d \in Drivers PROVE DriverOK(d)
    BY DEF DriverInv
  <2>1. driver[d].pc = "new" /\ driver[d].cycle = 0 /\ driver[d].view = NoView
    BY <1>4, <1>5
  <2>2. TrueView(d)
    BY <2>1, BlankView DEF TrueView, Forgets
  <2> QED  BY <2>1, <2>2 DEF DriverOK
<1>11. PlanInv
  BY <1>2, <1>3, <1>4, <1>5 DEF PlanInv
<1>12. CalledInv /\ CompletedRunIsWhole
  BY <1>5 DEF CalledInv, CompletedRunIsWhole
<1>13. AloneInv
  <2>1. \A d \in Drivers : driver[d].pc = "new"
    BY <1>4, <1>5
  <2> QED  BY <1>2, <2>1 DEF AloneInv, Alone, Active, InLoop, Sync, WaitsForSomebody
<1> QED  BY <1>6, <1>7, <1>8, <1>9, <1>10, <1>11, <1>12, <1>13 DEF IInv

LEMMA NextIInv ==
  ASSUME IInv, [Next]_vars
  PROVE  IInv'
<1>1. Known /\ LoopInv
  BY DEF IInv, Known
<1>2. Known' /\ LoopInv' /\ TasksChange /\ ApprovalsChange
  BY <1>1, KnownStep
<1>3. PlanInv'
  BY <1>1, PlanStep DEF IInv
<1>4. CalledInv'
  BY <1>1, <1>2, CalledStep DEF IInv, Known
<1>5. CompletedRunIsWhole'
  BY <1>1, <1>2, WholeStep DEF IInv
<1>6. AloneInv'
  BY <1>1, AloneStep DEF IInv
<1> QED  BY <1>2, <1>3, <1>4, <1>5, <1>6 DEF IInv, Known

LEMMA IInvAlways == Spec => []IInv
<1>1. Init => IInv
  BY InitIInv
<1>2. IInv /\ [Next]_vars => IInv'
  BY NextIInv
<1> QED  BY <1>1, <1>2, PTL DEF Spec

\* Type correctness of the runs, tasks, approvals and drivers.
THEOREM TypeOKAlways == Spec => []TypeOK
<1>1. IInv => TypeOK
  BY DEF IInv
<1> QED  BY <1>1, IInvAlways, PTL

\* A task's claim is that of its latest attempt, and a task that waits for an
\* approval has asked for it under its claim, whatever requests interleave and
\* wherever a crash falls.
THEOREM ClaimIsCurrentAlways == Spec => []ClaimIsCurrent
<1>1. IInv => ClaimIsCurrent
  BY DEF IInv
<1> QED  BY <1>1, IInvAlways, PTL

\* However many attempts a task has, an agent is called for it only when the
\* plan is approved or needs no approval, its dependencies are satisfied, and
\* its policy does not deny it.
THEOREM CalledInOrderAlways == Spec => []CalledInv
<1>1. IInv => CalledInv
  BY DEF IInv
<1> QED  BY <1>1, IInvAlways, PTL

\* A run is completed only with a whole bundle for every task that was not
\* denied as expected, and stays so.
THEOREM CompletedRunIsWholeAlways == Spec => []CompletedRunIsWhole
<1>1. IInv => CompletedRunIsWhole
  BY DEF IInv
<1> QED  BY <1>1, IInvAlways, PTL

\* Requests that come one at a time never end in an exception, crashes before
\* them included, and without crashes never leave a run waiting for nobody.
THEOREM AloneAllGoesWellAlways == Spec => []AloneAllGoesWell
<1>1. IInv => AloneAllGoesWell
  <2> SUFFICES ASSUME IInv, ~overlapped
               PROVE  WaitIsAnswerable /\ \A d \in Drivers : driver[d].pc # "raised"
    BY DEF AloneAllGoesWell
  <2>1. WaitsForSomebody /\ \A d \in Drivers : driver[d].pc # "raised"
    BY DEF IInv, AloneInv, Alone
  <2>2. ASSUME Answerable
        PROVE  \E t \in Tasks, n \in Attempt : approval[t][n] = "pending" /\ CanBecome(t, "running")
    <3>1. PICK t \in Tasks : task[t].status = "waiting_approval" /\ approval[t][task[t].link] = "pending"
      BY <2>2 DEF Answerable
    <3>2. task[t].link \in Attempt
      <4>1. task[t].link # 0
        BY <3>1 DEF IInv, ClaimIsCurrent
      <4>2. task[t].link \in 0..MaxAttempts
        BY TaskFields DEF IInv
      <4> QED  BY <4>1, <4>2, NaturalLimits DEF Attempt
    <3> QED  BY <3>1, <3>2 DEF CanBecome, TaskTransitions
  <2> QED  BY <2>1, <2>2 DEF WaitIsAnswerable, WaitsForSomebody
<1> QED  BY <1>1, IInvAlways, PTL

\* No step of any driver, request or crash changes the status of a run or a
\* task that has ended, or an approval that was decided.
THEOREM EndsAreFinalAlways == Spec => EndsAreFinal
<1> DEFINE A == /\ run \in RunTerminal => run' = run
                /\ \A t \in Tasks :
                     /\ task[t].status \in TaskTerminal => task'[t].status = task[t].status
                     /\ \A n \in Attempt :
                          approval[t][n] \in {"approved", "rejected"} => approval'[t][n] = approval[t][n]
<1>1. IInv /\ [Next]_vars => A
  <2> SUFFICES ASSUME IInv, [Next]_vars PROVE A
    OBVIOUS
  <2>1. Known /\ LoopInv
    BY DEF IInv, Known
  <2>2. TasksChange /\ ApprovalsChange
    BY <2>1, KnownStep
  <2> QED  BY <2>1, <2>2, RunMoves, TasksGrow, DecisionsStay DEF Known
<1> HIDE DEF A
<1>2. IInv /\ [Next]_vars => [A]_vars
  BY <1>1
<1>3. Spec => [][A]_vars
  BY <1>2, IInvAlways, PTL DEF Spec
<1> QED  BY <1>3 DEF EndsAreFinal, A

\* Who completes a task.
Completes(t) == task[t].status # "completed" /\ task'[t].status = "completed"

LEMMA OtherStatus ==
  ASSUME TypeOK, NEW t \in Tasks, NEW s, s # "completed", SetStatus(t, s)
  PROVE  \A u \in Tasks : ~Completes(u)
  BY DEF SetStatus, TypeOK, TaskRecord, Completes

LEMMA OtherRecord ==
  ASSUME TypeOK, NEW t \in Tasks, NEW r, r.status # "completed", task' = [task EXCEPT ![t] = r]
  PROVE  \A u \in Tasks : ~Completes(u)
  BY DEF TypeOK, Completes

LEMMA CompletesOne ==
  ASSUME TypeOK, NEW t \in Tasks, Complete(t)
  PROVE  \A u \in Tasks : Completes(u) => u = t
  BY DEF TypeOK, Complete, Completes

LEMMA ReadyCompletesNone ==
  ASSUME Known, NEW d \in Drivers, Ready(d)
  PROVE  \A t \in Tasks : ~Completes(t)
<1> USE DEF Known
<1>1. CASE task' = task
  BY <1>1 DEF Completes
<1>2. CASE driver[d].todo # {}
  <2> DEFINE t == First(driver[d].todo)
  <2>1. t \in Tasks
    BY <1>2, DriverFields, FirstIn
  <2>2. \/ Deny(d, t) \/ AskApproval(d, t) \/ AskAgain(d, t) \/ AskRefused(d, t)
        \/ ClaimAndDispatch(d, t) \/ ClaimRefused(d, t)
    BY <1>2 DEF Ready
  <2> HIDE DEF t
  <2>3. ASSUME NEW s \in {"failed", "cancelled"}, Close(d, t, s) PROVE task' = task \/ SetStatus(t, s)
    BY <2>3 DEF Close
  <2>4. CASE Deny(d, t)
    BY <2>1, <2>3, <2>4, <1>1, OtherStatus DEF Deny
  <2>5. CASE AskApproval(d, t)
    <3>1. task' = [task EXCEPT ![t] = Claimed(t, "waiting_approval", task[t].attempts + 1)]
      BY <2>1, <2>5 DEF AskApproval, Claimed, TypeOK, TaskRecord
    <3>2. Claimed(t, "waiting_approval", task[t].attempts + 1).status = "waiting_approval"
      BY <2>1, TaskFields DEF Claimed, TaskRecord
    <3> QED  BY <2>1, <3>1, <3>2, OtherRecord
  <2>6. CASE AskAgain(d, t)
    <3>1. FailedAttempt(t, task[t].attempts + 1).status \in {"blocked", "failed"}
      BY <2>1, TaskFields DEF FailedAttempt, TaskRecord
    <3> QED  BY <2>1, <2>6, <3>1, OtherRecord DEF AskAgain
  <2>7. CASE AskRefused(d, t)
    <3>1. FailedAttempt(t, task[t].attempts).status \in {"blocked", "failed"}
      BY <2>1, TaskFields DEF FailedAttempt, TaskRecord
    <3>2. RecordFailure(t) => \A u \in Tasks : ~Completes(u)
      BY <2>1, <3>1, OtherRecord DEF RecordFailure
    <3> QED  BY <2>1, <2>3, <2>7, <1>1, <3>2, OtherStatus DEF AskRefused
  <2>8. CASE ClaimAndDispatch(d, t)
    <3>1. task' = [task EXCEPT ![t] = Claimed(t, "running", task[t].link)]
      BY <2>1, <2>8 DEF ClaimAndDispatch, Claimed, TypeOK, TaskRecord
    <3>2. Claimed(t, "running", task[t].link).status = "running"
      BY <2>1, TaskFields DEF Claimed, TaskRecord
    <3> QED  BY <2>1, <3>1, <3>2, OtherRecord
  <2>9. CASE ClaimRefused(d, t)
    BY <2>1, <2>9, <1>1, OtherStatus DEF ClaimRefused
  <2> QED  BY <2>2, <2>4, <2>5, <2>6, <2>7, <2>8, <2>9
<1> QED  BY <1>1, <1>2 DEF Ready

LEMMA RecoverCompletesOwn ==
  ASSUME Known, NEW d \in Drivers, Recover(d), NEW t \in Tasks, Completes(t)
  PROVE  driver[d].pc = "recover" /\ driver[d].view[t].claim = task[t].claim
<1> USE DEF Known
<1>1. task' # task /\ driver[d].todo # {} /\ driver[d].pc = "recover"
  BY DEF Completes, Recover
<1> DEFINE u == First(driver[d].todo)
<1>2. u \in Tasks
  BY <1>1, DriverFields, FirstIn
<1>3. RecoverUnclaimed(d, u) \/ RecoverFinished(d, u) \/ RecoverRefused(d, u)
  BY <1>1 DEF Recover, RecoverResume
<1> HIDE DEF u
<1>4. ~RecoverUnclaimed(d, u)
  BY <1>1, <1>2, OtherStatus DEF RecoverUnclaimed
<1>5. ~RecoverRefused(d, u)
  <2>1. FailedAttempt(u, task[u].attempts).status \in {"blocked", "failed"}
    BY <1>2, TaskFields DEF FailedAttempt, TaskRecord
  <2> QED  BY <1>1, <1>2, <2>1, OtherRecord DEF RecoverRefused, RecordFailure
<1>6. Complete(u) /\ task[u].claim = driver[d].view[u].claim
  BY <1>1, <1>3, <1>4, <1>5 DEF RecoverFinished, Owned
<1> QED  BY <1>1, <1>2, <1>6, CompletesOne

LEMMA ReturnCompletesOwn ==
  ASSUME Known, NEW d \in Drivers, NEW t \in Tasks, Completes(t),
         CompleteClaimed(d) \/ \E c \in Contents \cup {NoContent} : CallFails(d, c)
  PROVE  driver[d].pc = "returned" /\ driver[d].view[t].claim = task[t].claim
<1> USE DEF Known
<1> DEFINE u == driver[d].at
<1>1. u \in Tasks
  BY DriverFields
<1>2. ASSUME NEW files, Written(files, u), Unowned(d, u, files) PROVE FALSE
  <2>1. files \in [Tasks -> TaskRecord] /\ \A w \in Tasks : files[w].status = task[w].status
    BY <1>1, <1>2 DEF Written
  <2>2. task' = files \/ task' = [files EXCEPT ![u].status = "failed"]
    BY <1>2 DEF Unowned
  <2> HIDE DEF u
  <2>3. task'[t].status = files[t].status \/ task'[t].status = "failed"
    BY <1>1, <2>1, <2>2 DEF TaskRecord
  <2> QED  BY <2>1, <2>3 DEF Completes
<1>3. ASSUME NEW c \in Contents \cup {NoContent}, CallFails(d, c) PROVE FALSE
  <2> DEFINE files == IF task[u].part = NoContent THEN [task EXCEPT ![u].part = c] ELSE task
  <2>1. Written(files, u)
    BY <1>1, WrittenFields
  <2>2. CASE Owned(u, driver[d].view[u].claim)
    <3> DEFINE f == FailedAttempt(u, task[u].attempts)
               r == [f EXCEPT !.part = files[u].part]
    <3>1. task[u].attempts \in Attempt
      BY <1>1, <2>2, TaskFields, NaturalLimits DEF Owned, ClaimIsCurrent, Attempt
    <3>2. f \in TaskRecord /\ f.status \in {"blocked", "failed"}
      BY <1>1, <3>1, FailedFields
    <3>3. task' = [files EXCEPT ![u] = r]
      BY <1>3, <2>2 DEF CallFails
    <3> HIDE DEF f, files, u
    <3>4. r.status = f.status
      BY <3>2 DEF TaskRecord
    <3> HIDE DEF r
    <3>5. task'[u].status # "completed" /\ \A w \in Tasks \ {u} : task'[w] = task[w]
      BY <1>1, <2>1, <3>2, <3>3, <3>4 DEF Written
    <3> QED  BY <3>5 DEF Completes
  <2>3. CASE ~Owned(u, driver[d].view[u].claim)
    <3>1. Unowned(d, u, files)
      BY <1>3, <2>3 DEF CallFails
    <3> HIDE DEF files
    <3> QED  BY <1>2, <2>1, <3>1
  <2> QED  BY <2>2, <2>3
<1>4. CASE CompleteClaimed(d)
  <2>1. driver[d].pc = "returned"
    BY <1>4 DEF CompleteClaimed
  <2>2. Written(task, u)
    BY <1>1 DEF Written, TypeOK
  <2>3. Owned(u, driver[d].view[u].claim) /\ Complete(u)
    BY <1>2, <1>4, <2>2 DEF CompleteClaimed
  <2> HIDE DEF u
  <2>4. t = u
    BY <1>1, <2>3, CompletesOne
  <2> QED  BY <2>1, <2>3, <2>4 DEF Owned
<1> QED  BY <1>3, <1>4

LEMMA TornCompletesNone ==
  ASSUME Known, NEW d \in Drivers, Torn(d)
  PROVE  \A t \in Tasks : ~Completes(t)
<1> USE DEF Known
<1>1. task' = task => \A t \in Tasks : ~Completes(t)
  BY DEF Completes
<1>2. ASSUME NEW t \in Tasks, TornClaim(d, t) \/ TornClose(d, t) PROVE \A u \in Tasks : ~Completes(u)
  BY <1>2, OtherStatus DEF TornClaim, TornClose
<1>3. ASSUME NEW t \in Tasks, TornAsk(d, t) PROVE \A u \in Tasks : ~Completes(u)
  <2>1. Takes(t) /\ \A u \in Tasks \ {t} : task'[u] = task[u]
    BY <1>3, TornAskChanges
  <2> QED  BY <2>1 DEF Takes, Completes
<1>4. ASSUME NEW t \in Tasks, TornFailure(d, t) PROVE \A u \in Tasks : ~Completes(u)
  <2>1. FailedAttempt(t, task[t].attempts).status \in {"blocked", "failed"}
    BY TaskFields DEF FailedAttempt, TaskRecord
  <2> QED  BY <1>4, <2>1, OtherStatus DEF TornFailure
<1>5. ASSUME NEW decision \in Decision, NEW t \in Tasks, NEW n \in Attempt, TornResolve(d, t, n, decision)
      PROVE  \A u \in Tasks : ~Completes(u)
  BY <1>1, <1>5, OtherStatus DEF TornResolve, Target
<1>6. ASSUME NEW c \in Contents, TornWrite(d, c) PROVE \A u \in Tasks : ~Completes(u)
  <2>1. Written(task', driver[d].at)
    BY <1>6, DriverFields, WrittenFields DEF TornWrite
  <2> QED  BY <2>1, DriverFields DEF Written, Completes
<1>7. ASSUME NEW decision \in Decision, TornResolvePlan(d, decision) PROVE task' = task
  BY <1>7 DEF TornResolvePlan
<1> QED  BY <1>1, <1>2, <1>3, <1>4, <1>5, <1>6, <1>7 DEF Torn, Decision

\* A task is completed only by a driver that holds its current claim: a late
\* answer to an attempt that is over completes nothing.
THEOREM CompletedByClaimHolderAlways == Spec => CompletedByClaimHolder
<1> DEFINE A == \A t \in Tasks :
                  task[t].status # "completed" /\ task'[t].status = "completed" =>
                    \E d \in Drivers : /\ driver[d].pc \in Sync
                                       /\ driver[d].view[t].claim = task[t].claim
<1>1. IInv /\ [Next]_vars => A
  <2> SUFFICES ASSUME IInv, [Next]_vars, NEW t \in Tasks, Completes(t)
               PROVE  \E d \in Drivers : driver[d].pc \in Sync /\ driver[d].view[t].claim = task[t].claim
    BY DEF Completes
  <2>1. Known
    BY DEF IInv, Known
  <2>2. task' # task
    BY DEF Completes
  <2>3. ASSUME NEW d \in Drivers, Step(d)
        PROVE  driver[d].pc \in Sync /\ driver[d].view[t].claim = task[t].claim
    <3>1. Recover(d) \/ CompleteClaimed(d) \/ \E c \in Contents \cup {NoContent} : CallFails(d, c)
      <4>1. ~Enter(d) /\ ~Settle(d)
        BY <2>2 DEF Enter, Settle
      <4>2. ~Blocked(d)
        <5>1. ASSUME Blocked(d) PROVE FALSE
          <6>1. driver[d].todo # {} /\ \E s \in {"ready", "failed"} : SetStatus(First(driver[d].todo), s)
            BY <2>2, <5>1 DEF Blocked
          <6>2. First(driver[d].todo) \in Tasks
            BY <2>1, <6>1, DriverFields, FirstIn DEF Known
          <6> QED  BY <2>1, <6>1, <6>2, OtherStatus DEF Known
        <5> QED  BY <5>1
      <4>3. ~Activate(d)
        <5>1. ASSUME Activate(d) PROVE FALSE
          <6>1. driver[d].todo # {} /\ SetStatus(First(driver[d].todo), "ready")
            BY <2>2, <5>1 DEF Activate
          <6>2. First(driver[d].todo) \in Tasks
            BY <2>1, <6>1, DriverFields, FirstIn DEF Known
          <6> QED  BY <2>1, <6>1, <6>2, OtherStatus DEF Known
        <5> QED  BY <5>1
      <4>4. ASSUME NEW c \in Contents, CallSucceeds(d, c) PROVE FALSE
        <5>1. driver[d].at \in Tasks
          BY <2>1, DriverFields DEF Known
        <5>2. task'[t].status = task[t].status
          BY <2>1, <4>4, <5>1 DEF CallSucceeds, Known, TypeOK, TaskRecord
        <5> QED  BY <5>2 DEF Completes
      <4> QED  BY <2>1, <2>3, <4>1, <4>2, <4>3, <4>4, ReadyCompletesNone DEF Step
    <3> QED  BY <2>1, <3>1, RecoverCompletesOwn, ReturnCompletesOwn DEF Sync
  <2>4. ASSUME NEW d \in Drivers, Request(d) PROVE FALSE
    <3>1. ASSUME NEW decision \in Decision, NEW u \in Tasks, NEW n \in Attempt, Resolve(d, u, n, decision)
          PROVE  FALSE
      BY <2>1, <3>1, OtherStatus DEF Resolve, Target, Known
    <3> QED  BY <2>2, <2>4, <3>1 DEF Request, Drive, ResolvePlan, Decision
  <2>5. ~(\E d \in Drivers : Torn(d))
    BY <2>1, TornCompletesNone
  <2>6. ~Crash /\ ~UNCHANGED vars /\ ~(\E u \in Tasks, n \in Attempt : Expire(u, n))
    BY <2>2 DEF Crash, vars, Expire
  <2> QED  BY <2>3, <2>4, <2>5, <2>6 DEF Next
<1> HIDE DEF A
<1>2. IInv /\ [Next]_vars => [A]_vars
  BY <1>1
<1>3. Spec => [][A]_vars
  BY <1>2, IInvAlways, PTL DEF Spec
<1> QED  BY <1>3 DEF CompletedByClaimHolder, A

(***************************************************************************)
(* The approval of the very claim.                                          *)
(*                                                                          *)
(* A snapshot may show a READY task with an approved claim: a crash tore    *)
(* the failure of that attempt between the status and the claim.  Such a    *)
(* claim cannot be cleared while the driver iterates, for only a pending    *)
(* approval brings the task back to RUNNING, and all approvals of the first *)
(* attempt are decided.  A third attempt would break this: the second could *)
(* have left another approval pending.                                      *)
(***************************************************************************)
\* A task whose approved claim a driver of the READY loop remembers.
Spent(t) ==
  task[t].attempts = 1 => task[t].claim = 1 /\ task[t].status \notin {"running", "waiting_approval"}

SpentInv ==
  \A d \in Drivers : InLoop(d, "ready") =>
    \A t \in driver[d].todo : driver[d].view[t].approved => Spent(t)

ApprovedInv == \A p \in called : Policy[p[1]] = "approve" => approval[p[1]][p[2]] = "approved"

\* With at most two attempts, Task.max_attempts being 2 (domain/models.py).
FewAttempts == MaxAttempts <= 2

LEMMA DispatchLoop ==
  ASSUME TypeOK, NEW d \in Drivers, NEW t \in driver[d].todo, NEW n \in Attempt,
         NEW via \in {"recover", "ready"}, driver[d].pc = via, Dispatch(d, t, n, via), InLoop(d, "ready")'
  PROVE  /\ InLoop(d, "ready") /\ driver'[d].todo \subseteq driver[d].todo
         /\ \A u \in driver'[d].todo : driver'[d].view[u] = driver[d].view[u]
<1>1. driver[d].todo \in SUBSET Tasks /\ t \in Tasks /\ n \in 0..MaxAttempts
  BY DriverFields, NaturalLimits DEF Attempt
<1>2. /\ driver'[d].pc = "call" /\ driver'[d].via = via /\ driver'[d].todo = driver[d].todo \ {t}
      /\ driver'[d].view[t] = [Blank EXCEPT !.claim = n]
      /\ \A u \in Tasks \ {t} : driver'[d].view[u] = driver[d].view[u]
  BY <1>1, DispatchFields
<1>3. via = "ready"
  BY <1>2 DEF InLoop
<1> QED  BY <1>1, <1>2, <1>3 DEF InLoop

\* A driver enters the READY loop with a fresh snapshot; inside, it only
\* drops tasks and forgets what it remembers of them.
LEMMA ReadyLoop ==
  ASSUME Known, NEW d \in Drivers, Step(d) \/ Request(d), InLoop(d, "ready")'
  PROVE  \/ /\ InLoop(d, "ready") /\ driver'[d].todo \subseteq driver[d].todo
            /\ \A t \in driver'[d].todo : \/ driver'[d].view[t] = driver[d].view[t]
                                          \/ Forgets(driver'[d].view[t])
         \/ /\ UNCHANGED <<task, approval>>
            /\ driver'[d].todo = WithStatus("ready") /\ driver'[d].view = Seen(WithStatus("ready"))
<1> USE DEF Known
<1> DEFINE Goes == /\ InLoop(d, "ready") /\ driver'[d].todo \subseteq driver[d].todo
                   /\ \A t \in driver'[d].todo : \/ driver'[d].view[t] = driver[d].view[t]
                                                 \/ Forgets(driver'[d].view[t])
           Starts == /\ UNCHANGED <<task, approval>>
                     /\ driver'[d].todo = WithStatus("ready") /\ driver'[d].view = Seen(WithStatus("ready"))
<1>1. driver'[d].pc \in {"ready", "call", "returned"}
  BY DEF InLoop
<1>2. ~Raise(d) /\ ~End(d)
  BY <1>1, StopFields DEF Ended
<1>3. ASSUME NEW q \in PC \ {"ready", "call", "returned"}, NEW S \in SUBSET Tasks, Goto(d, q, S) PROVE FALSE
  BY <1>1, <1>3, GotoFields
<1>4. ASSUME driver[d].cycle < MaxCycles[d], NewCycle(d) PROVE FALSE
  BY <1>1, <1>4, NewCycleFields
<1>5. ASSUME driver[d].todo # {}, Done(d), driver[d].pc \in {"recover", "blocked", "activate", "ready"} PROVE Goes
  <2> DEFINE u == First(driver[d].todo)
  <2>1. driver[d].todo \in SUBSET Tasks
    BY DriverFields
  <2>2. /\ driver'[d].pc = driver[d].pc /\ driver'[d].todo = driver[d].todo \ {u}
        /\ \A t \in Tasks \ {u} : driver'[d].view[t] = driver[d].view[t]
    BY <1>5, DoneFields
  <2> HIDE DEF u
  <2>3. driver[d].pc = "ready"
    BY <1>1, <1>5, <2>2
  <2> QED  BY <2>1, <2>2, <2>3 DEF InLoop
<1>6. ASSUME driver[d].pc \in {"call", "returned"}, driver' = [driver EXCEPT ![d] = Back(d)] PROVE Goes
  <2>1. driver[d].todo \in SUBSET Tasks
    BY DriverFields
  <2>2. /\ driver'[d].pc = driver[d].via /\ driver'[d].todo = driver[d].todo
        /\ driver'[d].view[driver[d].at] = Blank
        /\ \A u \in Tasks \ {driver[d].at} : driver'[d].view[u] = driver[d].view[u]
    BY BackFields, <1>6
  <2>3. driver[d].via = "ready"
    BY <1>1, <2>2, DriverFields
  <2>4. \A t \in Tasks : driver'[d].view[t] = driver[d].view[t] \/ Forgets(driver'[d].view[t])
    BY <2>2, BlankView
  <2> QED  BY <1>6, <2>1, <2>2, <2>3, <2>4 DEF InLoop
<1>7. ASSUME NEW t \in driver[d].todo, NEW n \in Attempt, NEW via \in {"recover", "ready"}, driver[d].pc = via,
             Dispatch(d, t, n, via)
      PROVE  Goes
  BY <1>7, DispatchLoop
<1>8. CASE Enter(d)
  <2>1. driver[d].cycle < MaxCycles[d]
    BY <1>8, NaturalLimits DEF Enter, DriverInv, DriverOK
  <2> QED  BY <1>2, <1>4, <1>8, <2>1 DEF Enter
<1>9. CASE Recover(d)
  <2>1. driver[d].todo # {}
    <3>1. "blocked" \in PC \ {"ready", "call", "returned"} /\ WithStatus("blocked") \in SUBSET Tasks
      BY DEF PC, Sync, WithStatus
    <3> QED  BY <1>3, <1>9, <3>1 DEF Recover
  <2> DEFINE t == First(driver[d].todo)
  <2>2. t \in driver[d].todo /\ t \in Tasks /\ driver[d].view \in [Tasks -> View]
    BY <2>1, DriverFields, FirstIn
  <2>3. RecoverUnclaimed(d, t) \/ RecoverFinished(d, t) \/ RecoverResume(d, t) \/ RecoverRefused(d, t)
    BY <1>9, <2>1 DEF Recover
  <2> HIDE DEF t
  <2>4. Done(d) \/ RecoverResume(d, t)
    BY <1>2, <2>3 DEF RecoverUnclaimed, RecoverFinished, RecoverRefused
  <2>5. ASSUME RecoverResume(d, t) PROVE Goes
    <3>1. driver[d].view[t].claim \in Attempt /\ Dispatch(d, t, driver[d].view[t].claim, "recover")
      BY <2>2, <2>5, NaturalLimits DEF RecoverResume, View, Attempt
    <3> QED  BY <1>7, <1>9, <2>2, <3>1 DEF Recover
  <2> QED  BY <1>5, <1>9, <2>1, <2>4, <2>5 DEF Recover
<1>10. CASE Blocked(d)
  <2>1. "activate" \in PC \ {"ready", "call", "returned"} /\ Runnable \in SUBSET Tasks
    BY DEF PC, Sync, Runnable, WithStatus
  <2> QED  BY <1>2, <1>3, <1>5, <1>10, <2>1 DEF Blocked, FailRun
<1>11. CASE Activate(d)
  <2>1. CASE driver[d].todo # {}
    BY <1>5, <1>11, <2>1 DEF Activate
  <2>2. CASE driver[d].todo = {}
    <3>1. driver[d] \in DriverRecord
      BY DriverFields
    <3> QED  BY <1>11, <2>2, <3>1 DEF Activate, TypeOK, DriverRecord
  <2> QED  BY <2>1, <2>2
<1>12. CASE Ready(d)
  <2>1. driver[d].todo # {}
    <3>1. "settle" \in PC \ {"ready", "call", "returned"} /\ {} \in SUBSET Tasks
      BY DEF PC, Sync
    <3> QED  BY <1>3, <1>12, <3>1 DEF Ready
  <2> DEFINE t == First(driver[d].todo)
  <2>2. t \in driver[d].todo /\ t \in Tasks
    BY <2>1, DriverFields, FirstIn
  <2>3. \/ Deny(d, t) \/ AskApproval(d, t) \/ AskAgain(d, t) \/ AskRefused(d, t)
        \/ ClaimAndDispatch(d, t) \/ ClaimRefused(d, t)
    BY <1>12, <2>1 DEF Ready
  <2> HIDE DEF t
  <2>4. Done(d) \/ ClaimAndDispatch(d, t)
    BY <1>2, <2>3 DEF Deny, AskApproval, AskAgain, AskRefused, ClaimRefused, Close
  <2>5. ASSUME ClaimAndDispatch(d, t) PROVE Goes
    <3>1. task[t].attempts + 1 \in Attempt /\ Dispatch(d, t, task[t].attempts + 1, "ready")
      BY <2>2, <2>5, TaskFields, NaturalLimits DEF ClaimAndDispatch, CanClaim, Attempt
    <3> QED  BY <1>7, <1>12, <2>2, <3>1 DEF Ready
  <2> QED  BY <1>5, <1>12, <2>1, <2>4, <2>5 DEF Ready
<1>13. ASSUME NEW c \in Contents, CallSucceeds(d, c) PROVE Goes
  <2>1. driver[d] \in DriverRecord /\ driver[d].pc = "call" /\ driver' = [driver EXCEPT ![d].pc = "returned"]
    BY <1>13, DriverFields DEF CallSucceeds, Resumed
  <2>2. /\ driver'[d].pc = "returned" /\ driver'[d].todo = driver[d].todo
        /\ driver'[d].view = driver[d].view /\ driver'[d].via = driver[d].via
    BY <2>1 DEF TypeOK, DriverRecord
  <2> QED  BY <2>1, <2>2 DEF InLoop
<1>14. ASSUME CompleteClaimed(d) \/ \E c \in Contents \cup {NoContent} : CallFails(d, c) PROVE Goes
  <2>1. driver[d].pc \in {"call", "returned"}
    BY <1>14 DEF CompleteClaimed, CallFails, Resumed
  <2>2. driver' = [driver EXCEPT ![d] = Back(d)]
    BY <1>2, <1>14 DEF CompleteClaimed, CallFails, Unowned
  <2> QED  BY <1>6, <2>1, <2>2
<1>15. CASE Settle(d)
  BY <1>2, <1>4, <1>15 DEF Settle, FailRun
<1>16. CASE Request(d)
  <2>1. Goto(d, "enter", {})
    BY <1>16 DEF Request, Drive, ResolvePlan, Resolve
  <2>2. "enter" \in PC \ {"ready", "call", "returned"} /\ {} \in SUBSET Tasks
    BY DEF PC, Sync
  <2> QED  BY <1>3, <2>1, <2>2
<1> QED  BY <1>8, <1>9, <1>10, <1>11, <1>12, <1>13, <1>14, <1>15, <1>16 DEF Step

LEMMA SpentStays ==
  ASSUME Known, Known', TasksChange, NEW t \in Tasks, NEW n \in Attempt, approval[t][n] = "approved", Spent(t)
  PROVE  Spent(t)'
<1> USE DEF Known
<1> SUFFICES ASSUME task'[t].attempts = 1
             PROVE  task'[t].claim = 1 /\ task'[t].status \notin {"running", "waiting_approval"}
  BY DEF Spent
<1>1. /\ task[t].attempts \in Nat /\ n \in Nat /\ n # 0 /\ n <= task[t].attempts
      /\ \A m \in Attempt : approval[t][m] # "none" => m <= task[t].attempts
  BY TaskFields, NaturalLimits DEF TaskInv, Attempt
<1>2. CASE Takes(t)
  BY <1>1, <1>2 DEF Takes
<1>3. CASE ~Takes(t)
  <2>1. task[t].attempts = 1
    BY <1>3 DEF TasksChange, Stays, Moves, Releases, KeepsClaim
  <2>2. task[t].claim = 1 /\ task[t].status \notin {"running", "waiting_approval"}
    BY <2>1 DEF Spent
  <2>3. \A m \in Attempt : approval[t][m] # "pending"
    <3>1. \A m \in Attempt : m \in Nat /\ m # 0
      BY DEF Attempt
    <3>2. \A m \in Attempt : approval[t][m] = "pending" => m = n
      BY <1>1, <2>1, <3>1
    <3> QED  BY <3>2
  <2>4. ~Releases(t) /\ ~CanClaim(t)
    BY <2>2 DEF Releases, CanClaim
  <2> QED  BY <1>3, <2>2, <2>3, <2>4 DEF TasksChange, Stays, Moves, KeepsClaim
<1> QED  BY <1>2, <1>3

LEMMA SpentStep ==
  ASSUME IInv, SpentInv, [Next]_vars
  PROVE  SpentInv'
<1>1. Known /\ LoopInv
  BY DEF IInv, Known
<1>2. Known' /\ TasksChange /\ ApprovalsChange
  BY <1>1, KnownStep
<1> SUFFICES ASSUME NEW e \in Drivers, InLoop(e, "ready")', NEW t \in driver'[e].todo,
                    driver'[e].view[t].approved
             PROVE  Spent(t)'
  BY DEF SpentInv
<1>3. t \in Tasks
  BY <1>2 DEF Known, TypeOK, DriverRecord
<1>4. ASSUME InLoop(e, "ready"), t \in driver[e].todo, driver[e].view[t].approved PROVE Spent(t)'
  <2>1. Spent(t) /\ driver[e].view[t].claim # 0 /\ approval[t][driver[e].view[t].claim] = "approved"
    BY <1>1, <1>3, <1>4 DEF SpentInv, Known, DriverInv, DriverOK, TrueView
  <2>2. driver[e].view[t].claim \in 0..MaxAttempts
    BY <1>1, <1>3, DriverFields DEF Known, View
  <2>3. driver[e].view[t].claim \in Attempt
    BY <2>1, <2>2, NaturalLimits DEF Attempt
  <2> QED  BY <1>1, <1>2, <1>3, <2>1, <2>3, SpentStays
<1>5. ASSUME driver'[e] = driver[e] PROVE Spent(t)'
  BY <1>4, <1>5 DEF InLoop
<1>6. ASSUME Step(e) \/ Request(e) PROVE Spent(t)'
  <2>1. CASE /\ InLoop(e, "ready") /\ driver'[e].todo \subseteq driver[e].todo
             /\ \A u \in driver'[e].todo : \/ driver'[e].view[u] = driver[e].view[u]
                                           \/ Forgets(driver'[e].view[u])
    BY <1>4, <2>1 DEF Forgets
  <2>2. CASE /\ UNCHANGED <<task, approval>>
             /\ driver'[e].todo = WithStatus("ready") /\ driver'[e].view = Seen(WithStatus("ready"))
    <3>1. WithStatus("ready") \in SUBSET Tasks /\ task[t].status = "ready" /\ t \in WithStatus("ready")
      BY <2>2 DEF WithStatus
    <3>2. task[t].claim # 0
      BY <1>1, <2>2, <3>1, SeenFields DEF Known
    <3> QED  BY <1>1, <1>3, <2>2, <3>1, <3>2 DEF Spent, Known, ClaimIsCurrent
  <2> QED  BY <1>1, <1>6, <2>1, <2>2, ReadyLoop
<1>7. ASSUME NEW d \in Drivers \ {e}, Step(d) \/ Request(d) PROVE driver'[e] = driver[e]
  BY <1>1, <1>7, StepOfDriver DEF StepOK, OthersStay
<1>8. ASSUME NEW lost, CrashAll(lost) PROVE driver'[e] = driver[e]
  <2>1. driver'[e].pc # "ended"
    BY DEF InLoop
  <2> QED  BY <1>1, <1>8, <2>1, CrashFields DEF Known
<1>9. ASSUME NEW d \in Drivers, Torn(d) PROVE \E lost : CrashAll(lost)
  BY <1>9 DEF Torn, TornClaim, TornAsk, TornFailure, TornClose, TornResolvePlan, TornResolve, TornWrite
<1>10. Crash => CrashAll({})
  BY DEF Crash
<1>11. ASSUME UNCHANGED vars \/ \E u \in Tasks, n \in Attempt : Expire(u, n) PROVE driver' = driver
  BY <1>11 DEF vars, Expire
<1> QED  BY <1>5, <1>6, <1>7, <1>8, <1>9, <1>10, <1>11 DEF Next

\* A driver that remembers an approved claim does not make another.
LEMMA ApprovedCall ==
  ASSUME IInv, SpentInv, FewAttempts, NEW d \in Drivers, driver[d].pc \in {"recover", "ready"},
         driver[d].todo # {}
  PROVE  LET t == First(driver[d].todo)
         IN  ValidApproval(t, driver[d].view[t]) =>
               /\ approval[t][driver[d].view[t].claim] = "approved"
               /\ driver[d].pc = "ready" => ~CanClaim(t)
<1> DEFINE t == First(driver[d].todo)
           n == driver[d].view[t].claim
<1> SUFFICES ASSUME driver[d].view[t].approved
             PROVE  approval[t][n] = "approved" /\ (driver[d].pc = "ready" => ~CanClaim(t))
  BY DEF ValidApproval
<1>1. TypeOK /\ TaskInv /\ DriverInv
  BY DEF IInv
<1>2. t \in driver[d].todo /\ t \in Tasks /\ n \in 0..MaxAttempts
  BY <1>1, DriverFields, FirstIn DEF View
<1> HIDE DEF t
<1>3. n # 0 /\ approval[t][n] = "approved"
  BY <1>1, <1>2 DEF DriverInv, DriverOK, TrueView
<1>4. n \in Attempt
  BY <1>2, <1>3, NaturalLimits DEF Attempt
<1> HIDE DEF n
<1>5. n <= task[t].attempts
  BY <1>1, <1>2, <1>3, <1>4 DEF TaskInv
<1>6. task[t].attempts \in Nat /\ n \in Nat /\ n # 0
  BY <1>1, <1>2, <1>4, TaskFields DEF Attempt
<1>7. ASSUME driver[d].pc = "ready" PROVE ~CanClaim(t)
  <2>1. Spent(t)
    BY <1>2, <1>7 DEF SpentInv, InLoop
  <2>2. CanClaim(t) => task[t].attempts = 1
    BY <1>5, <1>6, NaturalLimits DEF CanClaim, FewAttempts
  <2> QED  BY <2>1, <2>2 DEF Spent, CanClaim
<1> QED  BY <1>3, <1>7

LEMMA ApprovedStep ==
  ASSUME IInv, SpentInv, FewAttempts, ApprovedInv, [Next]_vars
  PROVE  ApprovedInv'
<1>1. Known /\ LoopInv
  BY DEF IInv, Known
<1>2. TasksChange /\ ApprovalsChange
  BY <1>1, KnownStep
<1>3. \A p \in called : Policy[p[1]] = "approve" => approval'[p[1]][p[2]] = "approved"
  <2> SUFFICES ASSUME NEW p \in called, Policy[p[1]] = "approve" PROVE approval'[p[1]][p[2]] = "approved"
    OBVIOUS
  <2>1. p[1] \in Tasks /\ p[2] \in Attempt
    BY <1>1 DEF Known, TypeOK
  <2>2. approval[p[1]][p[2]] = "approved"
    BY DEF ApprovedInv
  <2> QED  BY <1>1, <1>2, <2>1, <2>2, DecisionsStay DEF Known
<1>4. ASSUME called' = called PROVE ApprovedInv'
  BY <1>3, <1>4 DEF ApprovedInv
<1>5. ASSUME NEW t, NEW n, called' = called \cup {<<t, n>>},
             Policy[t] = "approve" => approval'[t][n] = "approved"
      PROVE  ApprovedInv'
  BY <1>3, <1>5 DEF ApprovedInv
<1>6. ASSUME NEW d \in Drivers, Recover(d), called' # called PROVE ApprovedInv'
  <2> DEFINE t == First(driver[d].todo)
             n == driver[d].view[t].claim
  <2>1. /\ RecoverResume(d, t) /\ driver[d].pc = "recover" /\ driver[d].todo # {} /\ approval' = approval
    BY <1>6 DEF Recover, RecoverUnclaimed, RecoverFinished, RecoverRefused
  <2>2. called' = called \cup {<<t, n>>} /\ (Policy[t] = "approve" => ValidApproval(t, driver[d].view[t]))
    BY <2>1 DEF RecoverResume, MayResume, Dispatch
  <2>3. Policy[t] = "approve" => approval'[t][n] = "approved"
    BY <2>1, <2>2, ApprovedCall
  <2> HIDE DEF t, n
  <2> QED  BY <1>5, <2>2, <2>3
<1>7. ASSUME NEW d \in Drivers, Ready(d), called' # called PROVE ApprovedInv'
  <2> DEFINE t == First(driver[d].todo)
  <2>1. /\ ClaimAndDispatch(d, t) /\ driver[d].pc = "ready" /\ driver[d].todo # {}
    BY <1>7 DEF Ready, Deny, AskApproval, AskAgain, AskRefused, ClaimRefused
  <2>2. /\ called' = called \cup {<<t, task[t].attempts + 1>>} /\ CanClaim(t)
        /\ Policy[t] = "approve" => ValidApproval(t, driver[d].view[t])
    BY <2>1 DEF ClaimAndDispatch, Executes, Dispatch
  <2>3. Policy[t] # "approve"
    BY <2>1, <2>2, ApprovedCall
  <2> HIDE DEF t
  <2> QED  BY <1>5, <2>2, <2>3
<1>8. ASSUME NEW d \in Drivers, Step(d) PROVE called' = called \/ Recover(d) \/ Ready(d)
  BY <1>8 DEF Step, Enter, Blocked, Activate, CallSucceeds, CallFails, CompleteClaimed, Settle
<1>9. ASSUME NEW d \in Drivers, Request(d) PROVE called' = called
  BY <1>9 DEF Request, Drive, ResolvePlan, Resolve
<1>10. ASSUME NEW d \in Drivers, Torn(d) PROVE called' = called
  BY <1>10 DEF Torn, TornClaim, TornAsk, TornFailure, TornClose, TornResolvePlan, TornResolve, TornWrite
<1>11. ASSUME Crash \/ UNCHANGED vars \/ \E t \in Tasks, n \in Attempt : Expire(t, n) PROVE called' = called
  BY <1>11 DEF Crash, vars, Expire
<1> QED  BY <1>4, <1>6, <1>7, <1>8, <1>9, <1>10, <1>11 DEF Next

\* Whatever requests, retries and crashes do, an agent is called for a task
\* only when the plan is approved, the dependencies are satisfied and the
\* policy allows it, or an approval was granted for the very claim it is
\* called under, as long as a task has at most two attempts.
THEOREM CalledOnlyWhenAllowedAlways ==
  ASSUME FewAttempts
  PROVE  Spec => []CalledOnlyWhenAllowed
<1>1. Init => SpentInv /\ ApprovedInv
  <2>1. Idle("new").todo = {} /\ Idle("new").pc = "new"
    BY IdleFields DEF PC
  <2> QED  BY <2>1 DEF Init, SpentInv, ApprovedInv
<1>2. SpentInv /\ ApprovedInv /\ IInv /\ [Next]_vars => SpentInv' /\ ApprovedInv'
  BY SpentStep, ApprovedStep
<1>3. IInv /\ ApprovedInv => CalledOnlyWhenAllowed
  <2> SUFFICES ASSUME IInv, ApprovedInv, NEW p \in called
               PROVE  /\ plan \in {"none", "approved"}
                      /\ \A u \in Deps[p[1]] : Satisfied(u)
                      /\ \/ Policy[p[1]] = "allow"
                         \/ Policy[p[1]] = "approve" /\ approval[p[1]][p[2]] = "approved"
    BY DEF CalledOnlyWhenAllowed
  <2>1. p[1] \in Tasks
    BY DEF IInv, TypeOK
  <2>2. Policy[p[1]] \in {"allow", "deny", "approve"}
    BY <2>1, TaskGraph
  <2> QED  BY <2>2 DEF IInv, CalledInv, ApprovedInv
<1> QED  BY <1>1, <1>2, <1>3, IInvAlways, PTL DEF Spec

=============================================================================
