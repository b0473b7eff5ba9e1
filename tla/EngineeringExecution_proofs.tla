---------------------- MODULE EngineeringExecution_proofs ----------------------
(***************************************************************************)
(* Theorems about EngineeringExecution, for every number of attempts, calls, *)
(* gates, probes and cancellations, and every set of candidates.            *)
(***************************************************************************)
EXTENDS EngineeringExecution, TLAPS

(***************************************************************************)
(* The inductive invariant: what a result says of its attempt.              *)
(***************************************************************************)
\* An owner's repair is of a version that passed before, and differs from it.
Repairs(n, p) == \E m \in 1..(n - 1) : results[m].st = "passed" /\ results[m].patch # p

Earned(n, r) ==
  r.st = "passed" =>
    /\ r.patch # NoPatch /\ AllGreen(r) /\ r.review = "passed" /\ ~r.objected
    /\ r.origin = "feedback" => Repairs(n, r.patch)

Repeated(n, r) ==
  r.origin = "review" =>
    /\ n > 1 /\ r.patch = results[n - 1].patch /\ AllGreen(results[n - 1])
    /\ results[n - 1].objected => results[n - 1].why = "schema"

\* An objection that was heard is remembered as the cause or as the review,
\* unless the answer that held it did not fit the schema.
Remembered(r) ==
  r.objected => r.why \in {"review", "schema", "reference"} \/ r.review = "changes"

Sound(n, r) == Earned(n, r) /\ Repeated(n, r) /\ Remembered(r)

(***************************************************************************)
(* The inductive invariant: the coroutine.                                  *)
(***************************************************************************)
\* What the attempt under way has shown so far, by the place it has got to.
Progress(pc, r) ==
  /\ pc # "idle" => r.st = "started" /\ ~r.objected
  /\ pc = "prepare" => r = Fresh
  /\ pc = "execute" => r.origin # "review"
  /\ pc \in {"execute", "test", "gate"} => r.reviews = 0
  /\ pc = "execute" => r.gates = 0
  /\ pc = "gate" => r.gates < Gates
  /\ pc \in {"review", "again"} => AllGreen(r)
  /\ pc = "review" => r.reviews \in 1..2
  /\ pc = "again" => r.reviews = 1
  /\ pc \in {"test", "gate", "review", "again"} =>
       r.patch # NoPatch /\ (r.origin = "feedback" => r.patch # run.base)
  /\ pc # "idle" /\ r.origin = "feedback" => run.base # NoPatch

AttemptInv ==
  /\ co.pc = "idle" /\ run.status = "running" => co.n < MaxAttempts
  /\ co.pc # "idle" => co.n \in Attempts /\ Progress(co.pc, Cur)
  /\ run.status = "waiting" => co.pc = "idle" /\ co.n \in Attempts /\ Cur.st = "passed"
                               /\ Cur.patch # NoPatch
  /\ run.base # NoPatch => \E m \in 1..co.n : results[m].st = "passed" /\ results[m].patch = run.base
  /\ \A n \in Attempts : n > co.n => results[n] = NoResult
  /\ \A n \in Attempts : Sound(n, results[n])

(***************************************************************************)
(* The inductive invariant: the workspace and the threads.                  *)
(***************************************************************************)
Inside == {"open", "run", "probe", "probing", "report", "leave"}

\* A container is known to the thread that started it, until active-test.json
\* says that it may remain.
ContainerIsKnown ==
  ws.container =>
    \/ test.pc \in {"run", "probing"}
    \/ test.pc = "report" /\ test.out = "dirty" /\ ~ws.confirmed
    \/ test.pc \in {"leave", "done"} /\ test.out \in {"dirty", "raised"} /\ ws.active = "dirty"
    \/ test.pc = "off" /\ ws.active = "dirty"

WorkspaceInv ==
  /\ co.pc # "idle" => ws.manifest = "active"
  /\ co.pc \in {"prepare", "execute", "test", "review", "again"} => test.pc = "off" /\ ~ws.container
  /\ co.pc = "gate" /\ test.pc # "off" => test.gate = Cur.gates + 1
  /\ test.pc \in Inside => ~ws.finished
  /\ test.pc = "done" => co.pc = "gate"
  /\ stop.pc \in {"remove", "wait", "done"} => ws.cancelled
  /\ co.pc = "idle" /\ test.pc = "queued" /\ ws.manifest \in Ended => ws.cancelled
  /\ ContainerIsKnown

IInv == TypeOK /\ AttemptInv /\ WorkspaceInv

(***************************************************************************)
(* Lemmas about results.                                                    *)
(***************************************************************************)
LEMMA FreshFields ==
  /\ Fresh \in ResultType /\ NoResult \in ResultType
  /\ Fresh.st = "started" /\ NoResult.st = "none"
  /\ \A r \in {Fresh, NoResult} :
       /\ r.origin = "fresh" /\ ~r.objected /\ r.patch = NoPatch
       /\ r.gates = 0 /\ r.red = {} /\ r.reviews = 0
<1>1. Gates \in Nat /\ 0 \in 0..Gates
  BY ExecutionAssumption
<1>2. Fresh \in ResultType
  BY <1>1 DEF Fresh, ResultType
<1>3. NoResult \in ResultType
  BY <1>2 DEF NoResult, ResultType
<1> QED  BY <1>2, <1>3 DEF Fresh, NoResult

LEMMA ResultFields ==
  ASSUME NEW r \in ResultType
  PROVE  /\ r.patch \in Patches \cup {NoPatch} /\ r.gates \in 0..Gates /\ r.red \in SUBSET (1..Gates)
         /\ r.reviews \in 0..2 /\ r.objected \in BOOLEAN
         /\ r.st \in Ended \cup {"none", "started"}
         /\ r.review \in Conclusions \cup {"none"}
         /\ r.origin \in {"fresh", "edit", "feedback", "review"}
         /\ r.why \in {"none", "tests", "review", "budget", "timeout", "other", "client",
                       "schema", "citation", "reference"}
BY DEF ResultType

\* Only the last attempt is written, so what earlier ones are sound by stays.
LEMMA Recorded ==
  ASSUME TypeOK, AttemptInv, NEW k \in Attempts, NEW r \in ResultType,
         results' = [results EXCEPT ![k] = r], results[k].st # "passed",
         \A n \in Attempts : n > k => results[n] = NoResult, Sound(k, r)
  PROVE  /\ results' \in [Attempts -> ResultType]
         /\ results'[k] = r
         /\ \A n \in Attempts \ {k} : results'[n] = results[n]
         /\ \A n \in Attempts : results[n].st = "passed" => results'[n] = results[n]
         /\ \A n \in Attempts : Sound(n, results[n])'
<1>1. /\ results \in [Attempts -> ResultType]
      /\ results' \in [Attempts -> ResultType]
      /\ results'[k] = r
      /\ \A n \in Attempts \ {k} : results'[n] = results[n]
      /\ MaxAttempts \in Nat
  BY ExecutionAssumption DEF TypeOK
<1>2. ASSUME NEW n \in Attempts, n < k PROVE Sound(n, results[n])'
  <2>1. \A m \in 1..n : m \in Attempts /\ results'[m] = results[m]
    BY <1>1, <1>2 DEF Attempts
  <2>2. /\ n \in Nat /\ n >= 1 /\ results'[n] = results[n]
        /\ n > 1 => n - 1 \in 1..n
        /\ \A m \in 1..(n - 1) : m \in 1..n
    BY <1>1, <1>2, <2>1 DEF Attempts
  <2>3. Sound(n, results[n])
    BY DEF AttemptInv
  <2>4. Earned(n, results[n])'
    BY <2>1, <2>2, <2>3 DEF Sound, Earned, Repairs, AllGreen
  <2>5. Repeated(n, results[n])'
    BY <2>1, <2>2, <2>3 DEF Sound, Repeated, AllGreen
  <2> QED  BY <2>2, <2>3, <2>4, <2>5 DEF Sound, Remembered
<1>3. Sound(k, results[k])'
  <2>1. \A m \in 1..(k - 1) : m \in Attempts /\ results'[m] = results[m]
    BY <1>1 DEF Attempts
  <2>2. k \in Nat /\ (k > 1 => k - 1 \in 1..(k - 1))
    BY <1>1 DEF Attempts
  <2>3. Earned(k, r)'
    BY <2>1, <2>2 DEF Sound, Earned, Repairs, AllGreen
  <2>4. Repeated(k, r)'
    BY <2>1, <2>2 DEF Sound, Repeated, AllGreen
  <2> QED  BY <1>1, <2>3, <2>4 DEF Sound, Earned, Repeated, Remembered, Repairs
<1>4. ASSUME NEW n \in Attempts, n > k PROVE Sound(n, results[n])'
  <2>1. results'[n] = NoResult
    BY <1>1, <1>4 DEF Attempts
  <2> QED  BY <2>1, FreshFields DEF Sound, Earned, Repeated, Remembered
<1>5. \A n \in Attempts : n < k \/ n = k \/ n > k
  BY <1>1 DEF Attempts
<1> QED  BY <1>1, <1>2, <1>3, <1>4, <1>5

\* A result that says neither that it passed nor that it only reviews again.
LEMMA PlainIsSound ==
  ASSUME NEW n, NEW r \in ResultType, r.st # "passed", r.origin # "review", ~r.objected
  PROVE  Sound(n, r)
BY DEF Sound, Earned, Repeated, Remembered

LEMMA NothingRuns ==
  /\ NoTest \in TestType /\ NoTest.pc = "off"
  /\ NoStop \in StopType /\ NoStop.pc = "off"
<1>1. Gates \in Nat /\ Probes \in Nat /\ 0 \in 0..Gates /\ 0 \in 0..Probes
  BY ExecutionAssumption
<1> QED  BY <1>1 DEF NoTest, NoStop, TestType, StopType

(***************************************************************************)
(* Lemmas about steps of the coroutine.                                     *)
(***************************************************************************)
LEMMA Same == TypeOK => results = [results EXCEPT ![co.n] = Cur]
BY DEF TypeOK, Cur

\* What the invariant says of a coroutine between Begin and Close.
LEMMA UnderWay ==
  ASSUME IInv, co.pc # "idle"
  PROVE  /\ co.n \in Attempts /\ co.n \in 1..MaxAttempts /\ MaxAttempts \in Nat
         /\ Cur \in ResultType /\ Cur.st = "started" /\ ~Cur.objected
         /\ run.status # "waiting" /\ ws.manifest = "active"
         /\ Sound(co.n, Cur)
BY ExecutionAssumption DEF IInv, TypeOK, AttemptInv, WorkspaceInv, Progress, Cur, Attempts

\* A step within an attempt.
LEMMA AttemptStep ==
  ASSUME IInv, co.pc # "idle", NEW r \in ResultType, Result(r),
         co'.pc # "idle", co'.n = co.n, run'.base = run.base, run'.status # "waiting",
         Progress(co'.pc, r), Sound(co.n, r)
  PROVE  results' \in [Attempts -> ResultType] /\ AttemptInv' /\ Cur' = r
<1>1. /\ co.n \in Attempts /\ Cur.st = "started" /\ TypeOK /\ AttemptInv
  BY UnderWay DEF IInv
<1>2. \A n \in Attempts : n > co.n => results[n] = NoResult
  BY <1>1 DEF AttemptInv
<1>3. /\ results' \in [Attempts -> ResultType]
      /\ results'[co.n] = r
      /\ \A n \in Attempts \ {co.n} : results'[n] = results[n]
      /\ \A n \in Attempts : results[n].st = "passed" => results'[n] = results[n]
      /\ \A n \in Attempts : Sound(n, results[n])'
  BY <1>1, <1>2, Recorded DEF Result, Cur
<1>4. Cur' = r
  BY <1>3 DEF Cur
<1>5. Progress(co.pc, Cur)' = Progress(co'.pc, r)
  BY <1>4 DEF Progress, AllGreen
<1>6. run'.base # NoPatch => \E m \in 1..co'.n : results'[m].st = "passed" /\ results'[m].patch = run'.base
  <2>1. \A m \in 1..co.n : m \in Attempts
    BY <1>1, ExecutionAssumption DEF Attempts
  <2> QED  BY <1>1, <1>3, <2>1 DEF AttemptInv
<1>7. \A n \in Attempts : n > co.n => n # co.n
  BY <1>1, ExecutionAssumption DEF Attempts
<1> QED  BY <1>1, <1>2, <1>3, <1>4, <1>5, <1>6, <1>7 DEF AttemptInv

\* The end of an attempt.
LEMMA CloseStep ==
  ASSUME IInv, co.pc # "idle", NEW r \in ResultType, NEW status \in {"running", "waiting", "failed"},
         Close(r, status), r.st \in Ended \cup {"started"}, Sound(co.n, r),
         status = "running" => co.n < MaxAttempts,
         status = "waiting" => r.st = "passed",
         (test' = test /\ test.pc # "done") \/ (test' = NoTest /\ test.pc = "done"),
         test'.pc = "queued" /\ r.st \in Ended => ws.cancelled,
         stop' = stop \/ stop' = NoStop,
         UNCHANGED cancels
  PROVE  IInv'
<1>1. /\ co.n \in Attempts /\ Cur.st = "started" /\ TypeOK /\ AttemptInv /\ WorkspaceInv
      /\ run.status # "waiting"
  BY UnderWay DEF IInv
<1>2. \A n \in Attempts : n > co.n => results[n] = NoResult
  BY <1>1 DEF AttemptInv
<1>3. /\ results' \in [Attempts -> ResultType]
      /\ results'[co.n] = r
      /\ \A n \in Attempts \ {co.n} : results'[n] = results[n]
      /\ \A n \in Attempts : results[n].st = "passed" => results'[n] = results[n]
      /\ \A n \in Attempts : Sound(n, results[n])'
  BY <1>1, <1>2, Recorded DEF Result, Cur, Close
<1>4. co' \in CoType /\ co'.pc = "idle" /\ co'.n = co.n
  BY <1>1 DEF TypeOK, CoType, Close
<1>5. /\ run' \in RunType /\ run'.base = run.base /\ run'.status \in {run.status, status}
      /\ run'.status = "running" => status = "running"
  BY <1>1 DEF TypeOK, RunType, Close
<1>6. /\ ws' \in WorkspaceType /\ ws'.manifest = r.st
      /\ ws'.container = ws.container /\ ws'.confirmed = ws.confirmed /\ ws'.active = ws.active
      /\ ws'.finished = ws.finished /\ ws'.cancelled = ws.cancelled
  BY <1>1 DEF TypeOK, WorkspaceType, Close
<1>7. test' \in TestType /\ stop' \in StopType /\ (stop' = stop \/ stop'.pc = "off")
  BY <1>1, NothingRuns DEF TypeOK
<1>8. TypeOK'
  BY <1>1, <1>3, <1>4, <1>5, <1>6, <1>7 DEF TypeOK
<1>9. AttemptInv'
  <2>1. run'.base # NoPatch => \E m \in 1..co'.n : results'[m].st = "passed" /\ results'[m].patch = run'.base
    <3>1. \A m \in 1..co.n : m \in Attempts
      BY <1>1, ExecutionAssumption DEF Attempts
    <3> QED  BY <1>1, <1>3, <1>4, <1>5, <3>1 DEF AttemptInv
  <2>2. \A n \in Attempts : n > co.n => n # co.n
    BY <1>1, ExecutionAssumption DEF Attempts
  <2>3. r.st = "passed" => r.patch # NoPatch
    BY DEF Sound, Earned
  <2> QED  BY <1>1, <1>2, <1>3, <1>4, <1>5, <2>1, <2>2, <2>3 DEF AttemptInv, Cur
<1>10. WorkspaceInv'
  <2>1. (test' = test /\ test.pc # "done") \/ test'.pc = "off"
    BY NothingRuns
  <2>2. ContainerIsKnown'
    BY <1>1, <1>6, <2>1 DEF WorkspaceInv, ContainerIsKnown, NoTest
  <2> QED  BY <1>1, <1>4, <1>6, <1>7, <2>1, <2>2 DEF WorkspaceInv, Inside
<1> QED  BY <1>8, <1>9, <1>10 DEF IInv

(***************************************************************************)
(* The coroutine keeps the invariant.                                       *)
(***************************************************************************)
LEMMA BeginInv ==
  ASSUME IInv, Begin  PROVE IInv'
<1> DEFINE k == co.n + 1
<1>1. TypeOK /\ AttemptInv /\ co.pc = "idle" /\ run.status = "running"
  BY DEF IInv, Begin
<1>2. k \in Attempts /\ k \in 0..MaxAttempts /\ co.n \in 0..MaxAttempts
  BY <1>1, ExecutionAssumption DEF AttemptInv, TypeOK, CoType, Attempts
<1>3. \A n \in Attempts : (n > co.n <=> n = k \/ n > k) /\ (n = k => n > co.n)
  BY <1>2, ExecutionAssumption DEF Attempts
<1>4. results[k].st # "passed" /\ \A n \in Attempts : n > k => results[n] = NoResult
  BY <1>1, <1>2, <1>3, FreshFields DEF AttemptInv
<1>5. Sound(k, Fresh)
  BY FreshFields, PlainIsSound
<1>6. /\ results' \in [Attempts -> ResultType]
      /\ results'[k] = Fresh
      /\ \A n \in Attempts \ {k} : results'[n] = results[n]
      /\ \A n \in Attempts : results[n].st = "passed" => results'[n] = results[n]
      /\ \A n \in Attempts : Sound(n, results[n])'
  BY <1>1, <1>2, <1>4, <1>5, FreshFields, Recorded DEF Begin
<1>7. co' \in CoType /\ co'.pc = "prepare" /\ co'.n = k
  BY <1>1, <1>2 DEF Begin, TypeOK, CoType
<1>8. /\ ws' \in WorkspaceType /\ ws'.manifest = "active" /\ ~ws'.container
      /\ test' = NoTest /\ stop' = NoStop /\ run' = run /\ cancels' = cancels
  BY DEF Begin, NewWorkspace, WorkspaceType
<1>9. TypeOK'
  BY <1>1, <1>6, <1>7, <1>8, NothingRuns DEF TypeOK
<1>10. Progress("prepare", Fresh)'
  BY FreshFields DEF Progress, Fresh
<1>11. AttemptInv'
  <2>1. run.base # NoPatch => \E m \in 1..k : results'[m].st = "passed" /\ results'[m].patch = run.base
    <3>1. \A m \in 1..co.n : m \in 1..k /\ m \in Attempts
      BY <1>2, ExecutionAssumption DEF Attempts
    <3> QED  BY <1>1, <1>6, <3>1 DEF AttemptInv
  <2>2. \A n \in Attempts : n > k => results'[n] = NoResult
    BY <1>2, <1>4, <1>6, ExecutionAssumption DEF Attempts
  <2>3. Progress(co.pc, Cur)'
    BY <1>6, <1>7, <1>10 DEF Cur, Progress
  <2> QED  BY <1>1, <1>2, <1>6, <1>7, <1>8, <2>1, <2>2, <2>3 DEF AttemptInv
<1>12. WorkspaceInv'
  BY <1>7, <1>8, NothingRuns DEF WorkspaceInv, ContainerIsKnown, Inside
<1> QED  BY <1>9, <1>11, <1>12 DEF IInv

LEMMA NoWorkspaceInv ==
  ASSUME IInv, NoWorkspace  PROVE IInv'
<1>1. TypeOK /\ AttemptInv /\ WorkspaceInv /\ co.pc = "idle" /\ run.status = "running"
  BY DEF IInv, NoWorkspace
<1>2. co.n + 1 \in 0..MaxAttempts /\ co.n \in 0..MaxAttempts /\ MaxAttempts \in Nat
  BY <1>1, ExecutionAssumption DEF AttemptInv, TypeOK, CoType
<1>3. co' \in CoType /\ co'.pc = "idle" /\ co'.n = co.n + 1
  BY <1>1, <1>2 DEF NoWorkspace, TypeOK, CoType
<1>4. /\ run' \in RunType /\ run'.base = run.base /\ run'.status # "waiting"
      /\ run'.status = "running" => co.n + 1 < MaxAttempts
  BY <1>1 DEF NoWorkspace, TypeOK, RunType, AfterFailure
<1>5. UNCHANGED <<results, ws, test, stop, cancels>>
  BY DEF NoWorkspace, threads
<1>6. TypeOK'
  BY <1>1, <1>3, <1>4, <1>5 DEF TypeOK
<1>7. AttemptInv'
  <2>1. \A m \in 1..co.n : m \in 1..(co.n + 1)
    BY <1>2
  <2>2. \A n \in Attempts : n > co.n + 1 => n > co.n
    BY <1>2 DEF Attempts
  <2> QED  BY <1>1, <1>3, <1>4, <1>5, <2>1, <2>2
           DEF AttemptInv, Sound, Earned, Repairs, Repeated, Remembered
<1>8. WorkspaceInv'
  BY <1>1, <1>3, <1>5 DEF WorkspaceInv, ContainerIsKnown
<1> QED  BY <1>6, <1>7, <1>8 DEF IInv

\* A failure of an attempt in which nothing of a review is new.
LEMMA FailureIsSound ==
  ASSUME IInv, co.pc # "idle", NEW r \in ResultType, NEW why,
         r.st = "started", ~r.objected, r.origin = "review" => r.patch = Cur.patch /\ Cur.origin = "review",
         why \in {"none", "tests", "review", "budget", "timeout", "other", "client",
                  "schema", "citation", "reference"}
  PROVE  /\ [r EXCEPT !.st = "failed", !.why = why] \in ResultType
         /\ Sound(co.n, [r EXCEPT !.st = "failed", !.why = why])
<1> DEFINE f == [r EXCEPT !.st = "failed", !.why = why]
<1>1. f \in ResultType /\ f.st = "failed" /\ f.objected = r.objected /\ f.origin = r.origin /\ f.patch = r.patch
  BY DEF ResultType, Ended
<1>2. Sound(co.n, Cur)
  BY UnderWay
<1> HIDE DEF f
<1>3. Sound(co.n, f)
  BY <1>1, <1>2 DEF Sound, Earned, Repeated, Remembered
<1> QED  BY <1>1, <1>3 DEF f

LEMMA FailStep ==
  ASSUME IInv, co.pc # "idle", NEW why, NEW r \in ResultType, FailWith(r, why),
         r.st = "started", ~r.objected, r.origin = "review" => r.patch = Cur.patch /\ Cur.origin = "review",
         why \in {"none", "tests", "review", "budget", "timeout", "other", "client",
                  "schema", "citation", "reference"},
         (test' = test /\ test.pc = "off") \/ (test' = NoTest /\ test.pc = "done"),
         UNCHANGED <<stop, cancels>>
  PROVE  IInv'
<1> DEFINE f == [r EXCEPT !.st = "failed", !.why = why]
<1>1. f \in ResultType /\ Sound(co.n, f)
  BY FailureIsSound
<1>2. f.st = "failed"
  BY DEF ResultType
<1>3. Close(f, AfterFailure(co.n))
  BY DEF FailWith
<1> HIDE DEF f
<1>4. /\ AfterFailure(co.n) \in {"running", "waiting", "failed"} /\ AfterFailure(co.n) # "waiting"
      /\ AfterFailure(co.n) = "running" => co.n < MaxAttempts
  BY DEF AfterFailure
<1>5. test'.pc # "queued"
  BY NothingRuns
<1> QED  BY <1>1, <1>2, <1>3, <1>4, <1>5, CloseStep DEF Ended

\* Where no thread tests.
LEMMA Untested ==
  ASSUME IInv, co.pc \in {"prepare", "execute", "test", "review", "again"}
  PROVE  test.pc = "off" /\ ~ws.container
BY DEF IInv, WorkspaceInv

LEMMA FailInv ==
  ASSUME IInv, NEW why, Fail(why), UNCHANGED <<stop, cancels>>,
         why \in {"none", "tests", "review", "budget", "timeout", "other", "client",
                  "schema", "citation", "reference"},
         \/ co.pc \in {"prepare", "execute", "test", "review", "again"} /\ test' = test
         \/ co.pc = "gate" /\ test.pc = "done" /\ test' = NoTest
  PROVE  IInv'
BY FailStep, UnderWay, Untested DEF Fail

\* A step within an attempt that leaves the workspace as it is.
LEMMA ContinueStep ==
  ASSUME IInv, co.pc # "idle", NEW r \in ResultType, Result(r),
         co' \in CoType, co'.pc # "idle", co'.n = co.n,
         run' \in RunType, run'.base = run.base, run'.status # "waiting",
         Progress(co'.pc, r), Sound(co.n, r),
         test' \in TestType, stop' \in StopType, cancels' \in 0..MaxCancels, ws' = ws,
         WorkspaceInv'
  PROVE  IInv'
<1>1. results' \in [Attempts -> ResultType] /\ AttemptInv'
  BY AttemptStep
<1> QED  BY <1>1 DEF IInv, TypeOK

LEMMA AbortInv ==
  ASSUME IInv, Awaiting, NEW ending \in {"timeout", "cancelled"},
         NEW why \in {"none", "timeout", "client"}, Abort(ending, why),
         (test' = test /\ test.pc # "done") \/ (test' = NoTest /\ test.pc \in {"off", "queued", "done"}),
         UNCHANGED <<run, ws, cancels>>
  PROVE  IInv'
<1> DEFINE r == [Cur EXCEPT !.why = why]
<1>1. co.pc \in {"execute", "gate", "review"} /\ TypeOK /\ WorkspaceInv
  BY DEF Awaiting, IInv
<1>2. /\ Cur \in ResultType /\ Cur.st = "started" /\ ~Cur.objected /\ Sound(co.n, Cur)
      /\ run.status # "waiting" /\ ws.manifest = "active"
      /\ Cur.origin = "feedback" => run.base # NoPatch
  BY <1>1, UnderWay DEF IInv, AttemptInv, Progress
<1>3. /\ r \in ResultType /\ r.st = "started" /\ ~r.objected
      /\ r.origin = Cur.origin /\ r.patch = Cur.patch
  BY <1>2 DEF ResultType
<1>4. Result(r)
  BY DEF Abort
<1> HIDE DEF r
<1>5. Sound(co.n, r)
  BY <1>2, <1>3 DEF Sound, Earned, Repeated, Remembered
<1>6. co' \in CoType /\ co'.pc = "abort" /\ co'.n = co.n
  BY <1>1 DEF Abort, TypeOK, CoType
<1>7. stop' \in StopType /\ stop'.pc = "set"
  BY DEF Abort, StopType
<1>8. Progress("abort", r)
  BY <1>2, <1>3 DEF Progress
<1>9. /\ test' \in TestType
      /\ (test' = test /\ test.pc # "done") \/ (test'.pc = "off" /\ test.pc \in {"off", "queued", "done"})
  BY <1>1, NothingRuns DEF TypeOK
<1>10. WorkspaceInv'
  <2>1. ContainerIsKnown'
    BY <1>1, <1>9 DEF WorkspaceInv, ContainerIsKnown
  <2> QED  BY <1>1, <1>2, <1>6, <1>7, <1>9, <2>1 DEF WorkspaceInv, Inside
<1> QED  BY <1>1, <1>2, <1>3, <1>4, <1>5, <1>6, <1>7, <1>8, <1>9, <1>10, ContinueStep DEF TypeOK

\* The origin of a candidate is what the earlier attempts allow.
LEMMA OriginsAreAllowed ==
  ASSUME NEW o \in Origins
  PROVE  /\ o \in {"fresh", "edit", "feedback", "review"}
         /\ o = "feedback" <=> run.base # NoPatch
         /\ o = "review" => ReviewCandidate(Previous)
BY DEF Origins

LEMMA AskExecutorInv ==
  ASSUME IInv, AskExecutor  PROVE IInv'
<1>1. co.pc = "prepare" /\ TypeOK /\ WorkspaceInv /\ co.pc # "idle"
  BY DEF AskExecutor, IInv
<1>2. PICK o \in Origins \ {"review"} :
         IF run.calls < MaxCalls
         THEN /\ Result([Cur EXCEPT !.origin = o])
              /\ run' = [run EXCEPT !.calls = @ + 1]
              /\ co' = [co EXCEPT !.pc = "execute"]
              /\ UNCHANGED ws
         ELSE FailWith([Cur EXCEPT !.origin = o], "budget")
  BY DEF AskExecutor
<1> DEFINE r == [Cur EXCEPT !.origin = o]
<1>3. o \in {"fresh", "edit", "feedback"} /\ (o = "feedback" => run.base # NoPatch)
  BY OriginsAreAllowed
<1>4. Cur = Fresh /\ run.status # "waiting"
  BY <1>1, UnderWay DEF IInv, AttemptInv, Progress
<1>5. /\ r \in ResultType /\ r.st = "started" /\ ~r.objected /\ r.origin = o
      /\ r.reviews = 0 /\ r.gates = 0
  BY <1>3, <1>4, FreshFields DEF ResultType
<1>6. UNCHANGED <<test, stop, cancels>> /\ test.pc = "off" /\ ~ws.container
  BY <1>1, Untested DEF AskExecutor
<1>7. CASE run.calls < MaxCalls
  <2>1. Sound(co.n, r)
    BY <1>3, <1>5, PlainIsSound
  <2>2. Progress("execute", r)
    BY <1>3, <1>5 DEF Progress
  <2>3. /\ co' \in CoType /\ co'.pc = "execute" /\ co'.n = co.n
        /\ Result(r) /\ ws' = ws
    BY <1>1, <1>2, <1>7 DEF TypeOK, CoType
  <2>4. run' \in RunType /\ run'.base = run.base /\ run'.status # "waiting"
    BY <1>1, <1>2, <1>4, <1>7, ExecutionAssumption DEF TypeOK, RunType
  <2>5. WorkspaceInv'
    BY <1>1, <1>6, <2>3 DEF WorkspaceInv, ContainerIsKnown, Inside
  <2> HIDE DEF r
  <2> QED  BY <1>1, <1>5, <1>6, <2>1, <2>2, <2>3, <2>4, <2>5, ContinueStep DEF TypeOK
<1>8. CASE ~(run.calls < MaxCalls)
  <2>1. FailWith(r, "budget")
    BY <1>2, <1>8
  <2>2. r.origin # "review"
    BY <1>3, <1>5
  <2> HIDE DEF r
  <2> QED  BY <1>1, <1>5, <1>6, <2>1, <2>2, FailStep
<1> QED  BY <1>7, <1>8

LEMMA SkipExecutorInv ==
  ASSUME IInv, SkipExecutor  PROVE IInv'
<1> DEFINE r == [Cur EXCEPT !.patch = results[Previous].patch, !.origin = "review"]
<1>1. /\ co.pc = "prepare" /\ TypeOK /\ AttemptInv /\ WorkspaceInv /\ co.pc # "idle"
      /\ Result(r) /\ co' = Testing /\ UNCHANGED <<run, ws, test, stop, cancels>>
  BY DEF SkipExecutor, IInv, threads
<1>2. ReviewCandidate(Previous) /\ Cur = Fresh /\ run.status # "waiting" /\ co.n \in 1..MaxAttempts
      /\ MaxAttempts \in Nat
  BY <1>1, OriginsAreAllowed, UnderWay DEF SkipExecutor, AttemptInv, Progress
<1>3. /\ Previous \in Attempts /\ Previous = co.n - 1 /\ co.n > 1
      /\ results[Previous] \in ResultType /\ results[Previous].patch \in Patches \cup {NoPatch}
      /\ results[Previous].patch # NoPatch /\ AllGreen(results[Previous])
  BY <1>1, <1>2, ResultFields DEF ReviewCandidate, Usable, TypeOK, Previous, Attempts
<1>4. results[Previous].objected => results[Previous].why = "schema"
  BY <1>1, <1>2, <1>3 DEF ReviewCandidate, AttemptInv, Sound, Remembered
<1>5. /\ r \in ResultType /\ r.st = "started" /\ ~r.objected /\ r.origin = "review"
      /\ r.patch = results[Previous].patch /\ r.reviews = 0
  BY <1>2, <1>3, FreshFields DEF ResultType
<1> HIDE DEF r
<1>6. Sound(co.n, r)
  BY <1>3, <1>4, <1>5 DEF Sound, Earned, Repeated, Remembered
<1>7. Progress("test", r)
  BY <1>3, <1>5 DEF Progress
<1>8. co' \in CoType /\ co'.pc = "test" /\ co'.n = co.n
  BY <1>1 DEF Testing, TypeOK, CoType
<1>9. WorkspaceInv'
  BY <1>1, <1>8 DEF WorkspaceInv, ContainerIsKnown, Inside
<1> QED  BY <1>1, <1>2, <1>5, <1>6, <1>7, <1>8, <1>9, ContinueStep DEF TypeOK

LEMMA ExecutorAnswersInv ==
  ASSUME IInv, ExecutorAnswers  PROVE IInv'
<1>1. /\ co.pc = "execute" /\ TypeOK /\ AttemptInv /\ WorkspaceInv /\ co.pc # "idle"
      /\ co' = Testing /\ UNCHANGED <<run, ws, test, stop, cancels>>
  BY DEF ExecutorAnswers, IInv, threads
<1>2. PICK p \in Patches \ {run.base} : Result([Cur EXCEPT !.patch = p])
  BY DEF ExecutorAnswers
<1> DEFINE r == [Cur EXCEPT !.patch = p]
<1>3. /\ Cur \in ResultType /\ Cur.st = "started" /\ ~Cur.objected /\ Cur.reviews = 0
      /\ Cur.origin # "review" /\ run.status # "waiting"
      /\ Cur.origin = "feedback" => run.base # NoPatch
  BY <1>1, UnderWay DEF AttemptInv, Progress
<1>4. /\ r \in ResultType /\ r.st = "started" /\ ~r.objected /\ r.origin = Cur.origin
      /\ r.patch = p /\ r.reviews = 0 /\ p # NoPatch
  BY <1>3, ExecutionAssumption DEF ResultType
<1> HIDE DEF r
<1>5. Sound(co.n, r)
  BY <1>3, <1>4, PlainIsSound
<1>6. Progress("test", r)
  BY <1>3, <1>4 DEF Progress
<1>7. co' \in CoType /\ co'.pc = "test" /\ co'.n = co.n
  BY <1>1 DEF Testing, TypeOK, CoType
<1>8. WorkspaceInv'
  BY <1>1, <1>7 DEF WorkspaceInv, ContainerIsKnown, Inside
<1> QED  BY <1>1, <1>2, <1>3, <1>4, <1>5, <1>6, <1>7, <1>8, ContinueStep DEF TypeOK, r

LEMMA ExecutorFailsInv ==
  ASSUME IInv, PrepareFails \/ ExecutorFails  PROVE IInv'
<1>1. CASE PrepareFails
  BY <1>1, FailInv DEF PrepareFails
<1>2. CASE ExecutorFails
  <2>1. test.pc = "off" /\ co.pc = "execute" /\ Awaiting /\ test' = test /\ UNCHANGED cancels
    BY <1>2, Untested DEF ExecutorFails, Awaiting
  <2>2. CASE Fail("other") /\ UNCHANGED stop
    BY <2>1, <2>2, FailInv
  <2>3. CASE Abort("timeout", "client") /\ UNCHANGED <<run, ws>>
    BY <2>1, <2>3, AbortInv
  <2> QED  BY <1>2, <2>2, <2>3 DEF ExecutorFails
<1> QED  BY <1>1, <1>2

\* What the attempt under way records without an objection is sound.
LEMMA StillSound ==
  ASSUME IInv, co.pc # "idle", NEW r \in ResultType, r.st # "passed", ~r.objected,
         r.origin = Cur.origin, r.patch = Cur.patch
  PROVE  Sound(co.n, r)
<1>1. Sound(co.n, Cur)
  BY UnderWay
<1> QED  BY <1>1 DEF Sound, Earned, Repeated, Remembered

LEMMA AskGateInv ==
  ASSUME IInv, AskGate  PROVE IInv'
<1>1. /\ co.pc = "test" /\ TypeOK /\ AttemptInv /\ WorkspaceInv /\ co.pc # "idle"
      /\ Cur.gates < Gates /\ UNCHANGED <<run, results, ws, stop, cancels>>
  BY DEF AskGate, IInv
<1>2. /\ Cur \in ResultType /\ Sound(co.n, Cur) /\ run.status # "waiting" /\ Result(Cur)
      /\ Progress("test", Cur) /\ Cur.gates \in 0..Gates
  BY <1>1, UnderWay, Same, ResultFields DEF AttemptInv, Result
<1>3. Progress("gate", Cur)
  BY <1>1, <1>2 DEF Progress
<1>4. co' \in CoType /\ co'.pc = "gate" /\ co'.n = co.n
  BY <1>1 DEF AskGate, TypeOK, CoType
<1>5. test' \in TestType /\ test'.pc = "queued" /\ test'.gate = Cur.gates + 1
  <2>1. Cur.gates + 1 \in 0..Gates
    BY <1>1, <1>2, ExecutionAssumption
  <2> QED  BY <2>1, NothingRuns DEF AskGate, TestType
<1>6. Cur' = Cur
  BY <1>1, <1>4 DEF Cur
<1>7. WorkspaceInv'
  BY <1>1, <1>4, <1>5, <1>6 DEF WorkspaceInv, ContainerIsKnown, Inside
<1> QED  BY <1>1, <1>2, <1>3, <1>4, <1>5, <1>7, ContinueStep DEF TypeOK

LEMMA GateAnswersInv ==
  ASSUME IInv, GateAnswers  PROVE IInv'
<1> DEFINE r == [Cur EXCEPT !.gates = @ + 1,
                            !.red = IF test.out = "red" THEN @ \cup {test.gate} ELSE @]
<1>1. /\ co.pc = "gate" /\ TypeOK /\ AttemptInv /\ WorkspaceInv /\ co.pc # "idle"
      /\ test.pc = "done" /\ test.out \in {"green", "red"} /\ test' = NoTest
      /\ Result(r) /\ co' = Testing /\ UNCHANGED <<run, ws, stop, cancels>>
  BY DEF GateAnswers, IInv
<1>2. /\ Cur \in ResultType /\ Cur.st = "started" /\ ~Cur.objected /\ run.status # "waiting"
      /\ Progress("gate", Cur)
      /\ Cur.gates \in 0..Gates /\ Cur.gates < Gates /\ Cur.red \in SUBSET (1..Gates)
  BY <1>1, UnderWay, ResultFields DEF AttemptInv, Progress
<1>3. test.gate = Cur.gates + 1 /\ ~ws.container
  BY <1>1 DEF WorkspaceInv, ContainerIsKnown
<1>4. Cur.gates + 1 \in 0..Gates /\ test.gate \in 1..Gates
  BY <1>2, <1>3, ExecutionAssumption
<1>5. /\ r \in ResultType /\ r.st = "started" /\ ~r.objected
      /\ r.origin = Cur.origin /\ r.patch = Cur.patch /\ r.reviews = Cur.reviews
  BY <1>2, <1>4 DEF ResultType
<1> HIDE DEF r
<1>6. Sound(co.n, r)
  BY <1>1, <1>5, StillSound
<1>7. Progress("test", r)
  BY <1>2, <1>5 DEF Progress
<1>8. co' \in CoType /\ co'.pc = "test" /\ co'.n = co.n
  BY <1>1 DEF Testing, TypeOK, CoType
<1>9. WorkspaceInv'
  BY <1>1, <1>3, <1>8, NothingRuns DEF WorkspaceInv, ContainerIsKnown, Inside
<1> QED  BY <1>1, <1>2, <1>5, <1>6, <1>7, <1>8, <1>9, NothingRuns, ContinueStep DEF TypeOK

LEMMA GateFailsInv ==
  ASSUME IInv, GateFails  PROVE IInv'
<1>1. co.pc = "gate" /\ test.pc = "done" /\ test' = NoTest /\ Awaiting /\ UNCHANGED cancels
  BY DEF GateFails, Awaiting
<1>2. CASE Fail("other") /\ UNCHANGED stop
  BY <1>1, <1>2, FailInv
<1>3. CASE Abort("timeout", "timeout") /\ UNCHANGED <<run, ws>>
  BY <1>1, <1>3, AbortInv
<1> QED  BY <1>2, <1>3 DEF GateFails

LEMMA GatesBlockInv ==
  ASSUME IInv, GatesBlock  PROVE IInv'
BY FailInv DEF GatesBlock

LEMMA AskReviewerInv ==
  ASSUME IInv, AskReviewer  PROVE IInv'
<1> DEFINE r == [Cur EXCEPT !.reviews = @ + 1]
<1>1. /\ co.pc \in {"test", "again"} /\ co.pc # "idle" /\ TypeOK /\ AttemptInv /\ WorkspaceInv
      /\ UNCHANGED <<test, stop, cancels>> /\ test.pc = "off" /\ ~ws.container
  BY Untested DEF AskReviewer, IInv
<1>2. CASE run.calls < MaxCalls
  <2>1. Result(r) /\ run' = [run EXCEPT !.calls = @ + 1] /\ co' = [co EXCEPT !.pc = "review"] /\ ws' = ws
    BY <1>2 DEF AskReviewer
  <2>2. /\ Cur \in ResultType /\ Cur.st = "started" /\ ~Cur.objected /\ run.status # "waiting"
        /\ Progress(co.pc, Cur)
    BY <1>1, UnderWay DEF AttemptInv
  <2>3. AllGreen(Cur) /\ Cur.reviews \in 0..1
    BY <1>1, <2>2 DEF AskReviewer, Progress, Blocked, AllGreen
  <2>4. /\ r \in ResultType /\ r.st = "started" /\ ~r.objected /\ r.origin = Cur.origin
        /\ r.patch = Cur.patch /\ r.reviews \in 1..2 /\ r.gates = Cur.gates /\ r.red = Cur.red
    BY <2>2, <2>3 DEF ResultType
  <2> HIDE DEF r
  <2>5. Sound(co.n, r)
    BY <1>1, <2>4, StillSound
  <2>6. Progress("review", r)
    BY <1>1, <2>2, <2>3, <2>4 DEF Progress, AllGreen
  <2>7. co' \in CoType /\ co'.pc = "review" /\ co'.n = co.n
    BY <1>1, <2>1 DEF TypeOK, CoType
  <2>8. run' \in RunType /\ run'.base = run.base /\ run'.status # "waiting"
    BY <1>1, <1>2, <2>1, <2>2, ExecutionAssumption DEF TypeOK, RunType
  <2>9. WorkspaceInv'
    BY <1>1, <2>1, <2>7 DEF WorkspaceInv, ContainerIsKnown, Inside
  <2> QED  BY <1>1, <2>1, <2>4, <2>5, <2>6, <2>7, <2>8, <2>9, ContinueStep DEF TypeOK
<1>3. CASE ~(run.calls < MaxCalls)
  BY <1>1, <1>3, FailInv DEF AskReviewer
<1> QED  BY <1>2, <1>3

\* What an answer makes of the result, given that nothing objected before it.
LEMMA HeardFields ==
  ASSUME IInv, co.pc = "review", NEW a \in Answers
  PROVE  /\ Heard(a) \in ResultType /\ Heard(a).st = "started"
         /\ Heard(a).origin = Cur.origin /\ Heard(a).patch = Cur.patch
         /\ Heard(a).gates = Cur.gates /\ Heard(a).red = Cur.red /\ Heard(a).reviews = Cur.reviews
         /\ Heard(a).objected <=> a.said = "changes"
         /\ a.form \in {"valid", "citation"} => Heard(a).review = a.said
         /\ a.form \in {"valid", "citation", "reference", "schema"}
<1>1. Cur \in ResultType /\ Cur.st = "started" /\ Cur.objected = FALSE /\ Cur.review \in Conclusions \cup {"none"}
  BY UnderWay, ResultFields
<1>2. /\ a.said \in Conclusions /\ a.form \in {"valid", "citation", "reference", "schema"}
      /\ a.open \in BOOLEAN
  BY DEF Answers, Conclusions
<1>3. Kept(a) \in Conclusions \cup {"none"} /\ (a.form \in {"valid", "citation"} => Kept(a) = a.said)
  BY <1>1, <1>2 DEF Kept, Conclusions
<1>4. Heard(a) = [Cur EXCEPT !.review = Kept(a), !.objected = (a.said = "changes")]
  BY <1>1 DEF Heard, ResultType
<1> QED  BY <1>1, <1>2, <1>3, <1>4 DEF ResultType

LEMMA ReviewAgainInv ==
  ASSUME IInv, co.pc = "review", NEW a \in Answers, ReviewAgain(a), UNCHANGED <<test, stop, cancels>>
  PROVE  IInv'
<1>1. /\ co.pc # "idle" /\ TypeOK /\ AttemptInv /\ WorkspaceInv /\ Result(Heard(a))
      /\ co' = [co EXCEPT !.pc = "again"] /\ UNCHANGED <<run, ws>>
      /\ Cur.reviews = 1 /\ a.said # "changes"
  BY DEF ReviewAgain, Repeatable, IInv
<1>2. Progress("review", Cur) /\ run.status # "waiting" /\ test.pc = "off" /\ ~ws.container
  BY <1>1, UnderWay, Untested DEF AttemptInv
<1>3. Sound(co.n, Heard(a))
  BY <1>1, HeardFields, StillSound
<1>4. Progress("again", Heard(a))
  BY <1>1, <1>2, HeardFields DEF Progress, AllGreen
<1>5. co' \in CoType /\ co'.pc = "again" /\ co'.n = co.n
  BY <1>1 DEF TypeOK, CoType
<1>6. WorkspaceInv'
  BY <1>1, <1>2, <1>5 DEF WorkspaceInv, ContainerIsKnown, Inside
<1> QED  BY <1>1, <1>2, <1>3, <1>4, <1>5, <1>6, HeardFields, ContinueStep DEF TypeOK

\* An answer that objects ends the attempt with its objection on record.
LEMMA ReviewBlocksInv ==
  ASSUME IInv, co.pc = "review", NEW a \in Answers, ReviewBlocks(a), UNCHANGED <<test, stop, cancels>>
  PROVE  IInv'
<1> DEFINE why == IF a.form = "valid" THEN "review" ELSE a.form
           f == [Heard(a) EXCEPT !.st = "failed", !.why = why]
<1>1. co.pc # "idle" /\ test.pc = "off" /\ Sound(co.n, Cur)
  BY UnderWay, Untested
<1>2. /\ why \in {"review", "citation", "reference", "schema"}
      /\ why = "citation" => Heard(a).review = a.said
      /\ Heard(a).objected => a.said = "changes"
  BY HeardFields
<1>3. Close(f, AfterFailure(co.n))
  BY DEF ReviewBlocks, FailWith
<1> HIDE DEF why
<1>4. /\ f \in ResultType /\ f.st = "failed" /\ f.why = why
      /\ f.origin = Cur.origin /\ f.patch = Cur.patch
      /\ f.objected = Heard(a).objected /\ f.review = Heard(a).review
  BY <1>2, HeardFields DEF ResultType, Ended
<1> HIDE DEF f
<1>5. Sound(co.n, f)
  BY <1>1, <1>2, <1>4 DEF Sound, Earned, Repeated, Remembered
<1>6. /\ AfterFailure(co.n) \in {"running", "waiting", "failed"} /\ AfterFailure(co.n) # "waiting"
      /\ AfterFailure(co.n) = "running" => co.n < MaxAttempts
  BY DEF AfterFailure
<1> QED  BY <1>1, <1>3, <1>4, <1>5, <1>6, CloseStep DEF Ended

\* A candidate passes after all gates and an accepting review without objection.
LEMMA PublishInv ==
  ASSUME IInv, co.pc = "review", NEW a \in Answers, Publish(a), UNCHANGED <<test, stop, cancels>>
  PROVE  IInv'
<1>1. co.pc # "idle" /\ test.pc = "off" /\ Sound(co.n, Cur) /\ AttemptInv /\ Progress("review", Cur)
      /\ co.n \in 1..MaxAttempts /\ MaxAttempts \in Nat /\ Cur.st = "started"
  BY UnderWay, Untested DEF IInv, AttemptInv
<1>2. a.form = "valid" /\ a.said = "passed"
  BY DEF Publish, Accepted
<1>3. /\ Heard(a) \in ResultType /\ Heard(a).st = "started"
      /\ Heard(a).origin = Cur.origin /\ Heard(a).patch = Cur.patch
      /\ Heard(a).gates = Cur.gates /\ Heard(a).red = Cur.red
      /\ ~Heard(a).objected /\ Heard(a).review = "passed"
  BY <1>2, HeardFields
<1>4. CASE FailWith(Heard(a), "other")
  <2>1. Heard(a).origin = "review" => Heard(a).patch = Cur.patch /\ Cur.origin = "review"
    BY <1>3
  <2> QED  BY <1>1, <1>3, <1>4, <2>1, FailStep
<1>5. CASE Close([Heard(a) EXCEPT !.st = "passed"], "waiting")
  <2> DEFINE f == [Heard(a) EXCEPT !.st = "passed"]
  <2>1. /\ f \in ResultType /\ f.st = "passed" /\ f.origin = Cur.origin /\ f.patch = Cur.patch
        /\ f.gates = Cur.gates /\ f.red = Cur.red /\ ~f.objected /\ f.review = "passed"
    BY <1>3 DEF ResultType, Ended
  <2> HIDE DEF f
  <2>2. Cur.origin = "feedback" => Repairs(co.n, Cur.patch)
    <3>1. SUFFICES ASSUME Cur.origin = "feedback" PROVE Repairs(co.n, Cur.patch)
      OBVIOUS
    <3>2. run.base # NoPatch /\ Cur.patch # run.base
      BY <1>1, <3>1 DEF Progress
    <3>3. PICK m \in 1..co.n : results[m].st = "passed" /\ results[m].patch = run.base
      BY <1>1, <3>2 DEF AttemptInv
    <3>4. m \in 1..(co.n - 1)
      BY <1>1, <3>3 DEF Cur
    <3> QED  BY <3>2, <3>3, <3>4 DEF Repairs
  <2>3. Sound(co.n, f)
    BY <1>1, <2>1, <2>2 DEF Sound, Earned, Repeated, Remembered, Progress, AllGreen
  <2>4. Close(f, "waiting")
    BY <1>5 DEF f
  <2> QED  BY <1>1, <2>1, <2>3, <2>4, CloseStep DEF Ended
<1> QED  BY <1>4, <1>5 DEF Publish

LEMMA ReviewerInv ==
  ASSUME IInv, ReviewerAnswers \/ ReviewerAnswersLate \/ ReviewerFails  PROVE IInv'
<1>1. CASE ReviewerAnswers \/ ReviewerAnswersLate
  <2>1. PICK a \in Answers : ReviewAgain(a) \/ ReviewBlocks(a) \/ Publish(a)
    BY <1>1 DEF ReviewerAnswers, ReviewerAnswersLate
  <2> QED  BY <1>1, <2>1, ReviewAgainInv, ReviewBlocksInv, PublishInv
           DEF ReviewerAnswers, ReviewerAnswersLate
<1>2. CASE ReviewerFails
  <2>1. test.pc = "off" /\ co.pc = "review" /\ Awaiting /\ test' = test /\ UNCHANGED cancels
    BY <1>2, Untested DEF ReviewerFails, Awaiting
  <2>2. CASE Fail("client") /\ UNCHANGED stop
    BY <2>1, <2>2, FailInv
  <2>3. CASE Abort("timeout", "client") /\ UNCHANGED <<run, ws>>
    BY <2>1, <2>3, AbortInv
  <2> QED  BY <1>2, <2>2, <2>3 DEF ReviewerFails
<1> QED  BY <1>1, <1>2

LEMMA GivesUpInv ==
  ASSUME IInv, TimeOut \/ Cancelled  PROVE IInv'
<1>1. Awaiting /\ Withdraw /\ UNCHANGED <<run, ws, cancels>>
  BY DEF TimeOut, Cancelled
<1>2. PICK ending \in {"timeout", "cancelled"}, why \in {"none", "timeout", "client"} : Abort(ending, why)
  BY DEF TimeOut, Cancelled
<1>3. (test' = test /\ test.pc # "done") \/ (test' = NoTest /\ test.pc \in {"off", "queued", "done"})
  BY <1>1 DEF Withdraw
<1> QED  BY <1>1, <1>2, <1>3, AbortInv

LEMMA AbortedInv ==
  ASSUME IInv, Aborted \/ AbortCancelled  PROVE IInv'
<1>1. /\ co.pc = "abort" /\ co.pc # "idle" /\ WorkspaceInv
      /\ test' = test /\ test.pc # "done" /\ UNCHANGED cancels
      /\ stop' = stop \/ stop' = NoStop
  BY DEF Aborted, AbortCancelled, IInv, WorkspaceInv
<1>2. Cur \in ResultType /\ Cur.st = "started" /\ ~Cur.objected
  BY <1>1, UnderWay
<1>3. CASE Aborted
  <2>1. PICK st \in {"timeout", "cancelled"}, status \in {"running", "failed"} :
          /\ Close([Cur EXCEPT !.st = st], status)
          /\ status = "running" => co.n < MaxAttempts
    BY <1>3 DEF Aborted, AfterFailure
  <2> DEFINE r == [Cur EXCEPT !.st = st]
  <2>2. /\ r \in ResultType /\ r.st = st /\ ~r.objected /\ r.origin = Cur.origin /\ r.patch = Cur.patch
    BY <1>2 DEF ResultType, Ended
  <2> HIDE DEF r
  <2>3. Sound(co.n, r)
    BY <1>1, <2>2, StillSound
  <2>4. ws.cancelled
    BY <1>1, <1>3 DEF Aborted, WorkspaceInv
  <2> QED  BY <1>1, <2>1, <2>2, <2>3, <2>4, CloseStep DEF r, Ended
<1>4. CASE AbortCancelled
  <2> DEFINE r == [Cur EXCEPT !.why = "none"]
  <2>1. /\ r \in ResultType /\ r.st = "started" /\ ~r.objected /\ r.origin = Cur.origin /\ r.patch = Cur.patch
    BY <1>2 DEF ResultType
  <2>2. Close(r, "failed")
    BY <1>4 DEF AbortCancelled
  <2> HIDE DEF r
  <2>3. Sound(co.n, r)
    BY <1>1, <2>1, StillSound
  <2> QED  BY <1>1, <2>1, <2>2, <2>3, CloseStep DEF Ended
<1> QED  BY <1>3, <1>4

LEMMA CancelInv ==
  ASSUME IInv, Cancel  PROVE IInv'
<1>1. /\ co.pc # "idle" /\ TypeOK /\ AttemptInv /\ WorkspaceInv
      /\ UNCHANGED <<results, ws, test, stop>>
  BY DEF Cancel, Awaiting, IInv, threads
<1>2. co' \in CoType /\ co'.pc = co.pc /\ co'.n = co.n
  BY <1>1 DEF Cancel, TypeOK, CoType
<1>3. run' \in RunType /\ run'.base = run.base /\ run'.status # "waiting"
  BY <1>1, UnderWay DEF Cancel, TypeOK, RunType
<1>4. cancels' \in 0..MaxCancels
  BY <1>1, ExecutionAssumption DEF Cancel, TypeOK
<1>5. /\ Cur \in ResultType /\ Result(Cur) /\ Sound(co.n, Cur) /\ Progress(co.pc, Cur)
  BY <1>1, UnderWay, Same DEF AttemptInv, Result
<1>6. WorkspaceInv'
  BY <1>1, <1>2 DEF WorkspaceInv, ContainerIsKnown, Inside, Cur
<1> QED  BY <1>1, <1>2, <1>3, <1>4, <1>5, <1>6, ContinueStep DEF TypeOK

LEMMA FeedbackInv ==
  ASSUME IInv, Feedback  PROVE IInv'
<1>1. /\ co.pc = "idle" /\ run.status = "waiting" /\ co.n < MaxAttempts
      /\ TypeOK /\ AttemptInv /\ WorkspaceInv
      /\ UNCHANGED <<co, results, ws, test, stop, cancels>>
  BY DEF Feedback, IInv, threads
<1>2. /\ co.n \in Attempts /\ co.n \in 1..co.n /\ Cur.st = "passed"
      /\ Cur.patch \in Patches \cup {NoPatch}
  BY <1>1, ResultFields, ExecutionAssumption DEF AttemptInv, TypeOK, Attempts, Cur
<1>3. run' \in RunType /\ run'.status = "running" /\ run'.base = Cur.patch
  BY <1>1, <1>2 DEF Feedback, TypeOK, RunType, Cur
<1>4. TypeOK' /\ WorkspaceInv'
  BY <1>1, <1>3 DEF TypeOK, WorkspaceInv, ContainerIsKnown, Cur
<1>5. AttemptInv'
  BY <1>1, <1>2, <1>3 DEF AttemptInv, Sound, Earned, Repairs, Repeated, Remembered, Cur
<1> QED  BY <1>4, <1>5 DEF IInv

LEMMA CoroutineInv ==
  ASSUME IInv, Coroutine  PROVE IInv'
BY BeginInv, NoWorkspaceInv, AskExecutorInv, SkipExecutorInv, ExecutorAnswersInv, ExecutorFailsInv,
   AskGateInv, GateAnswersInv, GateFailsInv, GatesBlockInv, AskReviewerInv, ReviewerInv, GivesUpInv,
   AbortedInv DEF Coroutine

(***************************************************************************)
(* The threads keep the invariant.                                          *)
(***************************************************************************)
\* A step of a thread leaves attempts alone.
LEMMA ThreadStep ==
  ASSUME IInv, OthersUnchanged, ws' \in WorkspaceType, test' \in TestType, stop' \in StopType,
         ws'.manifest = ws.manifest, WorkspaceInv'
  PROVE  IInv'
<1>1. AttemptInv'
  BY DEF OthersUnchanged, IInv, AttemptInv, Progress, AllGreen, Cur, Sound, Earned, Repairs,
     Repeated, Remembered
<1> QED  BY <1>1 DEF IInv, OthersUnchanged, TypeOK

LEMMA TestThreadInv ==
  ASSUME IInv, TestThread \/ ContainerExits  PROVE IInv'
<1>1. /\ WorkspaceInv /\ ws \in WorkspaceType /\ test \in TestType /\ stop \in StopType
      /\ stop' = stop /\ OthersUnchanged
  BY DEF IInv, TypeOK, TestThread, ContainerExits, TestEnters, TestOpens, TestRuns, ProbeStarts,
     ProbeEnds, TestReports, TestLeaves
<1>2. Cur' = Cur /\ co' = co
  BY <1>1 DEF OthersUnchanged, Cur
<1>3. /\ ws' \in WorkspaceType /\ test' \in TestType
      /\ ws'.manifest = ws.manifest /\ ws'.cancelled = ws.cancelled
      /\ test'.gate = test.gate \/ test'.pc = "off"
      /\ ContainerIsKnown'
      /\ test'.pc \in Inside => ~ws'.finished
      /\ test'.pc = "done" => co.pc = "gate"
      /\ test'.pc = "queued" => test.pc = "queued"
      /\ test.pc = "off" => test'.pc = "off" /\ (~ws.container => ~ws'.container)
  <2>1. CASE TestEnters
    BY <1>1, <2>1, NothingRuns
       DEF TestEnters, Step, WorkspaceInv, ContainerIsKnown, Inside, WorkspaceType, TestType
  <2>2. CASE TestOpens
    BY <1>1, <2>2 DEF TestOpens, Step, Leave, WorkspaceInv, ContainerIsKnown, Inside, WorkspaceType, TestType
  <2>3. CASE TestRuns
    BY <1>1, <2>3 DEF TestRuns, Bounded, Outcomes, WorkspaceInv, ContainerIsKnown, Inside, WorkspaceType, TestType
  <2>4. CASE ProbeStarts
    <3>1. test.probe # Probes => test.probe + 1 \in 0..Probes
      BY <1>1, ExecutionAssumption DEF TestType
    <3>2. CASE test.probe = Probes
      BY <1>1, <2>4, <3>2
         DEF ProbeStarts, Step, WorkspaceInv, ContainerIsKnown, Inside, TestType
    <3>3. CASE test.probe # Probes
      <4>1. test.pc = "probe" /\ ~ws.container /\ ~ws.finished
        BY <1>1, <2>4 DEF ProbeStarts, WorkspaceInv, ContainerIsKnown, Inside
      <4>2. CASE test' = [test EXCEPT !.pc = "leave", !.out = "expired"] /\ ws' = ws
        BY <1>1, <4>1, <4>2 DEF ContainerIsKnown, Inside, TestType
      <4>3. CASE /\ test' = [test EXCEPT !.pc = "probing", !.probe = @ + 1]
                 /\ ws' = [ws EXCEPT !.container = TRUE]
        BY <1>1, <3>1, <3>3, <4>1, <4>3 DEF ContainerIsKnown, Inside, WorkspaceType, TestType
      <4> QED  BY <2>4, <3>3, <4>2, <4>3 DEF ProbeStarts, Leave
    <3> QED  BY <3>2, <3>3
  <2>5. CASE ProbeEnds
    BY <1>1, <2>5 DEF ProbeEnds, Bounded, Outcomes, WorkspaceInv, ContainerIsKnown, Inside, WorkspaceType, TestType
  <2>6. CASE TestReports
    BY <1>1, <2>6 DEF TestReports, Leave, WorkspaceInv, ContainerIsKnown, Inside, WorkspaceType, TestType
  <2>7. CASE TestLeaves
    BY <1>1, <2>7, NothingRuns
       DEF TestLeaves, WorkspaceInv, ContainerIsKnown, Inside, WorkspaceType, TestType
  <2>8. CASE ContainerExits
    BY <1>1, <2>8 DEF ContainerExits, WorkspaceInv, ContainerIsKnown, Inside, WorkspaceType, TestType
  <2> QED  BY <2>1, <2>2, <2>3, <2>4, <2>5, <2>6, <2>7, <2>8 DEF TestThread
<1>4. WorkspaceInv'
  BY <1>1, <1>2, <1>3 DEF WorkspaceInv
<1> QED  BY <1>1, <1>3, <1>4, ThreadStep

LEMMA StopThreadInv ==
  ASSUME IInv, StopThread  PROVE IInv'
<1>1. /\ WorkspaceInv /\ ws \in WorkspaceType /\ test \in TestType /\ stop \in StopType
      /\ test' = test /\ OthersUnchanged
  BY DEF IInv, TypeOK, StopThread, StopSets, StopRemoves, StopWaits
<1>2. Cur' = Cur /\ co' = co
  BY <1>1 DEF OthersUnchanged, Cur
<1>3. /\ ws' \in WorkspaceType /\ stop' \in StopType
      /\ ws'.manifest = ws.manifest /\ ws'.finished = ws.finished /\ ws'.active = ws.active
      /\ ws'.container => ws.container
      /\ ws.cancelled => ws'.cancelled
      /\ stop'.pc \in {"remove", "wait", "done"} => ws'.cancelled
      /\ ~ws.finished /\ ~ws.confirmed => ~ws'.confirmed
  <2>1. CASE StopSets
    BY <1>1, <2>1 DEF StopSets, WorkspaceType, StopType
  <2>2. CASE StopRemoves
    <3>1. ws.cancelled
      BY <1>1, <2>2 DEF StopRemoves, WorkspaceInv
    <3>2. CASE ws' = [ws EXCEPT !.container = FALSE] /\ stop' = [stop EXCEPT !.pc = "wait"]
      BY <1>1, <3>1, <3>2 DEF WorkspaceType, StopType
    <3>3. CASE ws' = ws /\ stop' = [pc |-> "wait", error |-> TRUE]
      BY <1>1, <3>1, <3>3 DEF StopType
    <3> QED  BY <2>2, <3>2, <3>3 DEF StopRemoves
  <2>3. CASE StopWaits
    <3>1. PICK b \in BOOLEAN : (b => ws.finished) /\ ws' = [ws EXCEPT !.confirmed = b]
      BY <1>1, <2>3 DEF StopWaits
    <3>2. ws.cancelled /\ stop' \in StopType
      BY <1>1, <2>3, NothingRuns DEF StopWaits, WorkspaceInv, StopType
    <3> QED  BY <1>1, <3>1, <3>2 DEF WorkspaceType
  <2> QED  BY <2>1, <2>2, <2>3 DEF StopThread
<1>4. ContainerIsKnown'
  BY <1>1, <1>3 DEF WorkspaceInv, ContainerIsKnown, Inside
<1>5. WorkspaceInv'
  BY <1>1, <1>2, <1>3, <1>4 DEF WorkspaceInv
<1> QED  BY <1>1, <1>3, <1>5, ThreadStep

(***************************************************************************)
(* What holds of every behaviour.                                           *)
(***************************************************************************)
LEMMA InitInv == Init => IInv
<1> SUFFICES ASSUME Init PROVE IInv
  OBVIOUS
<1>1. /\ co.pc = "idle" /\ co.n = 0 /\ co \in CoType
      /\ run \in RunType /\ run.status = "running" /\ run.base = NoPatch
      /\ results \in [Attempts -> ResultType]
      /\ \A n \in Attempts : results[n] = NoResult
      /\ ws \in WorkspaceType /\ ~ws.container
      /\ test = NoTest /\ stop = NoStop /\ cancels \in 0..MaxCancels
  <2>1. 0 \in 0..MaxAttempts /\ 0 \in 0..MaxCalls /\ 0 \in 0..MaxCancels
    BY ExecutionAssumption
  <2>2. /\ co.pc = "idle" /\ co.n = 0 /\ co \in CoType
        /\ run \in RunType /\ run.status = "running" /\ run.base = NoPatch
    BY <2>1 DEF Init, CoType, RunType
  <2>3. results \in [Attempts -> ResultType] /\ \A n \in Attempts : results[n] = NoResult
    BY FreshFields DEF Init
  <2>4. NewWorkspace \in WorkspaceType /\ ~NewWorkspace.container
    BY DEF NewWorkspace, WorkspaceType
  <2>5. ws \in WorkspaceType /\ ~ws.container
    BY <2>4 DEF Init, WorkspaceType
  <2> QED  BY <2>1, <2>2, <2>3, <2>5 DEF Init
<1>2. TypeOK
  BY <1>1, NothingRuns DEF TypeOK
<1>3. \A n \in Attempts : Sound(n, results[n])
  BY <1>1, FreshFields, PlainIsSound
<1>4. AttemptInv
  BY <1>1, <1>3, ExecutionAssumption DEF AttemptInv
<1>5. WorkspaceInv
  BY <1>1, NothingRuns DEF WorkspaceInv, ContainerIsKnown, Inside
<1> QED  BY <1>2, <1>4, <1>5 DEF IInv

LEMMA NextInv == IInv /\ [Next]_vars => IInv'
<1> SUFFICES ASSUME IInv, [Next]_vars PROVE IInv'
  OBVIOUS
<1>1. CASE UNCHANGED vars
  BY <1>1 DEF vars, IInv, TypeOK, AttemptInv, Progress, AllGreen, Cur, Sound, Earned, Repairs,
     Repeated, Remembered, WorkspaceInv, ContainerIsKnown
<1> QED  BY <1>1, CoroutineInv, CancelInv, FeedbackInv, TestThreadInv, StopThreadInv DEF Next, Rest

LEMMA Invariant == Spec => []IInv
BY InitInv, NextInv, PTL DEF Spec

\* Every variable keeps its type: attempts, provider calls, gates and reviews
\* stay within their budgets (EngineeringService.dispatch and _run).
THEOREM TypeOKAlways == Spec => []TypeOK
<1>1. IInv => TypeOK
  BY DEF IInv
<1> QED  BY <1>1, Invariant, PTL

\* A passed attempt has earned it, and only a lost review is repeated without a
\* new candidate (service.py _run and review_candidate).
THEOREM EvidenceHoldsAlways == Spec => []EvidenceHolds
<1>1. IInv => EvidenceHolds
  BY DEF IInv, AttemptInv, Sound, Earned, Repairs, Repeated,
     EvidenceHolds, PassedIsEarned, OnlyLostReviewsAreRepeated
<1> QED  BY <1>1, Invariant, PTL

\* A workspace that may be retired has no container and no thread that will
\* start one (workspace.py cleanup).
THEOREM RetireIsSafeAlways == Spec => []RetireIsSafe
<1>1. IInv => RetireIsSafe
  BY DEF IInv, TypeOK, TestType, WorkspaceInv, ContainerIsKnown, Inside, RetireIsSafe, MayRetire, Ended
<1> QED  BY <1>1, Invariant, PTL

=============================================================================
