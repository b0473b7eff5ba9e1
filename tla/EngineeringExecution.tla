-------------------------- MODULE EngineeringExecution --------------------------
(***************************************************************************)
(* How one engineering task is carried out: the attempts of                *)
(* EngineeringService.dispatch and _run, each in a Workspace of its own.   *)
(* The coroutine awaits the executor, three test gates and the reviewer;   *)
(* a gate runs in a worker thread that drives a container, and             *)
(* Workspace.cancel in another.  A cancelled await leaves its thread       *)
(* running.  A later attempt starts from the result.json of the last one:  *)
(* it edits that candidate, only reviews it again, or begins afresh.       *)
(*                                                                         *)
(* Only the last workspace is followed: the threads of earlier ones touch  *)
(* nothing that a later attempt uses.                                      *)
(*                                                                         *)
(* Patches stand for the two files of a candidate with their digest and    *)
(* commit; prompts, answers and logs are reduced to what decides.          *)
(***************************************************************************)
EXTENDS Naturals, Sequences, FiniteSets

CONSTANTS
  Patches,       \* candidate contents, by digest
  NoPatch,       \* attempt without a verified candidate
  MaxAttempts,   \* Task.max_attempts
  MaxCalls,      \* RequestPolicy.max_attempts of the run's ledger
  Gates,         \* test commands of a candidate: 3
  Probes,        \* broken implementations the second gate must reject: 2
  MaxCancels     \* bound: Task.cancel() calls on the driver

ASSUME ExecutionAssumption ==
  /\ NoPatch \notin Patches
  /\ {MaxAttempts, MaxCalls, Gates, Probes, MaxCancels} \subseteq Nat
  /\ MaxAttempts > 0 /\ Gates > 0

VARIABLES
  co,        \* the driving coroutine
  run,       \* its status, the version a repair was asked for, provider calls
  results,   \* by attempt: its result, in memory and at the end in result.json
  ws,        \* the workspace of the last attempt
  test,      \* its thread in Workspace.test
  stop,      \* its thread in Workspace.cancel
  cancels    \* Task.cancel() calls so far

vars == <<co, run, results, ws, test, stop, cancels>>
threads == <<ws, test, stop>>

Attempts == 1..MaxAttempts
ProbedGate == 2

Ended == {"failed", "timeout", "cancelled", "passed"}
Conclusions == {"passed", "changes", "inconclusive"}
Outcomes == {"green", "red", "late", "dirty"}

Fresh == [st |-> "started", why |-> "none", patch |-> NoPatch, gates |-> 0, red |-> {},
          review |-> "none", reviews |-> 0, objected |-> FALSE, origin |-> "fresh"]

NoResult == [Fresh EXCEPT !.st = "none"]

NewWorkspace == [cancelled |-> FALSE, finished |-> TRUE, confirmed |-> TRUE,
                 active |-> "none", container |-> FALSE, manifest |-> "active"]

NoTest == [pc |-> "off", gate |-> 0, probe |-> 0, out |-> "none"]
NoStop == [pc |-> "off", error |-> FALSE]

Init ==
  /\ co = [pc |-> "idle", n |-> 0, cancel |-> FALSE, ending |-> "none"]
  /\ run = [status |-> "running", base |-> NoPatch, calls |-> 0]
  /\ results = [n \in Attempts |-> NoResult]
  /\ ws = [NewWorkspace EXCEPT !.manifest = "none"]
  /\ test = NoTest
  /\ stop = NoStop
  /\ cancels = 0

-----------------------------------------------------------------------------
(* What an earlier attempt leaves to a later one. *)

AllGreen(r) == r.gates = Gates /\ r.red = {}

Cur == results[co.n]
Previous == co.n - 1
Usable(n) == n \in Attempts /\ results[n].st \in {"failed", "timeout"}

\* Failed gates and a rejected review are repaired by edits of that candidate.
RetryCandidate(n) ==
  /\ Usable(n)
  /\ results[n].patch # NoPatch
  /\ \/ results[n].why = "tests"
     \/ results[n].why = "review" /\ results[n].review = "changes"

\* A candidate whose gates all passed and whose review was lost or malformed
\* is only reviewed again.
ReviewCandidate(n) ==
  /\ Usable(n)
  /\ results[n].patch # NoPatch
  /\ AllGreen(results[n])
  /\ results[n].reviews > 0
  /\ results[n].review # "changes"
  /\ results[n].why \in {"client", "schema", "citation"}

-----------------------------------------------------------------------------
(* The coroutine: one attempt. *)

Result(r) == results' = [results EXCEPT ![co.n] = r]

\* record_attempt_failure of the controller: another attempt or the end.
AfterFailure(n) == IF n < MaxAttempts THEN "running" ELSE "failed"

\* The end of an attempt: the finally clause writes result.json and closes the
\* manifest, then the controller records the failure.
Close(r, status) ==
  /\ Result(r)
  /\ ws' = [ws EXCEPT !.manifest = r.st]
  /\ co' = [co EXCEPT !.pc = "idle", !.ending = "none", !.cancel = FALSE]
  /\ run' = [run EXCEPT !.status = IF @ = "running" THEN status ELSE @]

FailWith(r, why) ==
  Close([r EXCEPT !.st = "failed", !.why = why], AfterFailure(co.n))

Fail(why) == FailWith(Cur, why)

\* dispatch: a workspace, its id saved in the run, then an empty result.
Begin ==
  /\ co.pc = "idle"
  /\ run.status = "running"
  /\ co' = [co EXCEPT !.pc = "prepare", !.n = @ + 1]
  /\ ws' = NewWorkspace
  /\ results' = [results EXCEPT ![co.n + 1] = Fresh]
  /\ test' = NoTest
  /\ stop' = NoStop
  /\ UNCHANGED <<run, cancels>>

\* git worktree add fails: an attempt without evidence.
NoWorkspace ==
  /\ co.pc = "idle"
  /\ run.status = "running"
  /\ co' = [co EXCEPT !.n = @ + 1]
  /\ run' = [run EXCEPT !.status = AfterFailure(co.n + 1)]
  /\ UNCHANGED <<results, threads, cancels>>

\* Where the patch of this attempt comes from: feedback goes first; without
\* readable evidence (the file is quarantined) the executor begins afresh.
Origins ==
  IF run.base # NoPatch THEN {"feedback"}
  ELSE {"fresh", IF ReviewCandidate(Previous) THEN "review"
                 ELSE IF RetryCandidate(Previous) THEN "edit" ELSE "fresh"}

\* _run up to its first await; the ledger pays for the executor.
AskExecutor ==
  /\ co.pc = "prepare"
  /\ \E o \in Origins \ {"review"} :
       IF run.calls < MaxCalls
       THEN /\ Result([Cur EXCEPT !.origin = o])
            /\ run' = [run EXCEPT !.calls = @ + 1]
            /\ co' = [co EXCEPT !.pc = "execute"]
            /\ UNCHANGED ws
       ELSE FailWith([Cur EXCEPT !.origin = o], "budget")
  /\ UNCHANGED <<test, stop, cancels>>

Testing == [co EXCEPT !.pc = "test"]

SkipExecutor ==
  /\ co.pc = "prepare"
  /\ "review" \in Origins
  /\ Result([Cur EXCEPT !.patch = results[Previous].patch, !.origin = "review"])
  /\ co' = Testing
  /\ UNCHANGED <<run, threads, cancels>>

\* Files or edits, applied, verified and committed.  An edit asked for by the
\* owner must change the version it was given for.
ExecutorAnswers ==
  /\ co.pc = "execute"
  /\ ~co.cancel
  /\ \E p \in Patches \ {run.base} : Result([Cur EXCEPT !.patch = p])
  /\ co' = Testing
  /\ UNCHANGED <<run, threads, cancels>>

\* The except clauses that cancel the workspace in a thread and await it.
Abort(ending, why) ==
  /\ co' = [co EXCEPT !.pc = "abort", !.ending = ending, !.cancel = FALSE]
  /\ Result([Cur EXCEPT !.why = why])
  /\ stop' = [pc |-> "set", error |-> FALSE]

\* What a thread answers is lost; one that has not begun may be withdrawn.
Withdraw ==
  \/ test' = IF test.pc \in {"queued", "done"} THEN NoTest ELSE test
  \/ test.pc = "queued" /\ UNCHANGED test

\* The candidate to start from cannot be read, applied or verified.
PrepareFails ==
  /\ co.pc = "prepare"
  /\ Origins # {"fresh"}
  /\ Fail("other")
  /\ UNCHANGED <<test, stop, cancels>>

ExecutorFails ==
  /\ co.pc = "execute"
  /\ ~co.cancel
  /\ \/ Fail("other") /\ UNCHANGED stop
     \/ Abort("timeout", "client") /\ UNCHANGED <<run, ws>>
  /\ UNCHANGED <<test, cancels>>

AskGate ==
  /\ co.pc = "test"
  /\ Cur.gates < Gates
  /\ co' = [co EXCEPT !.pc = "gate"]
  /\ test' = [NoTest EXCEPT !.pc = "queued", !.gate = Cur.gates + 1]
  /\ UNCHANGED <<run, results, ws, stop, cancels>>

\* The thread is back: evidence, then the timeout and cleanup checks.
GateAnswers ==
  /\ co.pc = "gate"
  /\ ~co.cancel
  /\ test.pc = "done"
  /\ test.out \in {"green", "red"}
  /\ test' = NoTest
  /\ Result([Cur EXCEPT !.gates = @ + 1,
                        !.red = IF test.out = "red" THEN @ \cup {test.gate} ELSE @])
  /\ co' = Testing
  /\ UNCHANGED <<run, ws, stop, cancels>>

GateFails ==
  /\ co.pc = "gate"
  /\ ~co.cancel
  /\ test.pc = "done"
  /\ \/ /\ test.out \in {"dirty", "raised"}
        /\ Fail("other")
        /\ UNCHANGED stop
     \/ /\ test.out \in {"late", "expired"}
        /\ Abort("timeout", "timeout")
        /\ UNCHANGED <<run, ws>>
  /\ test' = NoTest
  /\ UNCHANGED cancels

\* Mutant: the gate that ran last decides.
BlockedByLast == Gates \in Cur.red

\* All gates are collected before a red one blocks the candidate.
Blocked == Cur.red # {}

GatesBlock ==
  /\ co.pc = "test"
  /\ Cur.gates = Gates
  /\ Blocked
  /\ Fail("tests")
  /\ UNCHANGED <<test, stop, cancels>>

-----------------------------------------------------------------------------
(* The coroutine: the review, at most twice. *)

\* Each call is recorded, then charged to the ledger, then awaited.
AskReviewer ==
  /\ \/ co.pc = "test" /\ Cur.gates = Gates /\ ~Blocked
     \/ co.pc = "again"
  /\ IF run.calls < MaxCalls
     THEN /\ run' = [run EXCEPT !.calls = @ + 1]
          /\ Result([Cur EXCEPT !.reviews = @ + 1])
          /\ co' = [co EXCEPT !.pc = "review"]
          /\ UNCHANGED ws
     ELSE Fail("budget")
  /\ UNCHANGED <<test, stop, cancels>>

\* What the answer says, and whether it parses, cites the candidate and names
\* its digest.  An answer that does not parse at all says nothing.
Answers ==
  [said: Conclusions, form: {"valid", "citation", "reference"}, open: {FALSE}]
    \cup [said: {"passed"}, form: {"valid"}, open: {TRUE}]  \* blocking finding, failed check
    \cup [said: {"passed", "changes"}, form: {"schema"}, open: {FALSE}]

\* The review kept in the result: none is parsed out of a malformed answer.
Kept(a) == CASE a.form \in {"valid", "citation"} -> a.said
             [] a.form = "reference" -> Cur.review
             [] a.form = "schema" -> "inconclusive"

\* Mutant: a malformed answer is always asked for again.
RepeatableForEver(a) == a.form # "valid" /\ a.said # "changes"

\* A malformed answer that objects is not asked for again.
Repeatable(a) == a.form # "valid" /\ Cur.reviews = 1 /\ a.said # "changes"

Heard(a) == [Cur EXCEPT !.review = Kept(a), !.objected = @ \/ a.said = "changes"]

Accepted(a) == a.form = "valid" /\ a.said = "passed" /\ ~a.open

ReviewAgain(a) ==
  /\ Repeatable(a)
  /\ Result(Heard(a))
  /\ co' = [co EXCEPT !.pc = "again"]
  /\ UNCHANGED <<run, ws>>

ReviewBlocks(a) ==
  /\ ~Accepted(a)
  /\ ~Repeatable(a)
  /\ FailWith(Heard(a), IF a.form = "valid" THEN "review" ELSE a.form)

\* Envelopes and the output are registered, which may fail.
Publish(a) ==
  /\ Accepted(a)
  /\ \/ Close([Heard(a) EXCEPT !.st = "passed"], "waiting")
     \/ FailWith(Heard(a), "other")

ReviewerAnswers ==
  /\ co.pc = "review"
  /\ ~co.cancel
  /\ \E a \in Answers : ReviewAgain(a) \/ ReviewBlocks(a) \/ Publish(a)
  /\ UNCHANGED <<test, stop, cancels>>

\* A cancellation that meets the end of the work is swallowed by
\* asyncio.wait_for of Python 3.10 and 3.11; the status is read after it.
ReviewerAnswersLate ==
  /\ co.pc = "review"
  /\ co.cancel
  /\ run.status = "running"
  /\ \E a \in Answers : ReviewBlocks(a) \/ Publish(a)
  /\ UNCHANGED <<test, stop, cancels>>

ReviewerFails ==
  /\ co.pc = "review"
  /\ ~co.cancel
  /\ \/ Fail("client") /\ UNCHANGED stop
     \/ Abort("timeout", "client") /\ UNCHANGED <<run, ws>>
  /\ UNCHANGED <<test, cancels>>

-----------------------------------------------------------------------------
(* The coroutine: timeouts and cancellation. *)

Awaiting == co.pc \in {"execute", "gate", "review"}

\* asyncio.wait_for gives up on _run.
TimeOut ==
  /\ Awaiting
  /\ ~co.cancel
  /\ Abort("timeout", "timeout")
  /\ Withdraw
  /\ UNCHANGED <<run, ws, cancels>>

\* interrupt() cancels the run first, shutdown only the task.
Cancel ==
  /\ cancels < MaxCancels
  /\ Awaiting \/ co.pc = "abort"
  /\ \/ run' = [run EXCEPT !.status = IF @ = "running" THEN "cancelled" ELSE @]
     \/ UNCHANGED run
  /\ co' = [co EXCEPT !.cancel = TRUE]
  /\ cancels' = cancels + 1
  /\ UNCHANGED <<results, threads>>

Cancelled ==
  /\ Awaiting
  /\ co.cancel
  /\ Abort("cancelled", "none")
  /\ Withdraw
  /\ UNCHANGED <<run, ws, cancels>>

\* Whatever the thread reports, it is over; its error is only recorded.
Aborted ==
  /\ co.pc = "abort"
  /\ ~co.cancel
  /\ stop.pc = "done"
  /\ IF co.ending = "timeout" THEN Close([Cur EXCEPT !.st = "timeout"], AfterFailure(co.n))
     ELSE Close([Cur EXCEPT !.st = "cancelled"], "failed")
  /\ UNCHANGED <<test, stop, cancels>>

\* A second cancellation leaves the except clause before it names the state.
AbortCancelled ==
  /\ co.pc = "abort"
  /\ co.cancel
  /\ Close([Cur EXCEPT !.why = "none"], "failed")
  /\ stop' = IF stop.pc = "set" THEN NoStop ELSE stop
  /\ UNCHANGED <<test, cancels>>

\* The owner asks for a change of the version that passed (EngineeringDelivery).
Feedback ==
  /\ co.pc = "idle"
  /\ run.status = "waiting"
  /\ co.n < MaxAttempts
  /\ MaxCalls - run.calls >= 2
  /\ run' = [run EXCEPT !.status = "running", !.base = results[co.n].patch]
  /\ UNCHANGED <<co, results, threads, cancels>>

-----------------------------------------------------------------------------
(* The thread in Workspace.test. *)

Step(pc) == test' = [test EXCEPT !.pc = pc]
Leave(out) == test' = [test EXCEPT !.pc = "leave", !.out = out]
OthersUnchanged == UNCHANGED <<co, run, results, cancels>>

\* The first thing a gate looks at is the cancelled flag.
TestEnters ==
  /\ test.pc = "queued"
  /\ IF ws.cancelled
     THEN test' = NoTest /\ UNCHANGED ws
     ELSE Step("open") /\ ws' = [ws EXCEPT !.finished = FALSE]
  /\ UNCHANGED stop
  /\ OthersUnchanged

\* active-test.json is on disk before docker run; the deadline may have passed.
TestOpens ==
  /\ test.pc = "open"
  /\ \/ Leave("raised") /\ UNCHANGED ws
     \/ Leave("expired") /\ ws' = [ws EXCEPT !.confirmed = FALSE, !.active = "open"]
     \/ /\ Step("run")
        /\ ws' = [ws EXCEPT !.confirmed = FALSE, !.active = "open", !.container = TRUE]
  /\ UNCHANGED stop
  /\ OthersUnchanged

\* The container ends by itself and is removed (--rm).
ContainerExits ==
  /\ ws.container
  /\ ws' = [ws EXCEPT !.container = FALSE]
  /\ UNCHANGED <<test, stop>>
  /\ OthersUnchanged

\* bounded_process: the client has ended, or it is killed on timeout, output
\* limit or cancellation and the container is removed, which may fail.
Bounded(out, up) ==
  \/ ~ws.container /\ ~up /\ out \in {"green", "red"}
  \/ ~up /\ out \in (IF ws.cancelled THEN {"red"} ELSE {"late", "red"})
  \/ up \in {FALSE, ws.container} /\ out = "dirty"

\* A green second gate is probed with two broken implementations.
TestRuns ==
  /\ test.pc = "run"
  /\ \E out \in Outcomes, up \in BOOLEAN :
       /\ Bounded(out, up)
       /\ ws' = [ws EXCEPT !.container = up, !.confirmed = out # "dirty"]
       /\ test' = [test EXCEPT !.out = out,
            !.pc = IF out = "green" /\ test.gate = ProbedGate THEN "probe" ELSE "report"]
  /\ UNCHANGED stop
  /\ OthersUnchanged

ProbeStarts ==
  /\ test.pc = "probe"
  /\ IF test.probe = Probes
     THEN Step("report") /\ UNCHANGED ws
     ELSE \/ Leave("expired") /\ UNCHANGED ws
          \/ /\ test' = [test EXCEPT !.pc = "probing", !.probe = @ + 1]
             /\ ws' = [ws EXCEPT !.container = TRUE]
  /\ UNCHANGED stop
  /\ OthersUnchanged

\* A probe that is not detected (red) turns the gate red; a container that may
\* remain ends the probing.
ProbeEnds ==
  /\ test.pc = "probing"
  /\ \E out \in Outcomes, up \in BOOLEAN :
       /\ Bounded(out, up)
       /\ ws' = [ws EXCEPT !.container = up, !.confirmed = out # "dirty"]
       /\ test' = [test EXCEPT
            !.pc = IF out \in {"dirty", "late"} THEN "report" ELSE "probe",
            !.out = CASE out = "dirty" -> "dirty"
                         [] out \in {"late", "red"} -> "red"
                         [] out = "green" -> @]
  /\ UNCHANGED stop
  /\ OthersUnchanged

\* active-test.json is closed with what this thread knows of the container;
\* then the candidate is verified once more.
TestReports ==
  /\ test.pc = "report"
  /\ ws' = [ws EXCEPT !.active = IF ws.confirmed THEN "clean" ELSE "dirty"]
  /\ Leave(test.out) \/ Leave("raised")
  /\ UNCHANGED stop
  /\ OthersUnchanged

TestLeaves ==
  /\ test.pc = "leave"
  /\ ws' = [ws EXCEPT !.finished = TRUE]
  /\ test' = IF co.pc = "gate" /\ ~co.cancel
             THEN [test EXCEPT !.pc = "done"] ELSE NoTest
  /\ UNCHANGED stop
  /\ OthersUnchanged

-----------------------------------------------------------------------------
(* The thread in Workspace.cancel. *)

StopSets ==
  /\ stop.pc = "set"
  /\ ws' = [ws EXCEPT !.cancelled = TRUE]
  /\ stop' = [stop EXCEPT !.pc = "remove"]
  /\ UNCHANGED test
  /\ OthersUnchanged

\* docker rm: nothing to remove is no error.
StopRemoves ==
  /\ stop.pc = "remove"
  /\ \/ /\ ws' = [ws EXCEPT !.container = FALSE]
        /\ stop' = [stop EXCEPT !.pc = "wait"]
     \/ /\ stop' = [pc |-> "wait", error |-> TRUE]
        /\ UNCHANGED ws
  /\ UNCHANGED test
  /\ OthersUnchanged

\* The wait for the other thread is over after 45 seconds at the latest.
StopWaits ==
  /\ stop.pc = "wait"
  /\ ws' = [ws EXCEPT !.confirmed = ws.finished /\ ~stop.error]
  /\ stop' = IF co.pc = "abort" /\ ~co.cancel
                                 THEN [stop EXCEPT !.pc = "done"] ELSE NoStop
  /\ UNCHANGED test
  /\ OthersUnchanged

\* Mutant: what the objects in memory say is enough.
MayRetireFromMemory ==
  /\ ws.manifest \in Ended
  /\ ws.finished
  /\ ws.confirmed

\* cleanup(), called by hand on a workspace whose evidence is complete.
MayRetire ==
  /\ ws.manifest \in Ended
  /\ ws.finished
  /\ ws.confirmed
  /\ ws.active \in {"none", "clean"}

Coroutine ==
  \/ Begin \/ NoWorkspace \/ AskExecutor \/ SkipExecutor \/ ExecutorAnswers
  \/ PrepareFails \/ ExecutorFails \/ AskGate \/ GateAnswers \/ GateFails
  \/ GatesBlock \/ AskReviewer \/ ReviewerAnswers \/ ReviewerAnswersLate
  \/ ReviewerFails \/ TimeOut \/ Cancelled \/ Aborted \/ AbortCancelled

TestThread ==
  \/ TestEnters \/ TestOpens \/ TestRuns \/ ProbeStarts
  \/ ProbeEnds \/ TestReports \/ TestLeaves

StopThread == StopSets \/ StopRemoves \/ StopWaits

\* Nothing is left to do: any other state without a step is a deadlock.
Rest ==
  /\ co.pc = "idle"
  /\ run.status # "running"
  /\ UNCHANGED vars

Next ==
  \/ Coroutine \/ Cancel \/ Feedback \/ Rest
  \/ TestThread \/ StopThread \/ ContainerExits

Spec == Init /\ [][Next]_vars

-----------------------------------------------------------------------------
(* Properties *)

ResultType ==
  [st: Ended \cup {"none", "started"},
   why: {"none", "tests", "review", "budget", "timeout", "other", "client",
         "schema", "citation", "reference"},
   patch: Patches \cup {NoPatch}, gates: 0..Gates, red: SUBSET (1..Gates),
   review: Conclusions \cup {"none"}, reviews: 0..2, objected: BOOLEAN,
   origin: {"fresh", "edit", "feedback", "review"}]

CoType ==
  [pc: {"idle", "prepare", "execute", "test", "gate", "review", "again", "abort"},
   n: 0..MaxAttempts, cancel: BOOLEAN, ending: {"none", "timeout", "cancelled"}]

RunType ==
  [status: {"running", "waiting", "failed", "cancelled"},
   base: Patches \cup {NoPatch}, calls: 0..MaxCalls]

WorkspaceType ==
  [cancelled: BOOLEAN, finished: BOOLEAN, confirmed: BOOLEAN,
   active: {"none", "open", "clean", "dirty"}, container: BOOLEAN,
   manifest: Ended \cup {"none", "active", "started"}]

TestType ==
  [pc: {"off", "queued", "open", "run", "probe", "probing", "report", "leave", "done"},
   gate: 0..Gates, probe: 0..Probes, out: Outcomes \cup {"none", "raised", "expired"}]

StopType == [pc: {"off", "set", "remove", "wait", "done"}, error: BOOLEAN]

\* Values of every variable; at most one test and one cancel thread per attempt.
TypeOK ==
  /\ co \in CoType /\ run \in RunType /\ results \in [Attempts -> ResultType]
  /\ ws \in WorkspaceType /\ test \in TestType /\ stop \in StopType
  /\ cancels \in 0..MaxCancels

\* An attempt passes only if its own three gates were green on the candidate it
\* offers and the last review of that candidate accepted it; an asked-for
\* repair offers another version (service.py _run).
PassedIsEarned ==
  \A n \in Attempts : results[n].st = "passed" =>
    /\ results[n].patch # NoPatch
    /\ AllGreen(results[n])
    /\ results[n].review = "passed"
    /\ ~results[n].objected
    /\ results[n].origin = "feedback" => \E m \in 1..(n - 1) :
         results[m].st = "passed" /\ results[m].patch # results[n].patch

\* A review alone is repeated only for the same candidate, all gates green, whose
\* review was lost or malformed; a rejection escapes only inside an answer that
\* does not fit the schema (service.py review_candidate).
OnlyLostReviewsAreRepeated ==
  \A n \in Attempts : results[n].origin = "review" =>
    /\ n > 1
    /\ results[n].patch = results[n - 1].patch
    /\ AllGreen(results[n - 1])
    /\ results[n - 1].objected => results[n - 1].why = "schema"

\* What the attempts leave as evidence can be relied on.
EvidenceHolds == PassedIsEarned /\ OnlyLostReviewsAreRepeated

\* A worktree is removed only when no container mounts it and no thread will
\* start one, whichever of the two threads that stop containers failed or gave
\* up, in whichever order they wrote _cleanup_confirmed (workspace.py cleanup).
RetireIsSafe ==
  MayRetire =>
    /\ ~ws.container
    /\ test.pc \in {"off", "queued"}
    /\ test.pc = "queued" => ws.cancelled
=============================================================================
