--------------------------- MODULE ArtifactStore ---------------------------
(***************************************************************************)
(* Publication of artifacts (app/artifacts/store.py) and their registration *)
(* as records of a run (app/services/artifact_write.py, orchestration.py).  *)
(*                                                                          *)
(* A slot is a content directory: a content file and meta.json.  A writer   *)
(* is one call of ArtifactRegistrationService.write_text or write_json; a   *)
(* retry is another writer with the same request.  A writer advances from   *)
(* one file replaced to the next, under the flock of its run, first that of *)
(* the store, then that of the state repository; it may stop between any    *)
(* two (the process dies or a write fails), which frees the lock.           *)
(***************************************************************************)
EXTENDS Naturals, FiniteSets

CONSTANTS
  Slots,      \* content directories
  RunOf,      \* the run each belongs to
  TaskOf,     \* and the task, NoTask for artifacts with relation "run"
  NoTask,
  Writers,    \* calls of the write service
  Requests,   \* what they may ask for
  Keys, NoKey, Contents, NoContent, NoMeta,
  MaxLosses   \* bound on content files lost

Request == [slot : Slots, key : Keys \cup {NoKey}, content : Contents]

ASSUME RequestsAreRequests == Requests \subseteq Request
ASSUME NullsAreNull == NoKey \notin Keys /\ NoContent \notin Contents /\ NoMeta \notin Request
ASSUME LossesNatural == MaxLosses \in Nat

VARIABLES
  content,  \* the content file of a slot
  meta,     \* its meta.json: key and checksum, as the request that wrote it
  records,  \* artifact records: a request and its writer, which stands for the id
  inRun,    \* the records listed in Run.artifact_ids
  inTask,   \* the records listed in Task.output_artifact_ids
  writer,   \* the calls being served
  lost      \* slots whose content file was lost

vars == <<content, meta, records, inRun, inTask, writer, lost>>

Record == [id : Writers, req : Request]
InStore == {"content", "meta"}
InState == {"linkRun", "linkTask", "event"}
Ended == {"acked", "refused", "dead"}
WriterRecord == [pc : {"new", "check", "register"} \cup InStore \cup InState \cup Ended,
                 req : Requests]

Init ==
  /\ content = [s \in Slots |-> NoContent]
  /\ meta = [s \in Slots |-> NoMeta]
  /\ records = {} /\ inRun = {} /\ inTask = {}
  /\ writer \in [Writers -> [pc : {"new"}, req : Requests]]
  /\ lost = {}

Goto(w, pc) == writer' = [writer EXCEPT ![w].pc = pc]
Run(w) == RunOf[writer[w].req.slot]

\* The flocks: FileArtifactStore._run_lock and FileStateRepository.transaction.
Free(w, places) == \A v \in Writers \ {w} : writer[v].pc \in places => Run(v) # Run(w)

(***************************************************************************)
(* FileArtifactStore.write_bytes.                                           *)
(***************************************************************************)
Begin(w) ==
  /\ writer[w].pc = "new" /\ Goto(w, "check")
  /\ UNCHANGED <<content, meta, records, inRun, inTask, lost>>

\* _find_meta_by_idempotency looks into every run, other runs without their lock.
Sidecars(key) == {s \in Slots : key # NoKey /\ meta[s] # NoMeta /\ meta[s].key = key}

\* State A: the slot is whole and was written under this key.
Replay(q) ==
  /\ meta[q.slot] # NoMeta /\ content[q.slot] # NoContent
  /\ q.key # NoKey /\ meta[q.slot].key = q.key

\* _check_idempotency_compatibility of a sidecar with the request.
Compatible(s, q) == IF meta[s] = q THEN "register" ELSE "refused"

\* The files of a slot whose key is new: occupied, content alone, or free.
\* State B (metadata alone) is refused: under its own key it is found above.
Unkeyed(q) ==
  CASE meta[q.slot] # NoMeta -> "refused"
    [] meta[q.slot] = NoMeta /\ content[q.slot] = NoContent -> "content"
    [] OTHER -> IF content[q.slot] = q.content THEN "meta" ELSE "refused"

\* Mutant: content without metadata is never adopted.
CheckNoRepair(q) ==
  CASE Replay(q) -> {Compatible(q.slot, q)}
    [] ~Replay(q) /\ Sidecars(q.key) # {} -> {Compatible(s, q) : s \in Sidecars(q.key)}
    [] OTHER -> {IF content[q.slot] = NoContent THEN Unkeyed(q) ELSE "refused"}

\* Mutant: an occupied slot is written again.
CheckOverwrites(q) ==
  IF Sidecars(q.key) # {} THEN {Compatible(s, q) : s \in Sidecars(q.key)} ELSE {"content"}

\* _recover_or_validate and the test behind it: what the writer may do next.
\* Of several sidecars with one key the directory order decides.
Check(q) ==
  CASE Replay(q) -> {Compatible(q.slot, q)}
    [] ~Replay(q) /\ Sidecars(q.key) # {} -> {Compatible(s, q) : s \in Sidecars(q.key)}
    [] OTHER -> {Unkeyed(q)}

Decide(w) ==
  /\ writer[w].pc = "check" /\ Free(w, InStore)
  /\ \E next \in Check(writer[w].req) : Goto(w, next)
  /\ UNCHANGED <<content, meta, records, inRun, inTask, lost>>

\* Mutant: the metadata first.
WriteMetaFirst(w) ==
  /\ writer[w].pc = "content" /\ Goto(w, "meta")
  /\ meta' = [meta EXCEPT ![writer[w].req.slot] = writer[w].req]
  /\ UNCHANGED <<content, records, inRun, inTask, lost>>

WriteContent(w) ==
  /\ writer[w].pc = "content" /\ Goto(w, "meta")
  /\ content' = [content EXCEPT ![writer[w].req.slot] = writer[w].req.content]
  /\ UNCHANGED <<meta, records, inRun, inTask, lost>>

WriteMeta(w) ==
  /\ writer[w].pc = "meta" /\ Goto(w, "register")
  /\ meta' = [meta EXCEPT ![writer[w].req.slot] = writer[w].req]
  /\ UNCHANGED <<content, records, inRun, inTask, lost>>

(***************************************************************************)
(* OrchestrationService.register_artifact: one transaction of the state     *)
(* repository, but a file for each record.                                  *)
(***************************************************************************)
\* Mutant: only records the task lists already are recognised.
KnownListed(q) == {r \in records : r.req.key = q.key /\ r.id \in inTask}

\* _find_artifact_by_idempotency looks among the records of the task.
Known(q) == {r \in records : /\ q.key # NoKey /\ r.req.key = q.key
                             /\ RunOf[r.req.slot] = RunOf[q.slot]
                             /\ TaskOf[r.req.slot] = TaskOf[q.slot]}

Register(w) ==
  LET q == writer[w].req IN
  /\ writer[w].pc = "register" /\ Free(w, InState)
  /\ \/ /\ Known(q) # {} /\ \E r \in Known(q) : Goto(w, IF r.req = q THEN "acked" ELSE "refused")
        /\ UNCHANGED records
     \/ /\ Known(q) = {} /\ Goto(w, "linkRun")
        /\ records' = records \cup {[id |-> w, req |-> q]}
  /\ UNCHANGED <<content, meta, inRun, inTask, lost>>

LinkRun(w) ==
  /\ writer[w].pc = "linkRun"
  /\ inRun' = inRun \cup {w}
  /\ Goto(w, IF TaskOf[writer[w].req.slot] = NoTask THEN "event" ELSE "linkTask")
  /\ UNCHANGED <<content, meta, records, inTask, lost>>

LinkTask(w) ==
  /\ writer[w].pc = "linkTask" /\ Goto(w, "event")
  /\ inTask' = inTask \cup {w}
  /\ UNCHANGED <<content, meta, records, inRun, lost>>

AppendEvent(w) ==
  /\ writer[w].pc = "event" /\ Goto(w, "acked")
  /\ UNCHANGED <<content, meta, records, inRun, inTask, lost>>

\* The process dies, or a write raises OSError; os.replace leaves the file
\* as it was or as it should be.
Stop(w) ==
  /\ writer[w].pc \notin {"new"} \cup Ended /\ Goto(w, "dead")
  /\ UNCHANGED <<content, meta, records, inRun, inTask, lost>>

\* A content file disappears under its metadata.
Lose(s) ==
  /\ meta[s] # NoMeta /\ content[s] # NoContent /\ Cardinality(lost) < MaxLosses
  /\ content' = [content EXCEPT ![s] = NoContent]
  /\ lost' = lost \cup {s}
  /\ UNCHANGED <<meta, records, inRun, inTask, writer>>

Step(w) ==
  \/ Begin(w) \/ Decide(w) \/ WriteContent(w) \/ WriteMeta(w)
  \/ Register(w) \/ LinkRun(w) \/ LinkTask(w) \/ AppendEvent(w)

Next == (\E w \in Writers : Step(w) \/ Stop(w)) \/ (\E s \in Slots : Lose(s))

Spec == Init /\ [][Next]_vars

(***************************************************************************)
(* Properties.                                                              *)
(***************************************************************************)
TypeOK ==
  /\ content \in [Slots -> Contents \cup {NoContent}]
  /\ meta \in [Slots -> Requests \cup {NoMeta}]
  /\ records \subseteq Record /\ inRun \subseteq Writers /\ inTask \subseteq inRun
  /\ writer \in [Writers -> WriterRecord] /\ lost \subseteq Slots

\* Whatever a writer dies of, metadata is on disk only together with the
\* content it describes (the order of the writes and the recovery after it).
VisibleIsWhole ==
  \A s \in Slots \ lost : meta[s] # NoMeta => content[s] = meta[s].content

\* A record of a run, and the answer that acknowledges a write, name what
\* the store holds under that name: a file written and its checksum.
RecordsMatchStore ==
  /\ \A r \in records : meta[r.req.slot] = r.req
  /\ \A w \in Writers : writer[w].pc = "acked" => \E r \in records : r.req = writer[w].req

\* What the store and the state repository hold together at every step.
StoreHolds == TypeOK /\ VisibleIsWhole /\ RecordsMatchStore

\* In a run a key stands for one artifact: one name holds it and one record
\* carries it, however many calls repeat or reuse it at the same time.
KeyNamesOneArtifact ==
  \A k \in Keys :
    /\ \A s, t \in Sidecars(k) : RunOf[s] = RunOf[t] => s = t
    /\ \A q, r \in records : q.req.key = k /\ r.req.key = k /\ RunOf[q.req.slot] = RunOf[r.req.slot]
                             => q = r

\* A call with a key is refused only for what another call asked: the remains
\* of its own earlier attempts, at whatever step those stopped, never
\* stand in its way.
OwnRemainsNeverRefuse ==
  \A w \in Writers : writer[w].pc = "refused" /\ writer[w].req.key # NoKey =>
    \E v \in Writers :
      /\ writer[v].pc # "new" /\ writer[v].req # writer[w].req
      /\ \/ writer[v].req.slot = writer[w].req.slot
         \/ writer[v].req.key = writer[w].req.key

\* What is visible under a name is published once and stays.
Names == INSTANCE WriteOnce WITH
  published <- [s \in Slots |-> IF meta[s] = NoMeta THEN NoContent ELSE meta[s].content]
ImplementsWriteOnce == Names!Spec
=============================================================================
