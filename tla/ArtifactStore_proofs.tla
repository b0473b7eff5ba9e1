------------------------- MODULE ArtifactStore_proofs -------------------------
(***************************************************************************)
(* Theorems about ArtifactStore, for every set of names, runs, requests     *)
(* and writers, whichever of them stop and whichever files are lost.        *)
(***************************************************************************)
EXTENDS ArtifactStore, TLAPS

PCs == {"new", "check", "register"} \cup InStore \cup InState \cup Ended

\* A call that has been made asks for q.
Asked(q) == \E v \in Writers : writer[v].pc # "new" /\ writer[v].req = q

(***************************************************************************)
(* The inductive invariant.                                                 *)
(***************************************************************************)
\* At most one writer of a run is inside the store, and one in the state
\* repository.
LocksExclude ==
  \A w, v \in Writers : w # v =>
    /\ writer[w].pc \in InStore /\ writer[v].pc \in InStore => Run(w) # Run(v)
    /\ writer[w].pc \in InState /\ writer[v].pc \in InState => Run(w) # Run(v)

\* What the files of a slot hold, a call has asked for under that name.
FilesWereAsked ==
  \A s \in Slots :
    /\ meta[s] # NoMeta => meta[s].slot = s /\ Asked(meta[s])
    /\ content[s] # NoContent =>
         \E v \in Writers : /\ writer[v].pc # "new" /\ writer[v].req.slot = s
                            /\ writer[v].req.content = content[s]

RecordsWereAsked == \A r \in records : writer[r.id].pc # "new" /\ writer[r.id].req = r.req

\* What a writer between two files relies on, as long as it holds its lock:
\* its name is free, its key unused in its run; its artifact is published;
\* its record is written.
Unpublished(q) ==
  /\ meta[q.slot] = NoMeta
  /\ \A s \in Sidecars(q.key) : RunOf[s] # RunOf[q.slot]

WriterInv(w) ==
  LET q == writer[w].req  pc == writer[w].pc IN
  /\ pc \in InStore => Unpublished(q)
  /\ pc = "meta" => content[q.slot] = q.content
  /\ pc \in {"register", "acked"} \cup InState => meta[q.slot] = q
  /\ pc \in InState => [id |-> w, req |-> q] \in records
  /\ pc = "linkTask" => w \in inRun

IInv ==
  /\ StoreHolds
  /\ KeyNamesOneArtifact
  /\ OwnRemainsNeverRefuse
  /\ LocksExclude
  /\ FilesWereAsked
  /\ RecordsWereAsked
  /\ \A w \in Writers : WriterInv(w)

(***************************************************************************)
(* Lemmas about the steps.                                                  *)
(***************************************************************************)
LEMMA GotoFields ==
  ASSUME TypeOK, NEW w \in Writers, NEW pc \in PCs, Goto(w, pc)
  PROVE  /\ writer' \in [Writers -> WriterRecord]
         /\ writer'[w].pc = pc
         /\ \A v \in Writers \ {w} : writer'[v] = writer[v]
         /\ \A v \in Writers : writer'[v].req = writer[v].req /\ writer[v].req \in Requests
BY DEF TypeOK, Goto, WriterRecord, PCs

\* What has been asked stays asked.
LEMMA AskedStays ==
  ASSUME TypeOK, NEW w \in Writers, NEW pc \in PCs \ {"new"}, Goto(w, pc)
  PROVE  \A v \in Writers :
           /\ writer[v].pc # "new" => writer'[v].pc # "new"
           /\ writer'[v].req = writer[v].req
BY GotoFields

LEMMA RequestFields ==
  ASSUME NEW q \in Requests
  PROVE  q.slot \in Slots /\ q.key \in Keys \cup {NoKey} /\ q.content \in Contents /\ q # NoMeta
BY RequestsAreRequests, NullsAreNull DEF Request

\* A writer enters a place under its lock or is there already.
LEMMA LocksKept ==
  ASSUME TypeOK, LocksExclude, NEW w \in Writers, NEW pc \in PCs, Goto(w, pc),
         pc \in InStore => writer[w].pc \in InStore \/ Free(w, InStore),
         pc \in InState => writer[w].pc \in InState \/ Free(w, InState)
  PROVE  LocksExclude'
<1>1. /\ writer'[w].pc = pc
      /\ \A v \in Writers \ {w} : writer'[v] = writer[v]
      /\ \A v \in Writers : Run(v)' = Run(v)
  BY GotoFields DEF Run
<1> QED  BY <1>1 DEF LocksExclude, Free

\* A step of a writer that leaves files and records alone.
LEMMA Moved ==
  ASSUME IInv, NEW w \in Writers, NEW pc \in PCs \ {"new"}, Goto(w, pc),
         UNCHANGED <<content, meta, records, lost>>,
         inRun \subseteq inRun', inRun' \subseteq Writers, inTask' \subseteq inRun',
         pc \in InStore => writer[w].pc \in InStore \/ Free(w, InStore),
         pc \in InState => writer[w].pc \in InState \/ Free(w, InState),
         pc = "acked" => \E r \in records : r.req = writer[w].req,
         pc = "refused" /\ writer[w].req.key # NoKey =>
           \E v \in Writers :
             /\ writer[v].pc # "new" /\ writer[v].req # writer[w].req
             /\ \/ writer[v].req.slot = writer[w].req.slot
                \/ writer[v].req.key = writer[w].req.key,
         WriterInv(w)'
  PROVE  IInv'
<1> USE DEF IInv, StoreHolds
<1>1. /\ writer' \in [Writers -> WriterRecord]
      /\ writer'[w].pc = pc
      /\ \A v \in Writers \ {w} : writer'[v] = writer[v]
      /\ \A v \in Writers : writer'[v].req = writer[v].req
      /\ \A v \in Writers : writer[v].pc # "new" => writer'[v].pc # "new"
  BY GotoFields, AskedStays
<1>2. TypeOK'
  BY <1>1 DEF TypeOK
<1>3. VisibleIsWhole' /\ RecordsMatchStore'
  BY <1>1 DEF VisibleIsWhole, RecordsMatchStore
<1>4. \A q : Sidecars(q)' = Sidecars(q)
  BY DEF Sidecars
<1>5. KeyNamesOneArtifact'
  BY <1>4 DEF KeyNamesOneArtifact
<1>6. OwnRemainsNeverRefuse'
  BY <1>1 DEF OwnRemainsNeverRefuse
<1>7. LocksExclude'
  BY LocksKept
<1>8. FilesWereAsked'
  BY <1>1 DEF FilesWereAsked, Asked
<1>9. RecordsWereAsked'
  BY <1>1 DEF RecordsWereAsked, TypeOK, Record
<1>10. ASSUME NEW v \in Writers \ {w} PROVE WriterInv(v)'
  BY <1>1, <1>4 DEF WriterInv, Unpublished
<1> QED  BY <1>2, <1>3, <1>5, <1>6, <1>7, <1>8, <1>9, <1>10

\* What the writer finds decides soundly (_recover_or_validate): it goes on to
\* register what is there whole, writes only where nothing is published, and is
\* refused only by what another call asked.
LEMMA CheckIsSound ==
  ASSUME IInv, NEW q \in Requests, NEW next \in Check(q)
  PROVE  /\ next \in {"register", "refused", "content", "meta"}
         /\ next = "register" => meta[q.slot] = q
         /\ next \in InStore => Unpublished(q)
         /\ next = "meta" => content[q.slot] = q.content
         /\ next = "refused" /\ q.key # NoKey =>
              \E v \in Writers : /\ writer[v].pc # "new" /\ writer[v].req # q
                                 /\ writer[v].req.slot = q.slot \/ writer[v].req.key = q.key
<1> USE DEF IInv
<1>1. q.slot \in Slots /\ q # NoMeta
  BY RequestFields
<1>2. CASE \E s \in Slots : meta[s] # NoMeta /\ q.key # NoKey /\ meta[s].key = q.key /\ next = Compatible(s, q)
  BY <1>1, <1>2 DEF Compatible, FilesWereAsked, Asked, InStore
<1>3. CASE Sidecars(q.key) = {} /\ next = Unkeyed(q)
  <2>1. meta[q.slot] # NoMeta /\ q.key # NoKey => meta[q.slot].key # q.key
    BY <1>1, <1>3 DEF Sidecars
  <2>2. CASE meta[q.slot] # NoMeta
    BY <1>1, <1>3, <2>1, <2>2 DEF Unkeyed, FilesWereAsked, Asked, InStore
  <2>3. CASE meta[q.slot] = NoMeta /\ content[q.slot] = NoContent
    BY <1>1, <1>3, <2>3 DEF Unkeyed, Unpublished
  <2>4. CASE meta[q.slot] = NoMeta /\ content[q.slot] # NoContent
    BY <1>1, <1>3, <2>4 DEF Unkeyed, Unpublished, FilesWereAsked
  <2> QED  BY <2>2, <2>3, <2>4
<1> QED  BY <1>1, <1>2, <1>3 DEF Check, Replay, Sidecars

(***************************************************************************)
(* Every step keeps the invariant.                                          *)
(***************************************************************************)
LEMMA InitInv == Init => IInv
<1> SUFFICES ASSUME Init PROVE IInv
  OBVIOUS
<1>1. \A w \in Writers : writer[w].pc = "new" /\ writer[w].req \in Requests
  BY DEF Init
<1>2. StoreHolds
  BY DEF Init, StoreHolds, TypeOK, VisibleIsWhole, RecordsMatchStore, WriterRecord
<1>3. KeyNamesOneArtifact
  BY DEF Init, KeyNamesOneArtifact, Sidecars
<1> QED
  BY <1>1, <1>2, <1>3 DEF Init, IInv, OwnRemainsNeverRefuse, LocksExclude, FilesWereAsked,
     RecordsWereAsked, WriterInv, InStore, InState

LEMMA BeginInv ==
  ASSUME IInv, NEW w \in Writers, Begin(w)  PROVE IInv'
<1>1. WriterInv(w)'
  BY GotoFields DEF IInv, StoreHolds, Begin, WriterInv, InStore, InState, PCs
<1> QED  BY <1>1, Moved DEF IInv, StoreHolds, TypeOK, Begin, InStore, InState, PCs

LEMMA DecideInv ==
  ASSUME IInv, NEW w \in Writers, Decide(w)  PROVE IInv'
<1> DEFINE q == writer[w].req
<1>1. q \in Requests
  BY DEF IInv, StoreHolds, TypeOK, WriterRecord
<1>2. PICK next \in Check(q) : Goto(w, next)
  BY DEF Decide
<1> HIDE DEF q
<1>3. /\ next \in {"register", "refused", "content", "meta"}
      /\ next = "register" => meta[q.slot] = q
      /\ next \in InStore => Unpublished(q)
      /\ next = "meta" => content[q.slot] = q.content
      /\ next = "refused" /\ q.key # NoKey =>
           \E v \in Writers : /\ writer[v].pc # "new" /\ writer[v].req # q
                              /\ writer[v].req.slot = q.slot \/ writer[v].req.key = q.key
  BY <1>1, CheckIsSound
<1>4. writer'[w].pc = next /\ writer'[w].req = q
  BY <1>2, <1>3, GotoFields DEF IInv, StoreHolds, PCs, InStore, Ended, q
<1>5. WriterInv(w)'
  BY <1>3, <1>4 DEF WriterInv, InStore, InState, Unpublished, Sidecars, Decide
<1>6. next \in PCs \ {"new"} /\ next \notin InState /\ next # "acked"
  BY <1>3 DEF PCs, InStore, InState, Ended
<1>7. Free(w, InStore) /\ UNCHANGED <<content, meta, records, inRun, inTask, lost>>
  BY DEF Decide
<1>8. inRun' \subseteq Writers /\ inTask' \subseteq inRun'
  BY <1>7 DEF IInv, StoreHolds, TypeOK
<1> QED  BY <1>2, <1>3, <1>5, <1>6, <1>7, <1>8, Moved DEF q

LEMMA WriteContentInv ==
  ASSUME IInv, NEW w \in Writers, WriteContent(w)  PROVE IInv'
<1> DEFINE s == writer[w].req.slot
<1> USE DEF IInv, StoreHolds
<1>1. /\ writer' \in [Writers -> WriterRecord]
      /\ writer[w].pc = "content" /\ writer'[w].pc = "meta"
      /\ \A v \in Writers \ {w} : writer'[v] = writer[v]
      /\ \A v \in Writers : writer'[v].req = writer[v].req /\ writer[v].req \in Requests
      /\ \A v \in Writers : writer[v].pc # "new" => writer'[v].pc # "new"
  BY GotoFields DEF WriteContent, PCs, InStore
<1>2. /\ s \in Slots /\ writer[w].req.content \in Contents
      /\ content' \in [Slots -> Contents \cup {NoContent}]
      /\ content'[s] = writer[w].req.content
      /\ \A t \in Slots \ {s} : content'[t] = content[t]
      /\ UNCHANGED <<meta, records, inRun, inTask, lost>>
  BY <1>1, RequestFields DEF WriteContent, TypeOK
<1>3. Unpublished(writer[w].req)
  BY <1>1 DEF WriterInv, InStore
<1>4. TypeOK' /\ VisibleIsWhole' /\ RecordsMatchStore'
  BY <1>1, <1>2, <1>3 DEF TypeOK, VisibleIsWhole, RecordsMatchStore, Unpublished
<1>5. \A k : Sidecars(k)' = Sidecars(k)
  BY <1>2 DEF Sidecars
<1>6. KeyNamesOneArtifact'
  BY <1>2, <1>5 DEF KeyNamesOneArtifact
<1>7. OwnRemainsNeverRefuse'
  BY <1>1 DEF OwnRemainsNeverRefuse
<1>8. LocksExclude'
  BY LocksKept, <1>1 DEF WriteContent, PCs, InStore, InState
<1>9. FilesWereAsked' /\ RecordsWereAsked'
  BY <1>1, <1>2 DEF FilesWereAsked, RecordsWereAsked, Asked, TypeOK, Record
<1>10. WriterInv(w)'
  BY <1>1, <1>2, <1>3, <1>5 DEF WriterInv, Unpublished, InStore, InState
<1>11. ASSUME NEW v \in Writers \ {w} PROVE WriterInv(v)'
  <2>1. writer[v].pc = "meta" => writer[v].req.slot # s
    BY <1>1 DEF LocksExclude, Run, InStore
  <2> QED  BY <1>1, <1>2, <1>5, <2>1, RequestFields DEF WriterInv, Unpublished
<1> QED  BY <1>4, <1>6, <1>7, <1>8, <1>9, <1>10, <1>11

LEMMA WriteMetaInv ==
  ASSUME IInv, NEW w \in Writers, WriteMeta(w)  PROVE IInv'
<1> DEFINE q == writer[w].req
<1> USE DEF IInv, StoreHolds
<1>1. /\ writer' \in [Writers -> WriterRecord]
      /\ writer[w].pc = "meta" /\ writer'[w].pc = "register"
      /\ \A v \in Writers \ {w} : writer'[v] = writer[v]
      /\ \A v \in Writers : writer'[v].req = writer[v].req /\ writer[v].req \in Requests
      /\ \A v \in Writers : writer[v].pc # "new" => writer'[v].pc # "new"
  BY GotoFields DEF WriteMeta, PCs
<1>2. /\ q.slot \in Slots /\ q # NoMeta
      /\ meta' \in [Slots -> Requests \cup {NoMeta}]
      /\ meta'[q.slot] = q
      /\ \A t \in Slots \ {q.slot} : meta'[t] = meta[t]
      /\ UNCHANGED <<content, records, inRun, inTask, lost>>
  BY <1>1, RequestFields DEF WriteMeta, TypeOK
<1>3. Unpublished(q) /\ meta[q.slot] = NoMeta /\ content[q.slot] = q.content
  BY <1>1 DEF WriterInv, InStore, Unpublished
<1>4. \A r \in records : r.req \in Requests /\ r.req.slot \in Slots /\ r.req # NoMeta
  <2>1. \A r \in records : r.id \in Writers
    BY DEF TypeOK, Record
  <2> QED  BY <1>1, <2>1, RequestFields DEF RecordsWereAsked
<1>5. TypeOK' /\ VisibleIsWhole' /\ RecordsMatchStore'
  BY <1>1, <1>2, <1>3, <1>4 DEF TypeOK, VisibleIsWhole, RecordsMatchStore
<1>6. \A k : Sidecars(k)' = Sidecars(k) \cup {t \in {q.slot} : k # NoKey /\ q.key = k}
  BY <1>2, <1>3 DEF Sidecars
<1>7. KeyNamesOneArtifact'
  <2>1. ASSUME NEW k \in Keys, NEW s \in Sidecars(k)', NEW t \in Sidecars(k)', RunOf[s] = RunOf[t]
        PROVE  s = t
    BY <1>3, <1>6, <2>1 DEF KeyNamesOneArtifact, Unpublished
  <2> QED  BY <1>2, <2>1 DEF KeyNamesOneArtifact
<1>8. OwnRemainsNeverRefuse'
  BY <1>1 DEF OwnRemainsNeverRefuse
<1>9. LocksExclude'
  BY LocksKept DEF WriteMeta, PCs, InStore, InState
<1>10. FilesWereAsked' /\ RecordsWereAsked'
  <2>1. Asked(q)'
    BY <1>1 DEF Asked
  <2> QED  BY <1>1, <1>2, <2>1 DEF FilesWereAsked, RecordsWereAsked, Asked, TypeOK, Record
<1>11. WriterInv(w)'
  BY <1>1, <1>2 DEF WriterInv, InStore, InState
<1>12. ASSUME NEW v \in Writers \ {w} PROVE WriterInv(v)'
  <2>1. writer[v].pc \in InStore => RunOf[writer[v].req.slot] # RunOf[q.slot]
    BY <1>1 DEF LocksExclude, Run, InStore
  <2>2. writer[v].req \in Requests /\ writer[v].req.slot \in Slots /\ writer[v].req # NoMeta
    BY <1>1, RequestFields
  <2> QED  BY <1>1, <1>2, <1>3, <1>6, <2>1, <2>2 DEF WriterInv, Unpublished
<1> QED  BY <1>5, <1>7, <1>8, <1>9, <1>10, <1>11, <1>12

\* A key that is in use within a run is in use by the same task: its record is found.
LEMMA UnknownKeyIsUnused ==
  ASSUME IInv, NEW q \in Requests, meta[q.slot] = q, Known(q) = {}, q.key # NoKey,
         NEW r \in records, RunOf[r.req.slot] = RunOf[q.slot]
  PROVE  r.req.key # q.key
<1> USE DEF IInv, StoreHolds
<1>1. r.id \in Writers /\ r.req \in Requests /\ meta[r.req.slot] = r.req
  BY DEF TypeOK, Record, RecordsMatchStore, RecordsWereAsked, WriterRecord
<1>2. /\ r.req.slot \in Slots /\ r.req # NoMeta
      /\ q.slot \in Slots /\ q # NoMeta /\ q.key \in Keys
  BY <1>1, RequestFields
<1>3. r.req.key = q.key => r.req.slot = q.slot
  BY <1>1, <1>2 DEF KeyNamesOneArtifact, Sidecars
<1> QED  BY <1>3 DEF Known

LEMMA RegisterInv ==
  ASSUME IInv, NEW w \in Writers, Register(w)  PROVE IInv'
<1> DEFINE q == writer[w].req
<1> USE DEF IInv, StoreHolds
<1>1. q \in Requests /\ meta[q.slot] = q
  BY DEF TypeOK, WriterRecord, WriterInv, Register
<1>2. ASSUME NEW r \in Known(q), Goto(w, IF r.req = q THEN "acked" ELSE "refused"), UNCHANGED records
      PROVE  IInv'
  <2> DEFINE pc == IF r.req = q THEN "acked" ELSE "refused"
  <2>1. /\ r \in records /\ r.id \in Writers /\ writer[r.id].pc # "new" /\ writer[r.id].req = r.req
        /\ r.req.key = q.key
    BY DEF Known, TypeOK, Record, RecordsWereAsked
  <2>2. pc \in PCs \ {"new"} /\ pc \in {"acked", "refused"}
    BY DEF PCs, Ended
  <2>3. UNCHANGED <<content, meta, inRun, inTask, lost>>
    BY DEF Register
  <2> HIDE DEF pc
  <2>4. writer'[w].pc = pc /\ writer'[w].req = q
    BY <1>2, <2>2, GotoFields DEF pc
  <2>5. WriterInv(w)'
    BY <1>1, <2>2, <2>3, <2>4 DEF WriterInv, InStore, InState
  <2>6. inRun' \subseteq Writers /\ inTask' \subseteq inRun' /\ pc \notin InStore \cup InState
    BY <2>2, <2>3 DEF TypeOK, InStore, InState
  <2>7. /\ pc = "acked" => r.req = q
        /\ pc = "refused" => r.req # q
        /\ Goto(w, pc)
    BY <1>2 DEF pc
  <2> QED  BY <1>2, <2>1, <2>2, <2>3, <2>5, <2>6, <2>7, Moved
<1>3. ASSUME Known(q) = {}, Goto(w, "linkRun"), records' = records \cup {[id |-> w, req |-> q]}
      PROVE  IInv'
  <2> DEFINE n == [id |-> w, req |-> q]
  <2>1. /\ writer' \in [Writers -> WriterRecord]
        /\ writer[w].pc = "register" /\ writer'[w].pc = "linkRun"
        /\ \A v \in Writers \ {w} : writer'[v] = writer[v]
        /\ \A v \in Writers : writer'[v].req = writer[v].req
        /\ \A v \in Writers : writer[v].pc # "new" => writer'[v].pc # "new"
    BY <1>3, GotoFields DEF Register, PCs, InState
  <2>2. UNCHANGED <<content, meta, inRun, inTask, lost>>
    BY DEF Register
  <2>3. n \in Record /\ n.id = w /\ n.req = q
    BY <1>1, RequestsAreRequests DEF Record
  <2> HIDE DEF n
  <2>4. records' = records \cup {n}
    BY <1>3 DEF n
  <2>5. TypeOK' /\ VisibleIsWhole' /\ RecordsMatchStore'
    BY <1>1, <2>1, <2>2, <2>3, <2>4 DEF TypeOK, VisibleIsWhole, RecordsMatchStore
  <2>6. \A k : Sidecars(k)' = Sidecars(k)
    BY <2>2 DEF Sidecars
  <2>7. KeyNamesOneArtifact'
    <3>1. ASSUME NEW k \in Keys, NEW r \in records, r.req.key = k, q.key = k,
                 RunOf[r.req.slot] = RunOf[q.slot]
          PROVE  FALSE
      BY <1>1, <1>3, <3>1, UnknownKeyIsUnused, NullsAreNull
    <3> QED  BY <2>3, <2>4, <2>6, <3>1 DEF KeyNamesOneArtifact
  <2>8. OwnRemainsNeverRefuse'
    BY <2>1 DEF OwnRemainsNeverRefuse
  <2>9. LocksExclude'
    BY <1>3, LocksKept DEF Register, PCs, InStore, InState
  <2>10. FilesWereAsked' /\ RecordsWereAsked'
    BY <2>1, <2>2, <2>3, <2>4 DEF FilesWereAsked, RecordsWereAsked, Asked, TypeOK, Record
  <2>11. WriterInv(w)'
    BY <1>1, <2>1, <2>2, <2>4 DEF WriterInv, InStore, InState, n
  <2>12. ASSUME NEW v \in Writers \ {w} PROVE WriterInv(v)'
    BY <2>1, <2>2, <2>4, <2>6 DEF WriterInv, Unpublished
  <2> QED  BY <2>5, <2>7, <2>8, <2>9, <2>10, <2>11, <2>12
<1> QED  BY <1>2, <1>3 DEF Register

\* The writer of a record takes it into the lists of its run and task.
LEMMA LinkInv ==
  ASSUME IInv, NEW w \in Writers, LinkRun(w) \/ LinkTask(w) \/ AppendEvent(w)  PROVE IInv'
<1> DEFINE q == writer[w].req
<1> USE DEF IInv, StoreHolds
<1>1. PICK pc \in {"linkTask", "event", "acked"} : Goto(w, pc) /\ (pc = "linkTask" => w \in inRun')
  BY DEF LinkRun, LinkTask, AppendEvent
<1>2. writer[w].pc \in InState /\ pc \in PCs \ {"new"}
  BY DEF LinkRun, LinkTask, AppendEvent, InState, PCs, Ended
<1>3. UNCHANGED <<content, meta, records, lost>>
  BY DEF LinkRun, LinkTask, AppendEvent
<1>4. inRun \subseteq inRun' /\ inRun' \subseteq Writers /\ inTask' \subseteq inRun'
  BY DEF LinkRun, LinkTask, AppendEvent, TypeOK, WriterInv
<1>5. meta[q.slot] = q /\ [id |-> w, req |-> q] \in records
  BY <1>2 DEF WriterInv
<1>6. writer'[w].pc = pc /\ writer'[w].req = q
  BY <1>1, <1>2, GotoFields
<1>7. WriterInv(w)'
  BY <1>1, <1>3, <1>5, <1>6 DEF WriterInv, InStore, InState
<1>8. \E r \in records : r.req = q
  BY <1>5
<1> QED  BY <1>1, <1>2, <1>3, <1>4, <1>7, <1>8, Moved DEF InStore

LEMMA StopInv ==
  ASSUME IInv, NEW w \in Writers, Stop(w)  PROVE IInv'
<1> USE DEF IInv, StoreHolds
<1>1. writer'[w].pc = "dead"
  BY GotoFields DEF Stop, PCs, Ended
<1>2. WriterInv(w)'
  BY <1>1 DEF WriterInv, InStore, InState
<1> QED  BY <1>2, Moved DEF TypeOK, Stop, InStore, InState, PCs, Ended

LEMMA LoseInv ==
  ASSUME IInv, NEW s \in Slots, Lose(s)  PROVE IInv'
<1> USE DEF IInv, StoreHolds
<1>1. /\ content' \in [Slots -> Contents \cup {NoContent}]
      /\ content'[s] = NoContent /\ meta[s] # NoMeta
      /\ \A t \in Slots \ {s} : content'[t] = content[t]
      /\ lost' = lost \cup {s}
      /\ UNCHANGED <<meta, records, inRun, inTask, writer>>
  BY DEF Lose, TypeOK
<1>2. TypeOK' /\ VisibleIsWhole' /\ RecordsMatchStore'
  BY <1>1 DEF TypeOK, VisibleIsWhole, RecordsMatchStore
<1>3. \A k : Sidecars(k)' = Sidecars(k)
  BY <1>1 DEF Sidecars
<1>4. KeyNamesOneArtifact' /\ OwnRemainsNeverRefuse'
  BY <1>1, <1>3 DEF KeyNamesOneArtifact, OwnRemainsNeverRefuse
<1>5. LocksExclude'
  BY <1>1 DEF LocksExclude, Run
<1>6. FilesWereAsked' /\ RecordsWereAsked'
  BY <1>1 DEF FilesWereAsked, RecordsWereAsked, Asked
<1>7. ASSUME NEW w \in Writers PROVE WriterInv(w)'
  <2>1. writer[w].pc = "meta" => meta[writer[w].req.slot] = NoMeta
    BY DEF WriterInv, Unpublished, InStore
  <2>2. writer[w].req.slot \in Slots
    BY RequestFields DEF TypeOK, WriterRecord
  <2> QED  BY <1>1, <1>3, <2>1, <2>2 DEF WriterInv, Unpublished
<1> QED  BY <1>2, <1>4, <1>5, <1>6, <1>7

LEMMA NextInv == IInv /\ [Next]_vars => IInv'
<1> SUFFICES ASSUME IInv, [Next]_vars PROVE IInv'
  OBVIOUS
<1>1. ASSUME NEW w \in Writers, Step(w) PROVE IInv'
  BY <1>1, BeginInv, DecideInv, WriteContentInv, WriteMetaInv, RegisterInv, LinkInv DEF Step
<1>2. CASE UNCHANGED vars
  BY <1>2 DEF vars, IInv, StoreHolds, TypeOK, VisibleIsWhole, RecordsMatchStore, KeyNamesOneArtifact,
     Sidecars, OwnRemainsNeverRefuse, LocksExclude, Run, FilesWereAsked, RecordsWereAsked, Asked,
     WriterInv, Unpublished
<1> QED  BY <1>1, <1>2, StopInv, LoseInv DEF Next

(***************************************************************************)
(* What holds of every behaviour.                                           *)
(***************************************************************************)
LEMMA Invariant == Spec => []IInv
BY InitInv, NextInv, PTL DEF Spec

\* Whatever a writer dies of, metadata is only ever on disk with the content it
\* describes, and records and acknowledgements name what the store holds
\* (FileArtifactStore.write_bytes and register_artifact).
THEOREM StoreHoldsAlways == Spec => []StoreHolds
<1>1. IInv => StoreHolds
  BY DEF IInv
<1> QED  BY <1>1, Invariant, PTL

\* Within a run a key stands for one name and one record, however many calls
\* repeat or reuse it (_recover_or_validate and _find_artifact_by_idempotency).
THEOREM KeyNamesOneArtifactAlways == Spec => []KeyNamesOneArtifact
<1>1. IInv => KeyNamesOneArtifact
  BY DEF IInv
<1> QED  BY <1>1, Invariant, PTL

\* A call with a key is refused only for what another call asked, never for the
\* remains of its own earlier attempts.
THEOREM OwnRemainsNeverRefuseAlways == Spec => []OwnRemainsNeverRefuse
<1>1. IInv => OwnRemainsNeverRefuse
  BY DEF IInv
<1> QED  BY <1>1, Invariant, PTL

(***************************************************************************)
(* The store implements WriteOnce.                                          *)
(***************************************************************************)
\* What a reader sees changes with the metadata, once: a free name is published.
THEOREM StoreImplementsWriteOnce == Spec => ImplementsWriteOnce
<1> DEFINE P == [s \in Slots |-> IF meta[s] = NoMeta THEN NoContent ELSE meta[s].content]
<1>1. Init => Names!Init
  BY DEF Init, Names!Init
<1>2. IInv /\ [Next]_vars => [Names!Next]_P
  <2> SUFFICES ASSUME IInv, [Next]_vars PROVE [Names!Next]_P
    OBVIOUS
  <2>1. ASSUME NEW w \in Writers, WriteMeta(w) PROVE Names!Next
    <3> DEFINE q == writer[w].req
    <3>1. q \in Requests /\ meta \in [Slots -> Requests \cup {NoMeta}]
      BY DEF IInv, StoreHolds, TypeOK, WriterRecord
    <3>2. q.slot \in Slots /\ q.content \in Contents /\ q # NoMeta
      BY <3>1, RequestFields
    <3>3. meta[q.slot] = NoMeta
      BY <2>1 DEF IInv, WriterInv, WriteMeta, InStore, Unpublished
    <3>4. Names!Publish(q.slot, q.content)
      BY <2>1, <3>1, <3>2, <3>3 DEF Names!Publish, WriteMeta
    <3> QED  BY <3>2, <3>4 DEF Names!Next, Names!Publish
  <2>2. ASSUME UNCHANGED meta PROVE P' = P
    BY <2>2
  <2> QED
    BY <2>1, <2>2 DEF Next, Step, Stop, Begin, Decide, WriteContent, Register, LinkRun, LinkTask,
       AppendEvent, Lose, vars
<1> QED  BY <1>1, <1>2, Invariant, PTL DEF Spec, ImplementsWriteOnce, Names!Spec

=============================================================================
