------------------------ MODULE ProductLifecycle_proofs ------------------------
(***************************************************************************)
(* Theorems about ProductLifecycle, for every number of calls, answers,     *)
(* attempts, crashes and lost files.                                        *)
(***************************************************************************)
EXTENDS ProductLifecycle, TLAPS

PCs == {"new", "check", "register"} \cup Store!InStore \cup Store!InState \cup Store!Ended

(***************************************************************************)
(* The inductive invariant: the store.                                      *)
(***************************************************************************)
\* The two writers of a call ask for one answer, each under its own name.
AnswersFit ==
  \A e \in Calls, s, t \in Outputs :
    /\ writer[<<e, s>>].req.slot = s
    /\ writer[<<e, s>>].req.content = writer[<<e, t>>].req.content

\* Metadata is of a call that has been made, and describes its content.
FilesInv ==
  \A s \in Outputs : meta[s] # NoMeta =>
    /\ \E e \in Calls : writer[<<e, s>>].pc # "new" /\ writer[<<e, s>>].req = meta[s]
    /\ s \notin lost => content[s] = meta[s].content

\* A record is of a call that has been made, names what the store holds, and
\* is the only one of its output.
RecordsInv ==
  /\ \A r \in records : /\ writer[r.id].pc # "new" /\ writer[r.id].req = r.req
                        /\ meta[r.req.slot] = r.req
  /\ \A q, r \in records : q.req.slot = r.req.slot => q = r

\* What a writer relies on from one file to the next.
WriterInv(w) ==
  LET q == writer[w].req  pc == writer[w].pc IN
  /\ pc \in Store!InStore => meta[q.slot] = NoMeta
  /\ pc = "meta" => content[q.slot] = q.content
  /\ pc \in {"register", "acked"} \cup Store!InState => meta[q.slot] = q
  /\ pc = "linkTask" => w \in inRun

StoreInv ==
  /\ Store!TypeOK
  /\ AnswersFit /\ FilesInv /\ RecordsInv
  /\ \A w \in Writers : WriterInv(w)

(***************************************************************************)
(* The inductive invariant: the calls and the task.                         *)
(***************************************************************************)
AtWork(w) == writer[w].pc \notin {"new"} \cup Store!Ended

\* One call at a time is between two awaits; it writes the JSON, and the
\* Markdown once that is acknowledged.
CallsInv ==
  /\ \A e, f \in Calls : call[e].pc \in Sync /\ call[f].pc \in Sync => e = f
  /\ \A e \in Calls :
       /\ call[e].pc \in {"new", "execute"} => call[e].claim = 0
       /\ call[e].pc \in Outputs \cup {"verify", "complete"} => routed
       /\ (call[e].pc = "product-brief-md" \/ writer[<<e, "product-brief-md">>].pc # "new")
          => writer[<<e, "product-brief">>].pc = "acked"
  /\ \A e \in Calls, s \in Outputs :
       /\ writer[<<e, s>>].pc # "new" => routed
       /\ AtWork(<<e, s>>) => call[e].pc = s

\* Once verified, both outputs stay listed.
EvidenceInv ==
  task.status = "completed" \/ (\E e \in Calls : call[e].pc = "complete") =>
    routed /\ \A s \in Outputs : Listed(s) # {}

\* Only a crash between two saves leaves a claim on a task that is not running.
ClaimInv ==
  crashes = 0 =>
    /\ task.status \in {"ready", "blocked"} => task.claim = 0
    /\ task.status = "ready" => task.attempts < MaxAttempts

IInv == TypeOK /\ StoreInv /\ CallsInv /\ EvidenceInv /\ ClaimInv /\ RunningIsOwned

(***************************************************************************)
(* Lemmas about requests and writers.                                       *)
(***************************************************************************)
LEMMA RequestFields ==
  ASSUME NEW q \in Requests
  PROVE  /\ q.slot \in Outputs /\ q.content \in Contents /\ q.key \in Keys
         /\ q.key = <<q.slot, q.content>> /\ q.key # NoKey /\ q # NoMeta
         /\ q \in Store!Request
<1>1. PICK s \in Outputs, c \in Contents : q = [slot |-> s, key |-> <<s, c>>, content |-> c]
  BY DEF Requests, Asked
<1> QED  BY <1>1, NullsAreNull DEF Keys, Store!Request

\* The key is computed from name and content: it says all of a request.
LEMMA KeysTell ==
  ASSUME NEW q \in Requests, NEW r \in Requests, q.key = r.key \/ (q.slot = r.slot /\ q.content = r.content)
  PROVE  q = r
BY DEF Requests, Asked

LEMMA WriterFields ==
  ASSUME StoreInv, NEW e \in Calls, NEW s \in Outputs
  PROVE  /\ <<e, s>> \in Writers
         /\ writer[<<e, s>>].req \in Requests /\ writer[<<e, s>>].req.slot = s
         /\ writer[<<e, s>>].pc \in PCs
BY DEF StoreInv, Store!TypeOK, Store!WriterRecord, Writers, PCs, AnswersFit

LEMMA GotoFields ==
  ASSUME StoreInv, NEW w \in Writers, NEW pc \in PCs, Store!Goto(w, pc)
  PROVE  /\ writer' \in [Writers -> Store!WriterRecord]
         /\ writer'[w].pc = pc
         /\ \A v \in Writers \ {w} : writer'[v] = writer[v]
         /\ \A v \in Writers : writer'[v].req = writer[v].req
BY DEF StoreInv, Store!TypeOK, Store!Goto, Store!WriterRecord, PCs

\* Writers that have started stay started, whoever moves.
LEMMA Started ==
  ASSUME StoreInv, NEW w \in Writers, NEW pc \in PCs \ {"new"}, Store!Goto(w, pc)
  PROVE  /\ AnswersFit'
         /\ \A v \in Writers : writer[v].pc # "new" => writer'[v].pc # "new"
BY GotoFields DEF StoreInv, AnswersFit, Writers

LEMMA RecordFields ==
  ASSUME StoreInv, NEW r \in records
  PROVE  r.id \in Writers /\ r.req \in Requests /\ r.req.slot \in Outputs /\ r.req # NoMeta
<1>1. r.id \in Writers /\ writer[r.id].req = r.req
  BY DEF StoreInv, Store!TypeOK, Store!Record, RecordsInv
<1>2. r.req \in Requests
  BY <1>1 DEF StoreInv, Store!TypeOK, Store!WriterRecord
<1> QED  BY <1>1, <1>2, RequestFields

\* A step of a writer that leaves files and records alone.
LEMMA Moved ==
  ASSUME StoreInv, NEW w \in Writers, NEW pc \in PCs \ {"new"}, Store!Goto(w, pc),
         UNCHANGED <<content, meta, records, lost>>,
         inRun \subseteq inRun', inRun' \subseteq Writers, inTask' \subseteq inRun', WriterInv(w)'
  PROVE  StoreInv'
<1> USE DEF StoreInv
<1>1. /\ writer' \in [Writers -> Store!WriterRecord]
      /\ \A v \in Writers \ {w} : writer'[v] = writer[v]
      /\ \A v \in Writers : writer'[v].req = writer[v].req
      /\ \A v \in Writers : writer[v].pc # "new" => writer'[v].pc # "new"
      /\ AnswersFit'
  BY GotoFields, Started
<1>2. Store!TypeOK'
  BY <1>1 DEF Store!TypeOK
<1>3. FilesInv'
  BY <1>1 DEF FilesInv, Writers
<1>4. RecordsInv'
  BY <1>1, RecordFields DEF RecordsInv
<1>5. ASSUME NEW v \in Writers \ {w} PROVE WriterInv(v)'
  BY <1>1, <1>5 DEF WriterInv
<1> QED  BY <1>1, <1>2, <1>3, <1>4, <1>5

(***************************************************************************)
(* Every step of a writer keeps the store, as long as no other is at work.  *)
(***************************************************************************)
\* A call finds its artifact, finds its name taken, or finds it free.
LEMMA CheckIsSound ==
  ASSUME StoreInv, NEW q \in Requests, NEW next \in Store!Check(q)
  PROVE  /\ next \in {"register", "refused", "content", "meta"}
         /\ next = "register" => meta[q.slot] = q
         /\ next \in Store!InStore => meta[q.slot] = NoMeta
         /\ next = "meta" => content[q.slot] = q.content
<1> USE DEF Store!InStore
<1>1. q.slot \in Outputs /\ q # NoMeta /\ q.key # NoKey
  BY RequestFields
<1>2. ASSUME NEW s \in Store!Sidecars(q.key) PROVE meta[s] = q /\ s = q.slot
  <2>1. s \in Outputs /\ meta[s] # NoMeta /\ meta[s].key = q.key
    BY DEF Store!Sidecars
  <2>2. PICK e \in Calls : writer[<<e, s>>].req = meta[s]
    BY <2>1 DEF StoreInv, FilesInv
  <2>3. meta[s] \in Requests /\ meta[s].slot = s
    BY <2>1, <2>2, WriterFields
  <2>4. \A r \in Requests : r.key = q.key => r = q
    BY KeysTell
  <2>5. meta[s] = q
    BY <2>1, <2>3, <2>4
  <2> QED  BY <2>3, <2>5
<1>3. \A s \in Store!Sidecars(q.key) : meta[s] = q /\ s = q.slot
  BY <1>2
<1>4. CASE \E s \in Store!Sidecars(q.key) : next = Store!Compatible(s, q)
  BY <1>1, <1>3, <1>4 DEF Store!Compatible
<1>5. CASE Store!Replay(q) /\ next = Store!Compatible(q.slot, q)
  BY <1>1, <1>4, <1>5 DEF Store!Replay, Store!Sidecars
<1>6. CASE next = Store!Unkeyed(q)
  BY <1>1, <1>6 DEF Store!Unkeyed
<1> QED  BY <1>4, <1>5, <1>6 DEF Store!Check

LEMMA DecideKeeps ==
  ASSUME StoreInv, NEW e \in Calls, NEW s \in Outputs, Store!Begin(<<e, s>>) \/ Store!Decide(<<e, s>>)
  PROVE  StoreInv'
<1> DEFINE w == <<e, s>>
<1> DEFINE q == writer[w].req
<1>1. q \in Requests /\ q.slot = s /\ w \in Writers
  BY WriterFields
<1>2. UNCHANGED <<content, meta, records, inRun, inTask, lost>>
  BY DEF Store!Begin, Store!Decide
<1>3. ASSUME NEW next \in {"check", "register", "refused", "content", "meta"}, Store!Goto(w, next),
             next = "register" => meta[q.slot] = q,
             next \in Store!InStore => meta[q.slot] = NoMeta,
             next = "meta" => content[q.slot] = q.content
      PROVE  StoreInv'
  <2>1. next \in PCs \ {"new"} /\ next \notin Store!InState
    BY DEF PCs, Store!InStore, Store!InState, Store!Ended
  <2>2. writer'[w].pc = next /\ writer'[w].req = q
    BY <1>1, <1>3, <2>1, GotoFields
  <2>3. WriterInv(w)'
    BY <1>2, <1>3, <2>1, <2>2 DEF WriterInv, Store!InStore, Store!InState
  <2>4. inRun' \subseteq Writers /\ inTask' \subseteq inRun' /\ inRun \subseteq inRun'
    BY <1>2 DEF StoreInv, Store!TypeOK
  <2> QED  BY <1>1, <1>2, <1>3, <2>1, <2>3, <2>4, Moved
<1>4. CASE Store!Begin(w)
  BY <1>3, <1>4 DEF Store!Begin, Store!InStore
<1>5. CASE Store!Decide(w)
  <2>1. PICK next \in Store!Check(q) : Store!Goto(w, next)
    BY <1>5 DEF Store!Decide
  <2> HIDE DEF w, q
  <2> QED  BY <1>1, <1>3, <2>1, CheckIsSound
<1> QED  BY <1>4, <1>5

Alone(w) == \A v \in Writers \ {w} : ~AtWork(v)

\* What a writer that is not at work relies on depends on the metadata only.
LEMMA IdleWriter ==
  ASSUME NEW v, ~AtWork(v), WriterInv(v), writer'[v] = writer[v],
         writer[v].pc = "acked" => meta'[writer[v].req.slot] = meta[writer[v].req.slot]
  PROVE  WriterInv(v)'
BY DEF AtWork, WriterInv, Store!InStore, Store!InState, Store!Ended

LEMMA WriteContentKeeps ==
  ASSUME StoreInv, NEW e \in Calls, NEW s \in Outputs, Alone(<<e, s>>), Store!WriteContent(<<e, s>>)
  PROVE  StoreInv'
<1> DEFINE w == <<e, s>>
<1>1. w \in Writers /\ writer[w].req \in Requests /\ writer[w].req.slot = s
  BY WriterFields
<1>2. /\ writer[w].pc = "content" /\ Store!Goto(w, "meta")
      /\ UNCHANGED <<meta, records, inRun, inTask, lost>>
      /\ content' = [content EXCEPT ![s] = writer[w].req.content]
  BY <1>1 DEF Store!WriteContent
<1>3. WriterInv(w)
  BY <1>1 DEF StoreInv
<1> HIDE DEF w
<1>4. "meta" \in PCs \ {"new"}
  BY DEF PCs, Store!InStore
<1>5. /\ writer' \in [Writers -> Store!WriterRecord]
      /\ writer'[w].pc = "meta"
      /\ \A v \in Writers \ {w} : writer'[v] = writer[v]
      /\ \A v \in Writers : writer'[v].req = writer[v].req
      /\ \A v \in Writers : writer[v].pc # "new" => writer'[v].pc # "new"
      /\ AnswersFit'
  BY <1>1, <1>2, <1>4, GotoFields, Started
<1>6. writer[w].req.content \in Contents
  BY <1>1, RequestFields
<1>7. /\ content' \in [Outputs -> Contents \cup {NoContent}]
      /\ content'[s] = writer[w].req.content
      /\ \A t \in Outputs \ {s} : content'[t] = content[t]
  BY <1>2, <1>6 DEF StoreInv, Store!TypeOK
<1>8. meta[s] = NoMeta
  BY <1>1, <1>2, <1>3 DEF WriterInv, Store!InStore
<1>9. Store!TypeOK'
  BY <1>2, <1>5, <1>7 DEF StoreInv, Store!TypeOK
<1>10. FilesInv'
  BY <1>2, <1>5, <1>7, <1>8 DEF StoreInv, FilesInv, Writers
<1>11. RecordsInv'
  BY <1>2, <1>5, RecordFields DEF StoreInv, RecordsInv
<1>12. WriterInv(w)'
  BY <1>1, <1>2, <1>5, <1>7, <1>8 DEF WriterInv, Store!InStore, Store!InState
<1>13. ASSUME NEW v \in Writers \ {w} PROVE WriterInv(v)'
  BY <1>2, <1>5, <1>13, IdleWriter DEF Alone, StoreInv, w
<1> QED  BY <1>5, <1>9, <1>10, <1>11, <1>12, <1>13 DEF StoreInv

LEMMA WriteMetaKeeps ==
  ASSUME StoreInv, NEW e \in Calls, NEW s \in Outputs, Alone(<<e, s>>), Store!WriteMeta(<<e, s>>)
  PROVE  StoreInv'
<1> DEFINE w == <<e, s>>
<1>1. w \in Writers /\ writer[w].req \in Requests /\ writer[w].req.slot = s
  BY WriterFields
<1>2. /\ writer[w].pc = "meta" /\ Store!Goto(w, "register")
      /\ UNCHANGED <<content, records, inRun, inTask, lost>>
      /\ meta' = [meta EXCEPT ![s] = writer[w].req]
  BY <1>1 DEF Store!WriteMeta
<1>3. WriterInv(w)
  BY <1>1 DEF StoreInv
<1>4. "register" \in PCs \ {"new"}
  BY DEF PCs
<1>5. /\ writer' \in [Writers -> Store!WriterRecord]
      /\ writer'[w].pc = "register"
      /\ \A v \in Writers \ {w} : writer'[v] = writer[v]
      /\ \A v \in Writers : writer'[v].req = writer[v].req
      /\ \A v \in Writers : writer[v].pc # "new" => writer'[v].pc # "new"
      /\ AnswersFit'
  BY <1>1, <1>2, <1>4, GotoFields, Started
<1>6. /\ meta' \in [Outputs -> Requests \cup {NoMeta}]
      /\ meta'[s] = writer[w].req
      /\ \A t \in Outputs \ {s} : meta'[t] = meta[t]
  BY <1>1, <1>2 DEF StoreInv, Store!TypeOK
<1>7. meta[s] = NoMeta /\ content[s] = writer[w].req.content
  BY <1>1, <1>2, <1>3 DEF WriterInv, Store!InStore
<1>8. Store!TypeOK'
  BY <1>2, <1>5, <1>6 DEF StoreInv, Store!TypeOK
<1>9. FilesInv'
  <2>1. /\ \E f \in Calls : writer'[<<f, s>>].pc # "new" /\ writer'[<<f, s>>].req = meta'[s]
        /\ content'[s] = meta'[s].content
    BY <1>1, <1>2, <1>4, <1>5, <1>6, <1>7
  <2>2. ASSUME NEW t \in Outputs \ {s}, meta[t] # NoMeta
        PROVE  /\ \E f \in Calls : writer'[<<f, t>>].pc # "new" /\ writer'[<<f, t>>].req = meta[t]
               /\ t \notin lost => content[t] = meta[t].content
    BY <1>5, <2>2 DEF StoreInv, FilesInv, Writers
  <2> QED  BY <1>2, <1>6, <2>1, <2>2 DEF FilesInv
<1>10. RecordsInv'
  <2>1. \A r \in records : r.id \in Writers /\ r.req.slot \in Outputs \ {s}
    BY <1>7, RecordFields DEF StoreInv, RecordsInv
  <2> QED  BY <1>2, <1>5, <1>6, <2>1 DEF StoreInv, RecordsInv
<1>11. WriterInv(w)'
  BY <1>1, <1>2, <1>5, <1>6 DEF WriterInv, Store!InStore, Store!InState
<1>12. ASSUME NEW v \in Writers \ {w} PROVE WriterInv(v)'
  <2>1. PICK f \in Calls, t \in Outputs : v = <<f, t>>
    BY DEF Writers
  <2>2. writer[v].req.slot = t /\ writer[v].req \in Requests
    BY <2>1, WriterFields
  <2>3. writer[v].req # NoMeta
    BY <2>2, RequestFields
  <2>4. WriterInv(v) /\ ~AtWork(v) /\ writer'[v] = writer[v]
    BY <1>5 DEF StoreInv, Alone
  <2>5. writer[v].pc = "acked" => meta'[t] = meta[t]
    BY <1>6, <1>7, <2>2, <2>3, <2>4 DEF WriterInv
  <2> QED  BY <2>2, <2>4, <2>5, IdleWriter
<1> QED  BY <1>5, <1>8, <1>9, <1>10, <1>11, <1>12 DEF StoreInv

\* A record is found by its key, or there is none of this output.
LEMMA RegisterKeeps ==
  ASSUME StoreInv, NEW e \in Calls, NEW s \in Outputs, Alone(<<e, s>>), Store!Register(<<e, s>>)
  PROVE  StoreInv'
<1> DEFINE w == <<e, s>>
<1> DEFINE q == writer[w].req
<1>1. w \in Writers /\ q \in Requests /\ q.slot = s
  BY WriterFields
<1>2. /\ writer[w].pc = "register" /\ UNCHANGED <<content, meta, inRun, inTask, lost>>
      /\ \/ (\E r \in Store!Known(q) : Store!Goto(w, IF r.req = q THEN "acked" ELSE "refused")) /\ UNCHANGED records
         \/ /\ Store!Known(q) = {} /\ Store!Goto(w, "linkRun")
            /\ records' = records \cup {[id |-> w, req |-> q]}
  BY DEF Store!Register
<1>3. meta[s] = q
  BY <1>1, <1>2 DEF StoreInv, WriterInv
<1>4. inRun' \subseteq Writers /\ inTask' \subseteq inRun' /\ inRun \subseteq inRun'
  BY <1>2 DEF StoreInv, Store!TypeOK
<1> HIDE DEF w, q
<1>5. ASSUME NEW r \in Store!Known(q), Store!Goto(w, IF r.req = q THEN "acked" ELSE "refused"), UNCHANGED records
      PROVE  StoreInv'
  <2>1. PICK pc \in {"acked", "refused"} : Store!Goto(w, pc)
    BY <1>5
  <2>2. pc \in PCs \ {"new"}
    BY DEF PCs, Store!Ended
  <2>3. writer'[w].pc = pc /\ writer'[w].req = q
    BY <1>1, <2>1, <2>2, GotoFields DEF q
  <2>4. WriterInv(w)'
    BY <1>1, <1>2, <1>3, <2>3 DEF WriterInv, Store!InStore, Store!InState
  <2> QED  BY <1>1, <1>2, <1>4, <1>5, <2>1, <2>2, <2>4, Moved
<1>6. ASSUME Store!Known(q) = {}, Store!Goto(w, "linkRun"), records' = records \cup {[id |-> w, req |-> q]}
      PROVE  StoreInv'
  <2> DEFINE n == [id |-> w, req |-> q]
  <2>1. "linkRun" \in PCs \ {"new"}
    BY DEF PCs, Store!InState
  <2>2. /\ writer' \in [Writers -> Store!WriterRecord]
        /\ writer'[w].pc = "linkRun"
        /\ \A v \in Writers \ {w} : writer'[v] = writer[v]
        /\ \A v \in Writers : writer'[v].req = writer[v].req
        /\ \A v \in Writers : writer[v].pc # "new" => writer'[v].pc # "new"
        /\ AnswersFit'
    BY <1>1, <1>6, <2>1, GotoFields, Started
  <2>3. n.id = w /\ n.req = q /\ n \in Store!Record
    BY <1>1, RequestFields DEF Store!Record
  <2> HIDE DEF n
  <2>4. records' = records \cup {n}
    BY <1>6 DEF n
  <2>5. Store!TypeOK'
    BY <1>2, <2>2, <2>3, <2>4 DEF StoreInv, Store!TypeOK
  <2>6. FilesInv'
    BY <1>2, <2>2 DEF StoreInv, FilesInv, Writers
  <2>7. \A r \in records : r.req.slot # s
    <3> SUFFICES ASSUME NEW r \in records, r.req.slot = s PROVE FALSE
      OBVIOUS
    <3>1. r.req = q
      BY <1>3 DEF StoreInv, RecordsInv
    <3>2. q.key # NoKey
      BY <1>1, RequestFields
    <3> QED  BY <1>1, <1>6, <3>1, <3>2 DEF Store!Known
  <2>8. RecordsInv'
    BY <1>1, <1>2, <1>3, <2>1, <2>2, <2>3, <2>4, <2>7, RecordFields DEF StoreInv, RecordsInv, q
  <2>9. WriterInv(w)'
    BY <1>1, <1>2, <1>3, <2>2 DEF WriterInv, Store!InStore, Store!InState, q
  <2>10. ASSUME NEW v \in Writers \ {w} PROVE WriterInv(v)'
    BY <1>2, <2>2, <2>10, IdleWriter DEF Alone, StoreInv, w
  <2> QED  BY <2>2, <2>5, <2>6, <2>8, <2>9, <2>10 DEF StoreInv
<1> QED  BY <1>2, <1>5, <1>6

LEMMA LinkKeeps ==
  ASSUME StoreInv, NEW w \in Writers,
         Store!LinkRun(w) \/ Store!LinkTask(w) \/ Store!AppendEvent(w) \/ Store!Stop(w)
  PROVE  StoreInv'
<1>1. PICK pc \in {"linkTask", "event", "acked", "dead"} :
        Store!Goto(w, pc) /\ (pc = "linkTask" => w \in inRun')
                          /\ (pc = "acked" => writer[w].pc = "event")
                          /\ (pc \in {"linkTask", "event"} => writer[w].pc \in {"linkRun", "linkTask"})
  BY DEF Store!LinkRun, Store!LinkTask, Store!AppendEvent, Store!Stop
<1>2. pc \in PCs \ {"new"}
  BY DEF PCs, Store!InState, Store!Ended
<1>3. UNCHANGED <<content, meta, records, lost>>
  BY DEF Store!LinkRun, Store!LinkTask, Store!AppendEvent, Store!Stop
<1>4. inRun \subseteq inRun' /\ inRun' \subseteq Writers /\ inTask' \subseteq inRun'
  BY DEF Store!LinkRun, Store!LinkTask, Store!AppendEvent, Store!Stop, StoreInv, Store!TypeOK, WriterInv
<1>5. pc # "dead" => meta[writer[w].req.slot] = writer[w].req
  BY <1>1 DEF StoreInv, WriterInv, Store!InState
<1>6. writer'[w].pc = pc /\ writer'[w].req = writer[w].req
  BY <1>1, <1>2, GotoFields
<1>7. WriterInv(w)'
  BY <1>1, <1>3, <1>5, <1>6 DEF WriterInv, Store!InStore, Store!InState
<1> QED  BY <1>1, <1>2, <1>3, <1>4, <1>7, Moved

LEMMA LoseKeeps ==
  ASSUME StoreInv, NEW s \in Outputs, Store!Lose(s)
  PROVE  StoreInv'
<1>1. /\ content' \in [Outputs -> Contents \cup {NoContent}]
      /\ meta[s] # NoMeta
      /\ \A t \in Outputs \ {s} : content'[t] = content[t]
      /\ lost' = lost \cup {s}
      /\ UNCHANGED <<meta, records, inRun, inTask, writer>>
  BY DEF Store!Lose, StoreInv, Store!TypeOK
<1>2. Store!TypeOK' /\ AnswersFit' /\ FilesInv' /\ RecordsInv'
  BY <1>1 DEF StoreInv, Store!TypeOK, AnswersFit, FilesInv, RecordsInv
<1>3. ASSUME NEW w \in Writers PROVE WriterInv(w)'
  <2>1. PICK f \in Calls, t \in Outputs : w = <<f, t>>
    BY DEF Writers
  <2>2. writer[w].req.slot = t
    BY <2>1, WriterFields
  <2>3. WriterInv(w)
    BY DEF StoreInv
  <2> QED  BY <1>1, <2>2, <2>3 DEF WriterInv, Store!InStore
<1> QED  BY <1>2, <1>3 DEF StoreInv

LEMMA StepKeeps ==
  ASSUME StoreInv, NEW e \in Calls, NEW s \in Outputs, Alone(<<e, s>>), Store!Step(<<e, s>>)
  PROVE  StoreInv'
<1>1. <<e, s>> \in Writers
  BY DEF Writers
<1> QED
  BY <1>1, DecideKeeps, WriteContentKeeps, WriteMetaKeeps, RegisterKeeps, LinkKeeps DEF Store!Step

(***************************************************************************)
(* Lemmas about calls.                                                      *)
(***************************************************************************)
Moves(e) ==
  /\ call' \in [Calls -> CallRecord]
  /\ \A f \in Calls \ {e} : call'[f] = call[f]

LEMMA GotoMoves ==
  ASSUME TypeOK, NEW e \in Calls, NEW pc \in Sync \cup Over \cup {"new", "model"}, Goto(e, pc)
  PROVE  Moves(e) /\ call'[e].pc = pc /\ call'[e].claim = call[e].claim
BY DEF TypeOK, Goto, CallRecord, Moves

LEMMA TaskFields ==
  ASSUME TypeOK, NEW s \in TaskStatus, task' = [task EXCEPT !.status = s, !.claim = 0]
  PROVE  /\ task' \in [status : TaskStatus, claim : Attempt, attempts : Attempt]
         /\ task'.status = s /\ task'.claim = 0
<1>1. 0 \in Attempt
  BY Limits DEF Attempt
<1> QED  BY <1>1 DEF TypeOK

\* The writers at work are those of the one call that is writing.
LEMMA OneWriter ==
  ASSUME CallsInv, NEW e \in Calls, NEW s \in Outputs, call[e].pc = s
  PROVE  Alone(<<e, s>>)
<1> SUFFICES ASSUME NEW f \in Calls, NEW t \in Outputs, AtWork(<<f, t>>) PROVE <<f, t>> = <<e, s>>
  BY DEF Alone, Writers
<1>1. call[f].pc = t
  BY DEF CallsInv
<1>2. f = e
  BY <1>1 DEF CallsInv, Sync
<1> QED  BY <1>1, <1>2

LEMMA StoreSame ==
  ASSUME StoreInv, UNCHANGED store
  PROVE  StoreInv' /\ \A s \in Outputs : Listed(s)' = Listed(s)
BY DEF store, StoreInv, Store!TypeOK, AnswersFit, FilesInv, RecordsInv, WriterInv, Listed

\* A call that writes nothing moves on.
LEMMA CallMoves ==
  ASSUME IInv, NEW e \in Calls, Moves(e), UNCHANGED <<store, crashes>>,
         task' \in [status : TaskStatus, claim : Attempt, attempts : Attempt],
         routed' \in BOOLEAN, routed => routed', grant' = grant, unsaved' \in BOOLEAN,
         call[e].pc \notin Outputs, call'[e].pc \notin {"new", "product-brief-md"},
         call'[e].pc \in Sync => call[e].pc \in Sync \/ Quiet,
         call'[e].pc = "execute" => call'[e].claim = 0,
         call'[e].pc \in Outputs \cup {"verify", "complete"} => routed'
  PROVE  TypeOK' /\ StoreInv' /\ CallsInv'
<1>1. StoreInv'
  BY StoreSame DEF IInv
<1>2. TypeOK'
  BY <1>1 DEF IInv, TypeOK, StoreInv, Moves
<1>3. writer' = writer
  BY DEF store
<1>4. \A f, g \in Calls : call'[f].pc \in Sync /\ call'[g].pc \in Sync => f = g
  BY DEF IInv, CallsInv, Moves, Quiet
<1>5. ASSUME NEW f \in Calls
      PROVE  /\ call'[f].pc \in {"new", "execute"} => call'[f].claim = 0
             /\ call'[f].pc \in Outputs \cup {"verify", "complete"} => routed'
             /\ \/ call'[f].pc = "product-brief-md" \/ writer'[<<f, "product-brief-md">>].pc # "new"
                => writer'[<<f, "product-brief">>].pc = "acked"
  BY <1>3 DEF IInv, CallsInv, Moves
<1>6. ASSUME NEW f \in Calls, NEW s \in Outputs
      PROVE  /\ writer'[<<f, s>>].pc # "new" => routed'
             /\ AtWork(<<f, s>>)' => call'[f].pc = s
  BY <1>3 DEF IInv, CallsInv, Moves, AtWork
<1> QED  BY <1>1, <1>2, <1>4, <1>5, <1>6 DEF CallsInv

\* It leaves the task alone.
LEMMA TaskStays ==
  ASSUME IInv, NEW e \in Calls, Moves(e), UNCHANGED <<store, task, crashes>>,
         routed => routed', unsaved => unsaved',
         call'[e].pc = "complete" => routed' /\ \A s \in Outputs : Listed(s) # {},
         ~unsaved' /\ Owned(e) => /\ call'[e].pc \in Sync \cup {"model"}
                                  /\ call'[e].claim = call[e].claim
  PROVE  EvidenceInv' /\ ClaimInv' /\ RunningIsOwned'
<1>1. \A s \in Outputs : Listed(s)' = Listed(s)
  BY StoreSame DEF IInv
<1>2. EvidenceInv'
  BY <1>1 DEF IInv, EvidenceInv, Moves
<1>3. ClaimInv'
  BY DEF IInv, ClaimInv
<1>4. RunningIsOwned'
  BY DEF IInv, RunningIsOwned, Moves, Owned
<1> QED  BY <1>2, <1>3, <1>4

\* Or it ends an attempt or prepares one.
LEMMA TaskRests ==
  ASSUME IInv, NEW e \in Calls, Moves(e), UNCHANGED <<store, routed>>, task'.status # "running",
         call'[e].pc # "complete",
         task'.status = "completed" => routed /\ \A s \in Outputs : Listed(s) # {}
  PROVE  EvidenceInv' /\ RunningIsOwned'
<1>1. \A s \in Outputs : Listed(s)' = Listed(s)
  BY StoreSame DEF IInv
<1>2. EvidenceInv'
  BY <1>1 DEF IInv, EvidenceInv, Moves
<1> QED  BY <1>2 DEF RunningIsOwned

(***************************************************************************)
(* Every step keeps the invariant: calls, without their writes.             *)
(***************************************************************************)
LEMMA ArriveInv ==
  ASSUME IInv, NEW e \in Calls, Execute(e) \/ Retry(e)
  PROVE  IInv'
<1>1. call[e].pc = "new" /\ Quiet /\ Goto(e, "execute") /\ UNCHANGED <<store, routed, grant, unsaved, crashes>>
  BY DEF Execute, Retry, Arrives
<1>2. Moves(e) /\ call'[e].pc = "execute" /\ call'[e].claim = 0
  BY <1>1, GotoMoves DEF IInv, CallsInv, Sync
<1>3. task' \in [status : TaskStatus, claim : Attempt, attempts : Attempt]
  BY DEF Execute, Retry, IInv, TypeOK, TaskStatus
<1>4. TypeOK' /\ StoreInv' /\ CallsInv'
  BY <1>1, <1>2, <1>3, CallMoves DEF IInv, TypeOK, Outputs
<1>5. CASE Execute(e)
  <2>1. ~Owned(e)
    BY <1>1 DEF IInv, CallsInv, Owned
  <2> QED  BY <1>1, <1>2, <1>4, <1>5, <2>1, TaskStays DEF IInv, Execute
<1>6. CASE Retry(e)
  <2>1. /\ task'.status = "ready" /\ task'.claim = task.claim /\ task'.attempts = task.attempts
        /\ task.status = "blocked" /\ task.attempts < MaxAttempts
    BY <1>6 DEF Retry, IInv, TypeOK
  <2>2. ClaimInv'
    BY <1>1, <2>1 DEF IInv, ClaimInv
  <2> QED  BY <1>1, <1>2, <1>4, <2>1, <2>2, TaskRests DEF IInv
<1> QED  BY <1>5, <1>6

LEMMA RefuseInv ==
  ASSUME IInv, NEW e \in Calls, Report(e) \/ Refuse(e)
  PROVE  IInv'
<1>1. PICK pc \in {"returned", "raised"} : Goto(e, pc)
  BY DEF Report, Refuse
<1>2. call[e].pc = "execute" /\ UNCHANGED <<store, task, routed, grant, unsaved, crashes>>
  BY DEF Report, Refuse
<1>3. Moves(e) /\ call'[e].pc = pc
  BY <1>1, GotoMoves DEF IInv, Over
<1>4. ~Owned(e)
  BY <1>2 DEF IInv, CallsInv, Owned
<1>5. TypeOK' /\ StoreInv' /\ CallsInv'
  BY <1>2, <1>3, CallMoves DEF IInv, TypeOK, Outputs, Sync
<1> QED  BY <1>2, <1>3, <1>4, <1>5, TaskStays DEF IInv

LEMMA ClaimKeeps ==
  ASSUME IInv, NEW e \in Calls, Claim(e)
  PROVE  IInv'
<1> DEFINE n == task.attempts + 1
<1>1. n \in Attempt /\ n # 0
  BY Limits DEF Claim, Claimable, IInv, TypeOK, Attempt
<1>2. task' = [status |-> "running", claim |-> n, attempts |-> n]
  BY DEF Claim
<1>3. PICK pc \in {"model", "fail"} : call' = [call EXCEPT ![e] = [pc |-> pc, claim |-> n]]
  BY DEF Claim
<1>4. call[e].pc = "execute" /\ UNCHANGED <<store, routed, grant, unsaved, crashes>>
  BY DEF Claim
<1> HIDE DEF n
<1>5. Moves(e) /\ call'[e].pc = pc /\ call'[e].claim = n
  BY <1>1, <1>3 DEF IInv, TypeOK, Moves, CallRecord, Sync
<1>6. /\ task' \in [status : TaskStatus, claim : Attempt, attempts : Attempt]
      /\ task'.status = "running" /\ task'.claim = n
  BY <1>1, <1>2 DEF TaskStatus
<1>7. TypeOK' /\ StoreInv' /\ CallsInv'
  BY <1>4, <1>5, <1>6, CallMoves DEF IInv, TypeOK, Outputs, Sync
<1>8. \A s \in Outputs : Listed(s)' = Listed(s)
  BY <1>4, StoreSame DEF IInv
<1>9. EvidenceInv'
  BY <1>4, <1>5, <1>6, <1>8 DEF IInv, EvidenceInv, Moves
<1>10. ClaimInv' /\ RunningIsOwned'
  BY <1>1, <1>5, <1>6 DEF ClaimInv, RunningIsOwned, Owned, Sync
<1> QED  BY <1>7, <1>9, <1>10 DEF IInv

LEMMA AgentInv ==
  ASSUME IInv, NEW e \in Calls, Answer(e) \/ AgentFails(e)
  PROVE  IInv'
<1>1. PICK pc \in {"product-brief", "fail"} : Goto(e, pc) /\ (pc = "product-brief" => routed')
  BY DEF Answer, AgentFails
<1>2. /\ call[e].pc = "model" /\ Quiet /\ UNCHANGED <<store, task, grant, unsaved, crashes>>
      /\ routed' \in BOOLEAN /\ (routed => routed')
  BY DEF Answer, AgentFails, IInv, TypeOK
<1>3. pc \in Sync
  BY DEF Sync, Outputs
<1>4. Moves(e) /\ call'[e].pc = pc /\ call'[e].claim = call[e].claim
  BY <1>1, <1>3, GotoMoves DEF IInv
<1>5. TypeOK' /\ StoreInv' /\ CallsInv'
  BY <1>1, <1>2, <1>4, CallMoves DEF IInv, TypeOK, Outputs
<1> QED  BY <1>2, <1>3, <1>4, <1>5, TaskStays DEF IInv

LEMMA VerifyInv ==
  ASSUME IInv, NEW e \in Calls, Verify(e)
  PROVE  IInv'
<1>1. PICK pc \in {"complete", "fail"} : Goto(e, pc) /\ (pc = "complete" => Verified(e))
  BY DEF Verify
<1>2. call[e].pc = "verify" /\ UNCHANGED <<store, task, routed, grant, unsaved, crashes>>
  BY DEF Verify
<1>3. pc \in Sync /\ "verify" \in Sync
  BY DEF Sync
<1>4. Moves(e) /\ call'[e].pc = pc /\ call'[e].claim = call[e].claim
  BY <1>1, <1>3, GotoMoves DEF IInv
<1>5. pc = "complete" => routed /\ \A s \in Outputs : Listed(s) # {}
  BY <1>1, <1>2 DEF Verified, IInv, CallsInv
<1>6. routed
  BY <1>2 DEF IInv, CallsInv
<1>7. TypeOK' /\ StoreInv' /\ CallsInv'
  BY <1>2, <1>3, <1>4, <1>6, CallMoves DEF IInv, TypeOK, Outputs
<1> QED  BY <1>2, <1>3, <1>4, <1>5, <1>7, TaskStays DEF IInv

LEMMA CompleteInv ==
  ASSUME IInv, NEW e \in Calls, Complete(e) \/ CompletionFails(e)
  PROVE  IInv'
<1>1. /\ call[e].pc = "complete" /\ Goto(e, "returned") /\ UNCHANGED <<store, routed, grant, crashes>>
      /\ unsaved' \in BOOLEAN /\ (unsaved => unsaved')
  BY DEF Complete, CompletionFails, IInv, TypeOK
<1>2. Moves(e) /\ call'[e].pc = "returned"
  BY <1>1, GotoMoves DEF IInv, Over
<1>3. routed /\ \A s \in Outputs : Listed(s) # {}
  BY <1>1 DEF IInv, EvidenceInv
<1>4. task' \in [status : TaskStatus, claim : Attempt, attempts : Attempt]
  <2>1. "completed" \in TaskStatus
    BY DEF TaskStatus
  <2> QED  BY <2>1, TaskFields DEF Complete, CompletionFails, IInv, TypeOK
<1>5. TypeOK' /\ StoreInv' /\ CallsInv'
  BY <1>1, <1>2, <1>4, CallMoves DEF IInv, Outputs, Sync, TypeOK
<1>6. CASE task' = task /\ (~unsaved' => ~Owned(e))
  BY <1>1, <1>2, <1>5, <1>6, TaskStays DEF IInv
<1>7. CASE task' = [task EXCEPT !.status = "completed", !.claim = 0]
  <2>1. task'.status = "completed"
    BY <1>7 DEF IInv, TypeOK
  <2>2. ClaimInv'
    BY <2>1 DEF ClaimInv
  <2> QED  BY <1>1, <1>2, <1>3, <1>5, <2>1, <2>2, TaskRests DEF IInv
<1> QED  BY <1>6, <1>7 DEF Complete, CompletionFails

LEMMA FailInv ==
  ASSUME IInv, NEW e \in Calls, Fail(e)
  PROVE  IInv'
<1>1. PICK pc \in {"returned", "raised"} : Goto(e, pc)
  BY DEF Fail
<1>2. call[e].pc = "fail" /\ UNCHANGED <<store, routed, grant, unsaved, crashes>>
  BY DEF Fail
<1>3. Moves(e) /\ call'[e].pc = pc
  BY <1>1, GotoMoves DEF IInv, Over
<1>4. AfterFailure \in {"failed", "blocked"}
  BY DEF AfterFailure
<1>5. task' \in [status : TaskStatus, claim : Attempt, attempts : Attempt]
  <2>1. AfterFailure \in TaskStatus
    BY <1>4 DEF TaskStatus
  <2> QED  BY <2>1, TaskFields DEF Fail, IInv, TypeOK
<1>6. TypeOK' /\ StoreInv' /\ CallsInv'
  BY <1>2, <1>3, <1>5, CallMoves DEF IInv, Outputs, Sync, TypeOK
<1>7. CASE ~Owned(e) /\ task' = task
  BY <1>2, <1>3, <1>6, <1>7, TaskStays DEF IInv
<1>8. CASE task' = [task EXCEPT !.status = AfterFailure, !.claim = 0]
  <2>1. task'.status \in {"failed", "blocked"} /\ task'.claim = 0
    BY <1>4, <1>8 DEF IInv, TypeOK
  <2>2. ClaimInv'
    BY <2>1 DEF ClaimInv
  <2> QED  BY <1>2, <1>3, <1>6, <2>1, <2>2, TaskRests DEF IInv
<1> QED  BY <1>7, <1>8 DEF Fail

\* A record exists only after an answer, and with it a route decision.
LEMMA ListedIsRouted ==
  ASSUME StoreInv, CallsInv, NEW s \in Outputs, Listed(s) # {}
  PROVE  routed
<1>1. PICK r \in records : r.req.slot = s
  BY DEF Listed
<1>2. r.id \in Writers /\ writer[r.id].pc # "new"
  BY RecordFields DEF StoreInv, RecordsInv
<1> QED  BY <1>2 DEF CallsInv, Writers

LEMMA ReconcileInv ==
  ASSUME IInv, NEW e \in Calls, Reconcile(e)
  PROVE  IInv'
<1>1. /\ call[e].pc = "new" /\ Quiet /\ Goto(e, "returned") /\ UNCHANGED <<store, routed, grant, unsaved, crashes>>
      /\ task' = [task EXCEPT !.status = "completed", !.claim = 0]
  BY DEF Reconcile, Arrives
<1>2. Moves(e) /\ call'[e].pc = "returned"
  BY <1>1, GotoMoves DEF IInv, Over
<1>3. \A s \in Outputs : Listed(s) # {}
  BY DEF Reconcile, Reconcilable, OneOfEach
<1>4. routed
  BY <1>3, ListedIsRouted DEF IInv, Outputs
<1>5. /\ task' \in [status : TaskStatus, claim : Attempt, attempts : Attempt]
      /\ task'.status = "completed"
  <2>1. "completed" \in TaskStatus
    BY DEF TaskStatus
  <2> QED  BY <1>1, <2>1, TaskFields DEF IInv
<1>6. TypeOK' /\ StoreInv' /\ CallsInv'
  BY <1>1, <1>2, <1>5, CallMoves DEF IInv, Outputs, Sync, TypeOK
<1>7. ClaimInv'
  BY <1>5 DEF ClaimInv
<1> QED  BY <1>1, <1>2, <1>3, <1>4, <1>5, <1>6, <1>7, TaskRests DEF IInv

(***************************************************************************)
(* Every step keeps the invariant: writes, crashes and losses.              *)
(***************************************************************************)
Places == {"check", "register", "refused", "content", "meta", "linkRun", "linkTask", "event", "acked"}

\* A writer goes on from where it is, or stops there.
LEMMA WriterGoes ==
  ASSUME StoreInv, NEW w \in Writers, Store!Step(w) \/ Store!Stop(w)
  PROVE  /\ writer[w].pc \notin Store!Ended
         /\ \/ Store!Step(w) /\ writer'[w].pc \in Places
            \/ Store!Stop(w) /\ writer'[w].pc = "dead"
         /\ Store!Stop(w) => writer'[w].pc = "dead"
         /\ \A v \in Writers \ {w} : writer'[v] = writer[v]
         /\ records \subseteq records' /\ inTask \subseteq inTask'
<1>1. Places \cup {"dead"} \subseteq PCs
  BY DEF Places, PCs, Store!InStore, Store!InState, Store!Ended
<1>2. ASSUME NEW pc \in Places \cup {"dead"}, Store!Goto(w, pc)
      PROVE  writer'[w].pc = pc /\ \A v \in Writers \ {w} : writer'[v] = writer[v]
  BY <1>1, <1>2, GotoFields
<1>3. CASE Store!Step(w)
  <2>1. writer[w].req \in Requests
    BY DEF StoreInv, Store!TypeOK, Store!WriterRecord
  <2>2. \A next \in Store!Check(writer[w].req) : next \in Places
    BY <2>1, CheckIsSound DEF Places
  <2>3. \E pc \in Places : Store!Goto(w, pc)
    BY <1>3, <2>2 DEF Places, Store!Step, Store!Begin, Store!Decide, Store!WriteContent, Store!WriteMeta,
       Store!Register, Store!LinkRun, Store!LinkTask, Store!AppendEvent
  <2>4. writer[w].pc \notin Store!Ended /\ records \subseteq records' /\ inTask \subseteq inTask'
    BY <1>3 DEF Store!Ended, Store!Step, Store!Begin, Store!Decide, Store!WriteContent, Store!WriteMeta,
       Store!Register, Store!LinkRun, Store!LinkTask, Store!AppendEvent
  <2>5. Store!Stop(w) => writer'[w].pc = "dead"
    BY <1>2 DEF Store!Stop
  <2> QED  BY <1>2, <1>3, <2>3, <2>4, <2>5
<1>4. CASE Store!Stop(w)
  BY <1>2, <1>4 DEF Store!Stop
<1> QED  BY <1>3, <1>4

\* What a step of the writer at work, or its end, does to the store.
LEMMA WritersKeep ==
  ASSUME IInv, NEW e \in Calls, NEW s \in Outputs, call[e].pc = s,
         Store!Step(<<e, s>>) \/ Store!Stop(<<e, s>>)
  PROVE  /\ StoreInv'
         /\ \A f \in Calls :
              /\ writer'[<<f, "product-brief-md">>].pc # "new" => writer'[<<f, "product-brief">>].pc = "acked"
              /\ call[f].pc = "product-brief-md" => writer'[<<f, "product-brief">>].pc = "acked"
         /\ routed
         /\ \A f \in Calls, t \in Outputs :
              AtWork(<<f, t>>)' =>
                /\ f = e /\ t = s /\ writer'[<<e, s>>].pc \in Places \ {"acked", "refused"}
                /\ ~Store!Stop(<<e, s>>)
         /\ \A t \in Outputs : Listed(t) \subseteq Listed(t)'
<1> DEFINE w == <<e, s>>
<1>1. w \in Writers
  BY DEF Writers
<1>2. StoreInv'
  BY <1>1, OneWriter, StepKeeps, LinkKeeps DEF IInv
<1>3. /\ writer[w].pc \notin Store!Ended /\ writer'[w].pc \in Places \cup {"dead"}
      /\ Store!Stop(w) => writer'[w].pc = "dead"
      /\ \A v \in Writers \ {w} : writer'[v] = writer[v]
      /\ records \subseteq records' /\ inTask \subseteq inTask'
  BY <1>1, WriterGoes DEF IInv
<1>4. routed
  BY DEF IInv, CallsInv
<1>5. ASSUME NEW f \in Calls, NEW t \in Outputs, AtWork(<<f, t>>)'
      PROVE  /\ f = e /\ t = s /\ writer'[w].pc \in Places \ {"acked", "refused"}
             /\ ~Store!Stop(w)
  <2>1. CASE <<f, t>> = w
    BY <1>3, <1>5, <2>1 DEF AtWork, Store!Ended
  <2>2. CASE <<f, t>> # w
    BY <1>3, <1>5, <2>2, OneWriter DEF IInv, Alone, AtWork, Writers
  <2> QED  BY <2>1, <2>2
<1>6. ASSUME NEW f \in Calls
      PROVE  /\ writer'[<<f, "product-brief-md">>].pc # "new" => writer'[<<f, "product-brief">>].pc = "acked"
             /\ call[f].pc = "product-brief-md" => writer'[<<f, "product-brief">>].pc = "acked"
  <2>1. /\ <<f, "product-brief-md">> \in Writers /\ <<f, "product-brief">> \in Writers
        /\ "product-brief-md" \in Sync /\ "product-brief" \in Sync
    BY DEF Writers, Outputs, Sync
  <2>2. \/ call[f].pc = "product-brief-md" \/ writer[<<f, "product-brief-md">>].pc # "new"
        => writer[<<f, "product-brief">>].pc = "acked"
    BY DEF IInv, CallsInv
  <2>3. writer[<<f, "product-brief">>].pc = "acked" => writer'[<<f, "product-brief">>].pc = "acked"
    BY <1>3, <2>1 DEF Store!Ended
  <2>4. CASE w = <<f, "product-brief-md">>
    BY <2>2, <2>3, <2>4
  <2>5. CASE w # <<f, "product-brief-md">>
    BY <1>3, <2>1, <2>2, <2>3, <2>5
  <2> QED  BY <2>4, <2>5
<1>7. \A t \in Outputs : Listed(t) \subseteq Listed(t)'
  BY <1>3 DEF Listed
<1> QED  BY <1>2, <1>4, <1>5, <1>6, <1>7

LEMMA WriteInv ==
  ASSUME IInv, NEW e \in Calls, NEW s \in Outputs, Write(e, s) \/ WriteFails(e, s)
  PROVE  IInv'
<1> DEFINE w == <<e, s>>
<1>1. /\ call[e].pc = s
      /\ Store!Step(w) \/ Store!Stop(w)
      /\ UNCHANGED <<task, routed, grant, unsaved, crashes>>
  BY DEF Write, WriteFails
<1>2. PICK pc \in Outputs \cup {"verify", "fail"} :
        /\ Goto(e, pc)
        /\ writer'[w].pc \notin {"acked", "refused"} => pc = s \/ Store!Stop(w)
        /\ pc = "product-brief-md" => s = pc \/ writer'[<<e, "product-brief">>].pc = "acked"
  <2>1. CASE Write(e, s) /\ writer'[w].pc = "acked"
    <3>1. Goto(e, Following(s))
      BY <2>1 DEF Write
    <3>2. s \in {"product-brief", "product-brief-md"}
      BY DEF Outputs
    <3> QED  BY <2>1, <3>1, <3>2 DEF Following, Outputs
  <2>2. CASE Write(e, s) /\ writer'[w].pc = "refused"
    <3>1. Goto(e, "fail")
      BY <2>2 DEF Write
    <3> QED  BY <2>2, <3>1
  <2>3. CASE Write(e, s) /\ writer'[w].pc \notin {"acked", "refused"}
    <3>1. Goto(e, s)
      BY <2>3 DEF Write
    <3> QED  BY <2>3, <3>1
  <2>4. CASE WriteFails(e, s)
    <3>1. Goto(e, "fail") /\ Store!Stop(w)
      BY <2>4 DEF WriteFails
    <3> QED  BY <3>1
  <2> QED  BY <2>1, <2>2, <2>3, <2>4
<1>3. pc \in Sync /\ s \in Sync
  BY DEF Sync
<1>4. Moves(e) /\ call'[e].pc = pc /\ call'[e].claim = call[e].claim
  BY <1>2, <1>3, GotoMoves DEF IInv
<1>5. /\ StoreInv'
      /\ \A f \in Calls :
           /\ writer'[<<f, "product-brief-md">>].pc # "new" => writer'[<<f, "product-brief">>].pc = "acked"
           /\ call[f].pc = "product-brief-md" => writer'[<<f, "product-brief">>].pc = "acked"
      /\ routed
      /\ \A f \in Calls, t \in Outputs :
           AtWork(<<f, t>>)' =>
             /\ f = e /\ t = s /\ writer'[w].pc \in Places \ {"acked", "refused"}
             /\ ~Store!Stop(w)
      /\ \A t \in Outputs : Listed(t) \subseteq Listed(t)'
  BY <1>1, WritersKeep
<1> HIDE DEF w
<1>6. TypeOK'
  BY <1>1, <1>4, <1>5 DEF IInv, TypeOK, StoreInv, Moves
<1>7. CallsInv'
  <2>1. \A f, g \in Calls : call'[f].pc \in Sync /\ call'[g].pc \in Sync => f = g
    BY <1>1, <1>3, <1>4 DEF IInv, CallsInv, Moves
  <2>2. ASSUME NEW f \in Calls
        PROVE  /\ call'[f].pc \in {"new", "execute"} => call'[f].claim = 0
               /\ \/ call'[f].pc = "product-brief-md" \/ writer'[<<f, "product-brief-md">>].pc # "new"
                  => writer'[<<f, "product-brief">>].pc = "acked"
    <3>1. call'[f].pc \in {"new", "execute"} => call'[f].claim = 0
      BY <1>4 DEF IInv, CallsInv, Moves, Outputs
    <3>2. call'[f].pc = "product-brief-md" => writer'[<<f, "product-brief">>].pc = "acked"
      BY <1>1, <1>2, <1>4, <1>5 DEF Moves
    <3> QED  BY <1>5, <3>1, <3>2
  <2>3. ASSUME NEW f \in Calls, NEW t \in Outputs, AtWork(<<f, t>>)'
        PROVE  call'[f].pc = t
    BY <1>2, <1>4, <1>5, <2>3
  <2> QED  BY <1>1, <1>5, <2>1, <2>2, <2>3 DEF CallsInv
<1>8. EvidenceInv'
  BY <1>1, <1>4, <1>5 DEF IInv, EvidenceInv, Moves, Outputs
<1>9. ClaimInv' /\ RunningIsOwned'
  BY <1>1, <1>3, <1>4 DEF IInv, ClaimInv, RunningIsOwned, Owned, Moves
<1> QED  BY <1>5, <1>6, <1>7, <1>8, <1>9 DEF IInv

\* A crash ends every call, and the writer at work with it.
LEMMA DieKeeps ==
  ASSUME IInv, Die, StoreInv', UNCHANGED <<routed, grant, unsaved>>,
         task' \in [status : TaskStatus, claim : Attempt, attempts : Attempt],
         \A f \in Calls :
           writer'[<<f, "product-brief-md">>].pc # "new" => writer'[<<f, "product-brief">>].pc = "acked",
         \A f \in Calls, t \in Outputs :
           (writer'[<<f, t>>].pc # "new" => routed) /\ ~AtWork(<<f, t>>)',
         task'.status = "completed" => routed /\ \A t \in Outputs : Listed(t)' # {}
  PROVE  IInv'
<1>1. ASSUME NEW f \in Calls
      PROVE  /\ call'[f] \in CallRecord /\ call'[f].claim = call[f].claim
             /\ call'[f].pc \in Over \/ (call'[f].pc = "new" /\ call[f].pc = "new")
  <2>1. call[f] \in CallRecord
    BY DEF IInv, TypeOK
  <2>2. CASE call[f].pc \in Over \cup {"new"}
    BY <2>1, <2>2 DEF Die
  <2>3. CASE call[f].pc \notin Over \cup {"new"}
    <3>1. call'[f] = [call[f] EXCEPT !.pc = "dead"]
      BY <2>3 DEF Die
    <3> QED  BY <2>1, <3>1 DEF CallRecord, Over
  <2> QED  BY <2>2, <2>3
<1>2. call' \in [Calls -> CallRecord]
  BY <1>1 DEF Die
<1>3. crashes' \in 0..MaxCrashes /\ crashes' # 0
  BY Limits DEF Die, IInv, TypeOK
<1>4. TypeOK'
  BY <1>2, <1>3 DEF IInv, TypeOK, StoreInv
<1>5. \A f \in Calls : call'[f].pc \notin Sync \cup {"execute", "model"}
  BY <1>1 DEF Over, Sync, Outputs
<1>6. CallsInv'
  <2>1. \A f \in Calls : call'[f].pc \in {"new", "execute"} => call'[f].claim = 0
    BY <1>1, <1>5 DEF IInv, CallsInv, Over
  <2> QED  BY <1>5, <2>1 DEF CallsInv, Sync, Outputs
<1>7. EvidenceInv' /\ ClaimInv' /\ RunningIsOwned'
  BY <1>3, <1>5 DEF EvidenceInv, ClaimInv, RunningIsOwned, Sync
<1> QED  BY <1>4, <1>6, <1>7 DEF IInv

LEMMA CrashInv == IInv /\ Crash => IInv'
<1> SUFFICES ASSUME IInv, Crash PROVE IInv'
  OBVIOUS
<1>1. Die /\ UNCHANGED <<task, routed, grant, unsaved>>
  BY DEF Crash
<1>2. task' \in [status : TaskStatus, claim : Attempt, attempts : Attempt]
  BY <1>1 DEF IInv, TypeOK
<1>3. ASSUME NEW e \in Calls, NEW s \in Outputs, call[e].pc = s, Store!Stop(<<e, s>>)
      PROVE  IInv'
  <2>1. /\ StoreInv'
        /\ \A f \in Calls :
             writer'[<<f, "product-brief-md">>].pc # "new" => writer'[<<f, "product-brief">>].pc = "acked"
        /\ routed
        /\ \A f \in Calls, t \in Outputs : ~AtWork(<<f, t>>)'
        /\ \A t \in Outputs : Listed(t) \subseteq Listed(t)'
    BY <1>3, WritersKeep
  <2>2. task'.status = "completed" => routed /\ \A t \in Outputs : Listed(t)' # {}
    BY <1>1, <2>1 DEF IInv, EvidenceInv
  <2> QED  BY <1>1, <1>2, <2>1, <2>2, DieKeeps
<1>4. CASE UNCHANGED store /\ \A w \in Writers : writer[w].pc \in {"new", "acked", "refused", "dead"}
  <2>1. StoreInv' /\ \A t \in Outputs : Listed(t)' = Listed(t)
    BY <1>4, StoreSame DEF IInv
  <2>2. writer' = writer
    BY <1>4 DEF store
  <2>3. ASSUME NEW f \in Calls, NEW t \in Outputs
        PROVE  (writer'[<<f, t>>].pc # "new" => routed) /\ ~AtWork(<<f, t>>)'
    BY <1>4, <2>2 DEF IInv, CallsInv, AtWork, Writers, Store!Ended
  <2>4. \A f \in Calls :
          writer'[<<f, "product-brief-md">>].pc # "new" => writer'[<<f, "product-brief">>].pc = "acked"
    BY <2>2 DEF IInv, CallsInv
  <2>5. task'.status = "completed" => routed /\ \A t \in Outputs : Listed(t)' # {}
    BY <1>1, <2>1 DEF IInv, EvidenceInv
  <2> QED  BY <1>1, <1>2, <2>1, <2>3, <2>4, <2>5, DieKeeps
<1> QED  BY <1>3, <1>4 DEF Crash

\* The status alone is saved; nobody was writing.
LEMMA TornInv == IInv /\ Torn => IInv'
<1> SUFFICES ASSUME IInv, Torn PROVE IInv'
  OBVIOUS
<1>1. Die /\ UNCHANGED <<store, routed, grant, unsaved>>
  BY DEF Torn
<1>2. PICK e \in Calls, st \in {"running", "failed", "blocked", "completed"} :
        /\ call[e].pc \in {"execute", "fail", "complete"}
        /\ task' = [task EXCEPT !.status = st]
        /\ st = "completed" => call[e].pc = "complete"
  BY DEF Torn, AfterFailure
<1>3. /\ task' \in [status : TaskStatus, claim : Attempt, attempts : Attempt]
      /\ task'.status = st
  BY <1>2 DEF IInv, TypeOK, TaskStatus
<1>4. StoreInv' /\ \A t \in Outputs : Listed(t)' = Listed(t)
  BY <1>1, StoreSame DEF IInv
<1>5. writer' = writer
  BY <1>1 DEF store
<1>6. ASSUME NEW f \in Calls, NEW t \in Outputs
      PROVE  (writer'[<<f, t>>].pc # "new" => routed) /\ ~AtWork(<<f, t>>)'
  <2>1. call[f].pc = t => f = e
    BY <1>2 DEF IInv, CallsInv, Sync
  <2>2. call[e].pc # t
    BY <1>2 DEF Outputs
  <2>3. AtWork(<<f, t>>)' = AtWork(<<f, t>>)
    BY <1>5 DEF AtWork
  <2> QED  BY <1>5, <2>1, <2>2, <2>3 DEF IInv, CallsInv
<1>7. \A f \in Calls :
        writer'[<<f, "product-brief-md">>].pc # "new" => writer'[<<f, "product-brief">>].pc = "acked"
  BY <1>5 DEF IInv, CallsInv
<1>8. task'.status = "completed" => routed /\ \A t \in Outputs : Listed(t)' # {}
  BY <1>2, <1>3, <1>4 DEF IInv, EvidenceInv
<1> QED  BY <1>1, <1>3, <1>4, <1>6, <1>7, <1>8, DieKeeps

LEMMA LoseInv ==
  ASSUME IInv, NEW s \in Outputs, Lose(s)
  PROVE  IInv'
<1>1. StoreInv'
  BY LoseKeeps DEF Lose, IInv
<1>2. UNCHANGED <<meta, records, inRun, inTask, writer>> /\ UNCHANGED own
  BY DEF Lose, Store!Lose
<1>3. \A t \in Outputs : Listed(t)' = Listed(t)
  BY <1>2 DEF Listed
<1>4. TypeOK'
  BY <1>1, <1>2 DEF IInv, TypeOK, StoreInv, own
<1>5. CallsInv'
  BY <1>2 DEF IInv, CallsInv, AtWork, own
<1>6. EvidenceInv' /\ ClaimInv' /\ RunningIsOwned'
  BY <1>2, <1>3 DEF IInv, EvidenceInv, ClaimInv, RunningIsOwned, Owned, own
<1> QED  BY <1>1, <1>4, <1>5, <1>6 DEF IInv

LEMMA StillInv ==
  ASSUME IInv, UNCHANGED <<store, task, routed, call, unsaved, crashes>>, grant' \in {"none", "valid", "expired"}
  PROVE  IInv'
<1>1. StoreInv' /\ \A s \in Outputs : Listed(s)' = Listed(s)
  BY StoreSame DEF IInv
<1>2. TypeOK'
  BY <1>1 DEF IInv, TypeOK, StoreInv
<1>3. CallsInv'
  BY DEF IInv, CallsInv, AtWork, store
<1>4. EvidenceInv' /\ ClaimInv' /\ RunningIsOwned'
  BY <1>1 DEF IInv, EvidenceInv, ClaimInv, RunningIsOwned, Owned
<1> QED  BY <1>1, <1>2, <1>3, <1>4 DEF IInv

LEMMA InitInv == Init => IInv
<1> SUFFICES ASSUME Init PROVE IInv
  OBVIOUS
<1>1. /\ writer \in [Writers -> [pc : {"new"}, req : Requests]]
      /\ content = [s \in Outputs |-> NoContent] /\ meta = [s \in Outputs |-> NoMeta]
      /\ records = {} /\ inRun = {} /\ inTask = {} /\ lost = {}
  BY DEF Init, Store!Init
<1>2. ASSUME NEW w \in Writers PROVE writer[w].pc = "new" /\ writer[w] \in Store!WriterRecord
  BY <1>1 DEF Store!WriterRecord
<1>3. Store!TypeOK
  BY <1>1, <1>2 DEF Store!TypeOK
<1>4. StoreInv
  BY <1>1, <1>2, <1>3 DEF StoreInv, AnswersFit, FilesInv, RecordsInv, WriterInv, Init,
     Store!InStore, Store!InState
<1>5. 0 \in Attempt /\ 0 < MaxAttempts /\ 0 \in 0..MaxCrashes
  BY Limits DEF Attempt
<1>6. TypeOK
  BY <1>3, <1>5 DEF Init, TypeOK, TaskStatus, CallRecord
<1>7. \A e \in Calls : call[e].pc = "new" /\ call[e].claim = 0
  BY DEF Init
<1>8. CallsInv
  BY <1>2, <1>7 DEF CallsInv, AtWork, Writers, Sync, Outputs
<1>9. EvidenceInv /\ ClaimInv /\ RunningIsOwned
  BY <1>5, <1>7 DEF Init, EvidenceInv, ClaimInv, RunningIsOwned
<1> QED  BY <1>4, <1>6, <1>8, <1>9 DEF IInv

LEMMA NextInv == IInv /\ [Next]_vars => IInv'
<1> SUFFICES ASSUME IInv, [Next]_vars PROVE IInv'
  OBVIOUS
<1>1. ASSUME NEW e \in Calls, Step(e) PROVE IInv'
  BY <1>1, RefuseInv, ClaimKeeps, AgentInv, WriteInv, VerifyInv, CompleteInv, FailInv DEF Step
<1>2. CASE UNCHANGED vars \/ Expire
  BY <1>2, StillInv DEF vars, own, Expire, IInv, TypeOK
<1> QED  BY <1>1, <1>2, ArriveInv, ReconcileInv, CrashInv, TornInv, LoseInv DEF Next

(***************************************************************************)
(* What holds of every behaviour.                                           *)
(***************************************************************************)
LEMMA Invariant == Spec => []IInv
BY InitInv, NextInv, PTL DEF Spec

\* An output is listed once, and what is listed is what the store holds.
LEMMA ListedOnce ==
  ASSUME StoreInv, NEW s \in Outputs, NEW r \in Listed(s)
  PROVE  Listed(s) = {r} /\ meta[s] = r.req /\ (Intact(r) \/ s \in lost)
<1>1. r \in records /\ r.req.slot = s
  BY DEF Listed
<1>2. \A q \in Listed(s) : q = r
  BY <1>1 DEF StoreInv, RecordsInv, Listed
<1>3. meta[s] = r.req /\ r.req # NoMeta
  BY <1>1, RecordFields DEF StoreInv, RecordsInv
<1>4. s \notin lost => content[s] = r.req.content
  BY <1>3 DEF StoreInv, FilesInv
<1> QED  BY <1>1, <1>2, <1>3, <1>4 DEF Intact

\* A completed task, whether by its own call or by reconciliation
\* (_completion_evidence_state), has a route decision and each output listed
\* once, and its Markdown was rendered from its JSON although the two may come
\* from different attempts.
THEOREM CompletedIsSoundAlways == Spec => []CompletedIsSound
<1>1. IInv => CompletedHasEvidence
  <2> SUFFICES ASSUME IInv, task.status = "completed" PROVE CompletedHasEvidence
    BY DEF CompletedHasEvidence
  <2>1. routed /\ \A s \in Outputs : Listed(s) # {}
    BY DEF IInv, EvidenceInv
  <2>2. ASSUME NEW s \in Outputs
        PROVE  \E r \in Listed(s) : Listed(s) = {r} /\ (Intact(r) \/ s \in lost)
    <3>1. PICK r \in Listed(s) : TRUE
      BY <2>1
    <3> QED  BY <3>1, ListedOnce DEF IInv
  <2> QED  BY <2>1, <2>2 DEF CompletedHasEvidence
<1>2. IInv => OutputsAgree
  <2> SUFFICES ASSUME IInv, meta["product-brief"] # NoMeta, meta["product-brief-md"] # NoMeta
               PROVE  meta["product-brief"].content = meta["product-brief-md"].content
    BY DEF OutputsAgree, Outputs
  <2> DEFINE json(e) == <<e, "product-brief">>
  <2> DEFINE markdown(e) == <<e, "product-brief-md">>
  <2>1. "product-brief" \in Outputs /\ "product-brief-md" \in Outputs
    BY DEF Outputs
  <2>2. PICK e \in Calls : /\ writer[markdown(e)].pc # "new"
                           /\ writer[markdown(e)].req = meta["product-brief-md"]
    BY <2>1 DEF IInv, StoreInv, FilesInv
  <2>3. writer[json(e)].pc = "acked"
    BY <2>2 DEF IInv, CallsInv
  <2>4. WriterInv(json(e)) /\ writer[json(e)].req.slot = "product-brief"
    BY <2>1, WriterFields DEF IInv, StoreInv
  <2>5. meta["product-brief"] = writer[json(e)].req
    BY <2>3, <2>4 DEF WriterInv
  <2>6. writer[json(e)].req.content = writer[markdown(e)].req.content
    BY <2>1 DEF IInv, StoreInv, AnswersFit
  <2> QED  BY <2>2, <2>5, <2>6
<1> QED  BY <1>1, <1>2, Invariant, PTL DEF CompletedIsSound

\* No path of a call leaves a RUNNING task with nobody at work on it, but a
\* crash and a completion that could not be saved (execute_ready_task,
\* _record_failure).
THEOREM WorkIsOwnedAlways == Spec => []WorkIsOwned
<1>1. IInv => WorkIsOwned
  BY DEF IInv, WorkIsOwned
<1> QED  BY <1>1, Invariant, PTL

\* What reconcile_task recommends can be done: the evidence it found complete
\* passes the stricter test of complete_after_reconciliation, and a task it says
\* to execute can be claimed.
THEOREM AdviceHoldsAlways == Spec => []AdviceHolds
<1>1. IInv => AdviceHolds
  <2> SUFFICES ASSUME IInv PROVE AdviceHolds
    OBVIOUS
  <2>1. ASSUME Advice = "complete" PROVE Reconcilable
    <3>1. task.status = "running" /\ task.claim # 0 /\ Evidence = "valid"
      BY <2>1 DEF Advice, RunningAdvice
    <3>2. \A s \in Outputs : \E r \in Listed(s) : Intact(r)
      BY <3>1 DEF Evidence
    <3>3. OneOfEach
      BY <3>2, ListedOnce DEF OneOfEach, IInv
    <3> QED  BY <3>1, <3>3 DEF Reconcilable
  <2>2. ASSUME Advice = "execute", crashes = 0 PROVE Claimable
    <3>1. task.status = "ready"
      BY <2>2 DEF Advice, RunningAdvice
    <3> QED  BY <2>2, <3>1 DEF Claimable, IInv, ClaimInv
  <2> QED  BY <2>1, <2>2 DEF AdviceHolds
<1> QED  BY <1>1, Invariant, PTL

=============================================================================
