----------------------------- MODULE Bridge_proofs -----------------------------
(***************************************************************************)
(* Theorems about Bridge, for every set of messages, whatever they ask for,  *)
(* and every number of versions and crashes.                                *)
(***************************************************************************)
EXTENDS Bridge, TLAPS

(***************************************************************************)
(* The inductive invariant.                                                 *)
(***************************************************************************)
\* Between messages, and with one in hand.
Resting  == {"idle", "poll", "listed", "notify", "dead"}
Handling == {"receipt", "business", "submit", "auth", "export", "reply", "again", "failing"}

\* The worker holds the only message it may conclude: the row is in processing,
\* and the sender has no reply before the flag replying says that one may be
\* under way.
MessageInHand ==
  /\ worker.pc \in Handling => msg \in Messages /\ inbox[msg] = "processing"
  /\ worker.pc \in Handling /\ ~worker.replying => <<msg, "reply">> \notin posts
  /\ worker.pc \in {"reply", "again"} => worker.replying
  /\ worker.pc = "warn" => /\ msg \in Messages /\ inbox[msg] = "failed"
                           /\ <<msg, "reply">> \notin posts

\* How far the business call of that message has got.
CallInHand ==
  /\ worker.pc \in {"receipt", "business"} => calls[msg] = 0
  /\ worker.pc \in {"submit", "auth", "export", "reply", "again"} => calls[msg] = 1
  /\ worker.pc \in {"business", "submit", "auth", "export", "reply", "again"} => received[msg]
  /\ worker.pc = "submit" => worker.read = Names[msg]

\* A version is notified of under a claim nobody has used.
NoticeInHand ==
  /\ worker.pc \in {"listed", "notify"} => worker.read \in Versions
  /\ worker.pc = "notify" => worker.read \in claims /\ \A n \in notices : n.version # worker.read

\* Nothing has happened to a message that waits.
WaitingIsUntouched ==
  \A m \in Messages : inbox[m] \in {"none", "stored"} => calls[m] = 0 /\ <<m, "reply">> \notin posts

IInv ==
  /\ TypeOK
  /\ MessageInHand /\ CallInHand /\ NoticeInHand /\ WaitingIsUntouched
  /\ VerdictIsTrue /\ DecisionNamesVersion /\ NoticeIsTrue

(***************************************************************************)
(* Lemmas about the worker.                                                 *)
(***************************************************************************)
LEMMA RestingWorkers ==
  /\ Idle \in WorkerType /\ Idle.pc = "idle" /\ ~Idle.replying
  /\ Polling \in WorkerType /\ Polling.pc = "poll"
  /\ \A pc \in WorkerPC : LET w == [Idle EXCEPT !.pc = pc] IN w \in WorkerType /\ w.pc = pc
<1>1. 0 \in 0..MaxVersion
  BY BridgeAssumption
<1>2. Idle \in WorkerType /\ Idle.pc = "idle" /\ ~Idle.replying
  BY <1>1 DEF Idle, WorkerType, WorkerPC
<1>3. \A pc \in WorkerPC : LET w == [Idle EXCEPT !.pc = pc] IN w \in WorkerType /\ w.pc = pc
  BY <1>2 DEF WorkerType
<1> QED  BY <1>2, <1>3 DEF Polling, WorkerPC

LEMMA GoToFields ==
  ASSUME TypeOK, NEW pc \in WorkerPC, GoTo(pc)
  PROVE  /\ worker' \in WorkerType /\ worker'.pc = pc
         /\ worker'.msg = worker.msg /\ worker'.read = worker.read
         /\ worker'.replying = worker.replying
BY DEF TypeOK, WorkerType, GoTo

\* The parts of the invariant that depend on the place of the worker.
InHand == MessageInHand /\ CallInHand /\ NoticeInHand

\* A worker between messages with no version in hand.
LEMMA NothingInHand ==
  ASSUME worker'.pc \in {"idle", "poll", "dead"}
  PROVE  InHand'
BY DEF InHand, MessageInHand, CallInHand, NoticeInHand, msg, Handling

\* A step that changes nothing but the worker.
LEMMA WorkerStep ==
  ASSUME IInv, worker' \in WorkerType, InHand', crashes' \in 0..MaxCrashes,
         UNCHANGED <<rows, calls, product, posts, told>>
  PROVE  IInv'
BY DEF IInv, InHand, TypeOK, rows, product, told, WaitingIsUntouched, VerdictIsTrue,
   DecisionNamesVersion, NoticeIsTrue

LEMMA RestStep ==
  ASSUME IInv, worker' \in {Idle, Polling}, crashes' = crashes,
         UNCHANGED <<rows, calls, product, posts, told>>
  PROVE  IInv'
<1>1. worker' \in WorkerType /\ worker'.pc \in {"idle", "poll", "dead"}
  BY RestingWorkers
<1> QED  BY <1>1, NothingInHand, WorkerStep DEF IInv, TypeOK

\* The end of a message in hand: what follows is an exception.
LEMMA FailingStep ==
  ASSUME IInv, worker.pc \in Handling, GoTo("failing"), crashes' = crashes,
         UNCHANGED <<rows, calls, product, posts, told>>
  PROVE  IInv'
<1>1. worker' \in WorkerType /\ worker'.pc = "failing" /\ worker'.msg = worker.msg
      /\ worker'.replying = worker.replying
  BY GoToFields DEF IInv, WorkerPC
<1>2. InHand'
  BY <1>1 DEF IInv, InHand, MessageInHand, CallInHand, NoticeInHand, msg, Handling, rows
<1> QED  BY <1>1, <1>2, WorkerStep DEF IInv, TypeOK

(***************************************************************************)
(* Every step keeps the invariant.                                          *)
(***************************************************************************)
LEMMA InitInv == Init => IInv
<1> SUFFICES ASSUME Init PROVE IInv
  OBVIOUS
<1>1. 0 \in 0..MaxCrashes /\ 1 \in 1..MaxVersion
  BY BridgeAssumption
<1>2. TypeOK
  BY <1>1, RestingWorkers DEF Init, TypeOK, Verdict, Versions
<1>3. InHand
  BY RestingWorkers DEF Init, InHand, MessageInHand, CallInHand, NoticeInHand, msg, Handling
<1> QED
  BY <1>2, <1>3 DEF Init, IInv, InHand, WaitingIsUntouched, VerdictIsTrue, DecisionNamesVersion, NoticeIsTrue

LEMMA AcceptInv ==
  ASSUME IInv, NEW m \in Messages, Accept(m)  PROVE IInv'
<1>1. /\ TypeOK /\ inbox[m] = "none"
      /\ inbox' \in [Messages -> {"none", "stored", "processing"} \cup Verdict]
      /\ inbox'[m] = "stored" /\ \A n \in Messages \ {m} : inbox'[n] = inbox[n]
      /\ UNCHANGED <<kind, received, worker, crashes, calls, created, version, pending, decided, posts,
                     claims, notices>>
  BY DEF IInv, TypeOK, Accept, product, told
<1>2. TypeOK'
  BY <1>1 DEF Accept, TypeOK
<1>3. InHand'
  BY <1>1 DEF IInv, InHand, MessageInHand, CallInHand, NoticeInHand, msg, Handling
<1> QED
  BY <1>1, <1>2, <1>3 DEF IInv, InHand, WaitingIsUntouched, VerdictIsTrue, DecisionNamesVersion, NoticeIsTrue

LEMMA ClaimInv ==
  ASSUME IInv, NEW m \in Messages, Claim(m)  PROVE IInv'
<1>1. /\ TypeOK /\ inbox[m] = "stored"
      /\ inbox' \in [Messages -> {"none", "stored", "processing"} \cup Verdict]
      /\ inbox'[m] = "processing" /\ \A n \in Messages \ {m} : inbox'[n] = inbox[n]
      /\ UNCHANGED <<kind, received, arrivals, crashes, calls, created, version, pending, decided, posts,
                     claims, notices>>
  BY DEF IInv, TypeOK, Claim, Oldest, product, told
<1>2. worker' \in WorkerType /\ worker'.pc = "receipt" /\ worker'.msg = m /\ ~worker'.replying
  BY RestingWorkers DEF Claim, WorkerType, WorkerPC
<1>3. TypeOK'
  BY <1>1, <1>2 DEF TypeOK
<1>4. InHand'
  BY <1>1, <1>2 DEF IInv, InHand, MessageInHand, CallInHand, NoticeInHand, msg, Handling, WaitingIsUntouched
<1> QED
  BY <1>1, <1>3, <1>4 DEF IInv, InHand, WaitingIsUntouched, VerdictIsTrue, DecisionNamesVersion, NoticeIsTrue

LEMMA GotReceiptInv ==
  ASSUME IInv, GotReceipt  PROVE IInv'
<1>1. /\ TypeOK /\ worker.pc = "receipt" /\ msg \in Messages
      /\ received' \in [Messages -> BOOLEAN] /\ received'[msg]
      /\ UNCHANGED <<kind, inbox, arrivals, crashes, calls, created, version, pending, decided, posts,
                     claims, notices>>
  BY DEF IInv, TypeOK, GotReceipt, MessageInHand, Handling, At, product, told
<1>2. /\ worker' \in WorkerType /\ worker'.pc = "business" /\ worker'.msg = msg
      /\ worker'.replying = worker.replying
  BY <1>1, GoToFields DEF GotReceipt, WorkerPC, msg
<1>3. TypeOK'
  BY <1>1, <1>2 DEF TypeOK
<1>4. InHand'
  BY <1>1, <1>2 DEF IInv, InHand, MessageInHand, CallInHand, NoticeInHand, msg, Handling
<1>5. \A m \in Messages : received[m] => received'[m]
  BY <1>1 DEF GotReceipt, TypeOK
<1> QED
  BY <1>1, <1>3, <1>4, <1>5
     DEF IInv, InHand, WaitingIsUntouched, VerdictIsTrue, DecisionNamesVersion, NoticeIsTrue

\* The business call of the message in hand starts, once.
LEMMA CallStep ==
  ASSUME IInv, worker.pc = "business", calls' = [calls EXCEPT ![msg] = @ + 1],
         worker' \in WorkerType, worker'.msg = msg, worker'.replying = worker.replying,
         worker'.pc \in {"submit", "auth", "failing"},
         worker'.pc = "submit" => worker'.read = Names[msg],
         created' \in [Messages -> 0..1],
         UNCHANGED <<rows, crashes, version, pending, decided, posts, told>>
  PROVE  IInv'
<1>1. TypeOK /\ msg \in Messages /\ inbox[msg] = "processing" /\ calls[msg] = 0
  BY DEF IInv, MessageInHand, CallInHand, Handling
<1>2. /\ calls' \in [Messages -> Nat] /\ calls'[msg] = 1
      /\ \A m \in Messages \ {msg} : calls'[m] = calls[m]
  BY <1>1 DEF TypeOK
<1>3. TypeOK'
  BY <1>1, <1>2 DEF TypeOK, rows, told
<1>4. InHand'
  BY <1>1, <1>2 DEF IInv, InHand, MessageInHand, CallInHand, NoticeInHand, msg, Handling, rows
<1>5. WaitingIsUntouched'
  BY <1>1, <1>2 DEF IInv, WaitingIsUntouched, rows
<1> QED
  BY <1>1, <1>3, <1>4, <1>5
     DEF IInv, InHand, VerdictIsTrue, DecisionNamesVersion, NoticeIsTrue, rows, told

LEMMA BusinessInv ==
  ASSUME IInv, Create \/ LookUp \/ Query \/ BusinessFails  PROVE IInv'
<1>1. /\ TypeOK /\ worker.pc = "business" /\ calls' = [calls EXCEPT ![msg] = @ + 1]
      /\ worker \in WorkerType /\ created \in [Messages -> 0..1] /\ version \in 1..MaxVersion
      /\ UNCHANGED <<rows, crashes, version, pending, decided, posts, told>>
  BY DEF IInv, TypeOK, Create, LookUp, Query, BusinessFails, At, product
<1>2. /\ created' \in [Messages -> 0..1]
  BY <1>1 DEF Create, LookUp, Query, BusinessFails, product
<1>3. CASE Create \/ Query \/ BusinessFails
  <2>1. GoTo("auth") \/ GoTo("failing")
    BY <1>3 DEF Create, Query, BusinessFails, Answered
  <2> QED  BY <1>1, <1>2, <2>1, GoToFields, CallStep DEF WorkerPC, msg
<1>4. CASE LookUp
  <2>1. PICK pc \in {"submit", "auth"} :
          /\ worker' = [worker EXCEPT !.pc = pc, !.read = version]
          /\ pc = "submit" => Names[msg] = version
    BY <1>4 DEF LookUp
  <2>2. version \in 0..MaxVersion
    BY <1>1, BridgeAssumption
  <2>3. /\ worker' \in WorkerType /\ worker'.pc = pc /\ worker'.msg = msg
        /\ worker'.read = version /\ worker'.replying = worker.replying
    BY <1>1, <2>1, <2>2 DEF WorkerType, WorkerPC, msg
  <2> QED  BY <1>1, <1>2, <2>1, <2>3, CallStep
<1> QED  BY <1>3, <1>4

LEMMA SubmitInv ==
  ASSUME IInv, Submit  PROVE IInv'
<1>1. /\ TypeOK /\ worker.pc = "submit" /\ msg \in Messages /\ version \in 1..MaxVersion
      /\ worker.read = Names[msg]
      /\ UNCHANGED <<kind, inbox, received, arrivals, crashes, calls, created, version, posts,
                     claims, notices>>
  BY DEF IInv, TypeOK, Submit, MessageInHand, CallInHand, Handling, At, rows, told
<1>2. /\ pending' \in BOOLEAN
      /\ decided' = decided \/ (decided' = decided \cup {<<msg, version>>} /\ version = worker.read)
  BY <1>1 DEF Submit, TypeOK
<1>3. /\ worker' \in WorkerType /\ worker'.pc \in {"auth", "failing"} /\ worker'.msg = msg
      /\ worker'.replying = worker.replying
  BY <1>1, GoToFields DEF Submit, Answered, WorkerPC, msg
<1>4. TypeOK'
  BY <1>1, <1>2, <1>3 DEF TypeOK
<1>5. InHand'
  BY <1>1, <1>3 DEF IInv, InHand, MessageInHand, CallInHand, NoticeInHand, msg, Handling
<1>6. DecisionNamesVersion'
  BY <1>1, <1>2 DEF IInv, DecisionNamesVersion
<1> QED
  BY <1>1, <1>4, <1>5, <1>6 DEF IInv, InHand, WaitingIsUntouched, VerdictIsTrue, NoticeIsTrue

LEMMA AuthenticateInv ==
  ASSUME IInv, Authenticate  PROVE IInv'
<1>1. /\ TypeOK /\ worker \in WorkerType /\ worker.pc = "auth" /\ crashes' \in 0..MaxCrashes
      /\ UNCHANGED <<rows, calls, product, posts, told>>
  BY DEF IInv, TypeOK, Authenticate, At
<1>2. /\ worker' \in WorkerType /\ worker'.msg = worker.msg
      /\ \/ worker'.pc = "export" /\ worker'.replying = worker.replying
         \/ worker'.pc = "reply" /\ worker'.replying = TRUE
  BY <1>1 DEF Authenticate, WorkerType, WorkerPC
<1>3. InHand'
  BY <1>1, <1>2 DEF IInv, InHand, MessageInHand, CallInHand, NoticeInHand, msg, Handling, rows
<1> QED  BY <1>1, <1>2, <1>3, WorkerStep

LEMMA ExportInv ==
  ASSUME IInv, Export  PROVE IInv'
<1>1. /\ TypeOK /\ worker \in WorkerType /\ worker.pc = "export" /\ msg \in Messages
      /\ posts' = posts \/ posts' = posts \cup {<<msg, "export">>}
      /\ UNCHANGED <<kind, inbox, received, arrivals, crashes, calls, created, version, pending, decided,
                     claims, notices>>
  BY DEF IInv, TypeOK, Export, MessageInHand, Handling, At, rows, product, told
<1>2. /\ worker' \in WorkerType /\ worker'.msg = worker.msg
      /\ \/ worker'.pc = "failing" /\ worker'.replying = worker.replying
         \/ worker'.pc = "reply" /\ worker'.replying = TRUE
  BY <1>1 DEF Export, GoTo, WorkerType, WorkerPC
<1>3. posts' \in SUBSET (Messages \X {"reply", "warning", "export"})
  BY <1>1 DEF TypeOK
<1>4. TypeOK'
  BY <1>1, <1>2, <1>3 DEF TypeOK
<1>5. \A m \in Messages : /\ <<m, "reply">> \in posts' <=> <<m, "reply">> \in posts
                          /\ <<m, "warning">> \in posts' <=> <<m, "warning">> \in posts
  BY <1>1
<1>6. InHand'
  BY <1>1, <1>2, <1>5 DEF IInv, InHand, MessageInHand, CallInHand, NoticeInHand, msg, Handling
<1>7. WaitingIsUntouched' /\ VerdictIsTrue'
  BY <1>1, <1>5 DEF IInv, WaitingIsUntouched, VerdictIsTrue
<1> QED  BY <1>1, <1>4, <1>6, <1>7 DEF IInv, InHand, DecisionNamesVersion, NoticeIsTrue

LEMMA ReplyInv ==
  ASSUME IInv, Reply  PROVE IInv'
<1>1. /\ TypeOK /\ worker \in WorkerType /\ worker.pc \in {"reply", "again"} /\ worker.replying
      /\ msg \in Messages /\ inbox[msg] = "processing" /\ received[msg]
      /\ posts' = posts \cup {<<msg, "reply">>}
      /\ UNCHANGED <<kind, received, arrivals, crashes, calls, created, version, pending, decided,
                     claims, notices>>
  BY DEF IInv, TypeOK, Reply, MessageInHand, CallInHand, Handling, product, told
<1>2. \/ /\ inbox' = [inbox EXCEPT ![msg] = "replied"]
         /\ worker' = Polling
      \/ /\ inbox' = inbox /\ worker' \in WorkerType /\ worker'.pc \in {"again", "failing"}
         /\ worker'.msg = msg /\ worker'.replying
  BY <1>1, GoToFields DEF Reply, WorkerPC, msg
<1>3. /\ inbox' \in [Messages -> {"none", "stored", "processing"} \cup Verdict]
      /\ inbox'[msg] \in {"processing", "replied"}
      /\ \A m \in Messages \ {msg} : inbox'[m] = inbox[m]
      /\ worker' \in WorkerType
  BY <1>1, <1>2, RestingWorkers DEF TypeOK, Verdict
<1>4. posts' \in SUBSET (Messages \X {"reply", "warning", "export"})
  BY <1>1 DEF TypeOK
<1>5. TypeOK'
  BY <1>1, <1>3, <1>4 DEF TypeOK
<1>6. InHand'
  BY <1>1, <1>2, NothingInHand, RestingWorkers
     DEF IInv, InHand, MessageInHand, CallInHand, NoticeInHand, msg, Handling
<1>7. /\ \A m \in Messages \ {msg} : <<m, "reply">> \in posts' <=> <<m, "reply">> \in posts
      /\ \A m \in Messages : <<m, "warning">> \in posts' <=> <<m, "warning">> \in posts
      /\ <<msg, "reply">> \in posts'
  BY <1>1
<1>8. WaitingIsUntouched'
  BY <1>1, <1>3, <1>7 DEF IInv, WaitingIsUntouched
<1>9. VerdictIsTrue'
  BY <1>1, <1>3, <1>7 DEF IInv, VerdictIsTrue
<1> QED  BY <1>1, <1>5, <1>6, <1>8, <1>9 DEF IInv, InHand, DecisionNamesVersion, NoticeIsTrue

LEMMA ReplyLostInv ==
  ASSUME IInv, ReplyLost  PROVE IInv'
<1>1. /\ TypeOK /\ worker.pc = "reply" /\ worker.replying /\ crashes' \in 0..MaxCrashes
      /\ UNCHANGED <<rows, calls, product, posts, told>>
  BY DEF IInv, TypeOK, MessageInHand, ReplyLost, At
<1>2. /\ worker' \in WorkerType /\ worker'.pc = "again" /\ worker'.msg = msg /\ worker'.replying
  BY <1>1, GoToFields DEF ReplyLost, WorkerPC, msg
<1>3. InHand'
  BY <1>1, <1>2 DEF IInv, InHand, MessageInHand, CallInHand, NoticeInHand, msg, Handling, rows
<1> QED  BY <1>1, <1>2, <1>3, WorkerStep

LEMMA RecordFailureInv ==
  ASSUME IInv, RecordFailure  PROVE IInv'
<1>1. /\ TypeOK /\ worker \in WorkerType /\ worker.pc = "failing"
      /\ msg \in Messages /\ inbox[msg] = "processing"
      /\ inbox' \in [Messages -> {"none", "stored", "processing"} \cup Verdict]
      /\ inbox'[msg] = "failed" /\ \A m \in Messages \ {msg} : inbox'[m] = inbox[m]
      /\ UNCHANGED <<kind, received, arrivals, crashes, calls, created, version, pending, decided, posts,
                     claims, notices>>
  BY DEF IInv, TypeOK, RecordFailure, MessageInHand, Handling, At, Verdict, product, told
<1>2. /\ worker' \in WorkerType
      /\ worker'.pc = "poll" \/ (worker'.pc = "warn" /\ worker'.msg = msg /\ ~worker.replying)
  BY <1>1, RestingWorkers DEF RecordFailure, WorkerType, WorkerPC, msg
<1>3. TypeOK'
  BY <1>1, <1>2 DEF TypeOK
<1>4. InHand'
  BY <1>1, <1>2 DEF IInv, InHand, MessageInHand, CallInHand, NoticeInHand, msg, Handling
<1>5. WaitingIsUntouched' /\ VerdictIsTrue'
  BY <1>1 DEF IInv, WaitingIsUntouched, VerdictIsTrue
<1> QED  BY <1>1, <1>3, <1>4, <1>5 DEF IInv, InHand, DecisionNamesVersion, NoticeIsTrue

LEMMA WarnInv ==
  ASSUME IInv, Warn  PROVE IInv'
<1>1. /\ TypeOK /\ worker.pc = "warn" /\ worker' = Polling
      /\ msg \in Messages /\ inbox[msg] = "failed" /\ <<msg, "reply">> \notin posts
      /\ posts' \in {posts, posts \cup {<<msg, "warning">>}}
      /\ UNCHANGED <<kind, inbox, received, arrivals, crashes, calls, created, version, pending, decided,
                     claims, notices>>
  BY DEF IInv, TypeOK, Warn, MessageInHand, At, rows, product, told
<1>2. posts' \in SUBSET (Messages \X {"reply", "warning", "export"}) /\ worker' \in WorkerType
  BY <1>1, RestingWorkers DEF TypeOK
<1>3. TypeOK'
  BY <1>1, <1>2 DEF TypeOK
<1>4. InHand'
  BY <1>1, RestingWorkers, NothingInHand
<1>5. /\ \A m \in Messages : <<m, "reply">> \in posts' <=> <<m, "reply">> \in posts
      /\ \A m \in Messages \ {msg} : <<m, "warning">> \in posts' <=> <<m, "warning">> \in posts
  BY <1>1
<1>6. WaitingIsUntouched' /\ VerdictIsTrue'
  BY <1>1, <1>5 DEF IInv, WaitingIsUntouched, VerdictIsTrue
<1> QED  BY <1>1, <1>3, <1>4, <1>6 DEF IInv, InHand, DecisionNamesVersion, NoticeIsTrue

LEMMA ListPendingInv ==
  ASSUME IInv, ListPending  PROVE IInv'
<1>1. /\ TypeOK /\ version \in 1..MaxVersion /\ crashes' \in 0..MaxCrashes
      /\ UNCHANGED <<rows, calls, product, posts, told>>
  BY DEF IInv, TypeOK, ListPending
<1>2. version \in 0..MaxVersion /\ version \in Versions
  BY <1>1, BridgeAssumption DEF Versions
<1>3. /\ worker' \in WorkerType
      /\ worker'.pc = "idle" \/ (worker'.pc = "listed" /\ worker'.read = version)
  BY <1>2, RestingWorkers DEF ListPending, WorkerType, WorkerPC
<1>4. InHand'
  BY <1>1, <1>2, <1>3 DEF InHand, MessageInHand, CallInHand, NoticeInHand, Handling, product
<1> QED  BY <1>1, <1>3, <1>4, WorkerStep

LEMMA ClaimNoticeInv ==
  ASSUME IInv, ClaimNotice  PROVE IInv'
<1>1. /\ TypeOK /\ worker.pc = "listed" /\ worker.read \in Versions
      /\ claims' = claims \cup {worker.read}
      /\ UNCHANGED <<kind, inbox, received, arrivals, crashes, calls, created, version, pending, decided,
                     posts, notices>>
  BY DEF IInv, TypeOK, ClaimNotice, NoticeInHand, At, rows, product
<1>2. /\ worker' \in WorkerType
      /\ \/ worker'.pc = "idle"
         \/ worker'.pc = "notify" /\ worker'.read = worker.read /\ worker.read \notin claims
  BY <1>1, GoToFields, RestingWorkers DEF ClaimNotice, WorkerPC
<1>3. TypeOK'
  BY <1>1, <1>2 DEF TypeOK
<1>4. InHand'
  BY <1>1, <1>2 DEF IInv, NoticeIsTrue, InHand, MessageInHand, CallInHand, NoticeInHand, Handling
<1> QED
  BY <1>1, <1>3, <1>4 DEF IInv, InHand, WaitingIsUntouched, VerdictIsTrue, DecisionNamesVersion, NoticeIsTrue

LEMMA NotifyInv ==
  ASSUME IInv, Notify  PROVE IInv'
<1>1. /\ TypeOK /\ worker.pc = "notify" /\ worker.read \in Versions /\ worker' = Idle
      /\ version \in 1..MaxVersion
      /\ worker.read \in claims /\ \A n \in notices : n.version # worker.read
      /\ UNCHANGED <<kind, inbox, received, arrivals, crashes, calls, created, version, pending, decided,
                     posts, claims>>
  BY DEF IInv, TypeOK, Notify, NoticeInHand, At, rows, product
<1>2. PICK summary \in Summary : notices' = notices \cup {[version |-> worker.read, summary |-> summary]}
  BY DEF Notify
<1>3. summary \in {0, worker.read} /\ summary \in 0..MaxVersion
  BY <1>1, BridgeAssumption DEF Summary, Versions
<1> DEFINE o == [version |-> worker.read, summary |-> summary]
<1>4. o \in [version : Versions, summary : 0..MaxVersion] /\ o.version = worker.read /\ o.summary = summary
  BY <1>1, <1>3
<1>5. notices' = notices \cup {o}
  BY <1>2
<1> HIDE DEF o
<1>6. notices' \in SUBSET [version : Versions, summary : 0..MaxVersion] /\ worker' \in WorkerType
  BY <1>1, <1>4, <1>5, RestingWorkers DEF TypeOK
<1>7. TypeOK'
  BY <1>1, <1>6 DEF TypeOK
<1>8. InHand'
  BY <1>1, RestingWorkers, NothingInHand
<1>9. NoticeIsTrue'
  BY <1>1, <1>3, <1>4, <1>5 DEF IInv, NoticeIsTrue
<1> QED
  BY <1>1, <1>7, <1>8, <1>9 DEF IInv, InHand, WaitingIsUntouched, VerdictIsTrue, DecisionNamesVersion

LEMMA CrashInv ==
  ASSUME IInv, Crash  PROVE IInv'
<1>1. worker' \in WorkerType /\ worker'.pc = "dead"
  BY RestingWorkers DEF Crash, WorkerPC
<1>2. crashes' \in 0..MaxCrashes
  BY BridgeAssumption DEF IInv, TypeOK, Crash
<1> QED  BY <1>1, <1>2, NothingInHand, WorkerStep DEF Crash

LEMMA RestartInv ==
  ASSUME IInv, Restart  PROVE IInv'
<1>1. /\ TypeOK /\ worker' = Idle
      /\ inbox' \in [Messages -> {"none", "stored", "processing"} \cup Verdict]
      /\ \A m \in Messages : inbox'[m] = IF inbox[m] = "processing" THEN "uncertain" ELSE inbox[m]
      /\ UNCHANGED <<kind, received, arrivals, crashes, calls, created, version, pending, decided, posts,
                     claims, notices>>
  BY DEF IInv, TypeOK, Restart, Verdict, product, told
<1>2. TypeOK'
  BY <1>1, RestingWorkers DEF TypeOK
<1>3. InHand'
  BY <1>1, RestingWorkers, NothingInHand
<1>4. WaitingIsUntouched' /\ VerdictIsTrue'
  BY <1>1 DEF IInv, WaitingIsUntouched, VerdictIsTrue
<1> QED  BY <1>1, <1>2, <1>3, <1>4 DEF IInv, InHand, DecisionNamesVersion, NoticeIsTrue

\* The run goes on without the bridge.
LEMMA WebInv ==
  ASSUME IInv, WebDecides \/ NewVersion  PROVE IInv'
<1>1. /\ TypeOK /\ version \in 1..MaxVersion /\ version' \in 1..MaxVersion /\ pending' \in BOOLEAN
      /\ decided' \in {decided, decided \cup {<<NoMessage, version>>}}
      /\ UNCHANGED <<kind, inbox, received, arrivals, worker, crashes, calls, created, posts,
                     claims, notices>>
  <2>1. TypeOK /\ version \in 1..MaxVersion
    BY DEF IInv, TypeOK
  <2>2. CASE WebDecides
    BY <2>1, <2>2 DEF WebDecides, rows, told
  <2>3. CASE NewVersion
    <3>1. version + 1 \in 1..MaxVersion
      BY <2>1, <2>3, BridgeAssumption DEF NewVersion
    <3> QED  BY <2>1, <2>3, <3>1 DEF NewVersion, rows, told
  <2> QED  BY <2>2, <2>3
<1>2. decided' \in SUBSET ((Messages \cup {NoMessage}) \X (1..MaxVersion))
  BY <1>1 DEF TypeOK
<1>3. TypeOK'
  BY <1>1, <1>2 DEF TypeOK
<1>4. InHand'
  BY <1>1 DEF IInv, InHand, MessageInHand, CallInHand, NoticeInHand, msg
<1>5. DecisionNamesVersion'
  BY <1>1 DEF IInv, DecisionNamesVersion
<1> QED  BY <1>1, <1>3, <1>4, <1>5 DEF IInv, InHand, WaitingIsUntouched, VerdictIsTrue, NoticeIsTrue

LEMMA NextInv == IInv /\ [Next]_vars => IInv'
<1> SUFFICES ASSUME IInv, [Next]_vars PROVE IInv'
  OBVIOUS
<1>1. CASE Raise({"receipt", "submit", "auth", "export", "reply", "again"})
  BY <1>1, FailingStep DEF Raise, Handling
<1>2. CASE FailureNotRecorded \/ NothingStored \/ NotYet \/ NotifyFails
  BY <1>2, RestStep DEF FailureNotRecorded, NothingStored, NotYet, NotifyFails
<1>3. CASE UNCHANGED vars
  BY <1>3 DEF vars, IInv, TypeOK, MessageInHand, CallInHand, NoticeInHand, msg, WaitingIsUntouched,
     VerdictIsTrue, DecisionNamesVersion, NoticeIsTrue
<1>4. CASE Work
  BY <1>1, <1>2, <1>4, ClaimInv, GotReceiptInv, BusinessInv, SubmitInv, AuthenticateInv, ExportInv,
     ReplyInv, ReplyLostInv, RecordFailureInv, WarnInv, ListPendingInv, ClaimNoticeInv, NotifyInv
     DEF Work
<1> QED  BY <1>3, <1>4, AcceptInv, CrashInv, RestartInv, WebInv DEF Next

(***************************************************************************)
(* What holds of every behaviour.                                           *)
(***************************************************************************)
LEMMA Invariant == Spec => []IInv
BY InitInv, NextInv, PTL DEF Spec

\* Every variable keeps its type; a request of the Product API is created once
\* for each message, and versions are those on offer.
THEOREM TypeOKAlways == Spec => []TypeOK
<1>1. IInv => TypeOK
  BY DEF IInv
<1> QED  BY <1>1, Invariant, PTL

\* The sender is never told both that a message was carried out and that it may
\* not have been, and the row agrees with what was sent (runner.py process_one).
THEOREM VerdictIsTrueAlways == Spec => []VerdictIsTrue
<1>1. IInv => VerdictIsTrue
  BY DEF IInv
<1> QED  BY <1>1, Invariant, PTL

\* A decision takes effect on the version its sender named, on no other
\* (runner.py command and the comparison in the Product API).
THEOREM DecisionNamesVersionAlways == Spec => []DecisionNamesVersion
<1>1. IInv => DecisionNamesVersion
  BY DEF IInv
<1> QED  BY <1>1, Invariant, PTL

\* The owner is told of a version at most once, with that version's own summary
\* (delivery.py Notifications).
THEOREM NoticeIsTrueAlways == Spec => []NoticeIsTrue
<1>1. IInv => NoticeIsTrue
  BY DEF IInv
<1> QED  BY <1>1, Invariant, PTL

(***************************************************************************)
(* The bridge implements MessageConsumption.                                *)
(***************************************************************************)
Stored  == {m \in Messages : inbox[m] # "none"}
Verdicts == [m \in Messages |-> IF inbox[m] \in Verdict THEN inbox[m] ELSE "none"]

\* Only five kinds of steps touch what the refinement mapping reads.
LEMMA QuietSteps ==
  ASSUME [Next]_vars
  PROVE  \/ UNCHANGED <<inbox, calls>>
         \/ \E m \in Messages : Accept(m) \/ Claim(m)
         \/ Create \/ LookUp \/ Query \/ BusinessFails
         \/ Reply \/ RecordFailure \/ Restart
BY DEF Next, Work, Crash, WebDecides, NewVersion, Raise, GotReceipt, Submit, Authenticate, Export,
   ReplyLost, FailureNotRecorded, Warn, NothingStored, NotYet, ListPending, ClaimNotice, Notify,
   NotifyFails, vars, rows

\* A verdict for rows that have none.
LEMMA Concluded ==
  ASSUME TypeOK, NEW S \in SUBSET Messages, NEW v \in Verdict, calls' = calls,
         \A m \in S : inbox[m] = "processing" /\ inbox'[m] = v /\ (v = "replied" => calls[m] = 1),
         \A m \in Messages \ S : inbox'[m] = inbox[m]
  PROVE  Consumption!Next
<1>1. Consumption!Conclude(S, v)
  <2>1. S \subseteq Stored /\ Stored' = Stored
    BY DEF Stored, Verdict
  <2>2. \A m \in S : Verdicts[m] = "none"
    BY DEF Verdicts, Verdict
  <2>3. Verdicts' = [m \in Messages |-> IF m \in S THEN v ELSE Verdicts[m]]
    BY DEF Verdicts, Verdict
  <2> QED  BY <2>1, <2>2, <2>3 DEF Consumption!Conclude, Stored, Verdicts
<1> QED  BY <1>1 DEF Consumption!Next

\* A verdict for one row.
LEMMA ConcludedOne ==
  ASSUME TypeOK, NEW m \in Messages, NEW v \in Verdict, calls' = calls, inbox[m] = "processing",
         v = "replied" => calls[m] = 1, inbox' = [inbox EXCEPT ![m] = v]
  PROVE  Consumption!Next
<1> DEFINE S == {m}
<1>1. S \in SUBSET Messages
  OBVIOUS
<1>2. inbox'[m] = v /\ (\A n \in Messages \ {m} : inbox'[n] = inbox[n])
  BY DEF TypeOK
<1>3. \A n \in S : inbox[n] = "processing" /\ inbox'[n] = v /\ (v = "replied" => calls[n] = 1)
  BY <1>2
<1>4. \A n \in Messages \ S : inbox'[n] = inbox[n]
  BY <1>2
<1> HIDE DEF S
<1> QED  BY <1>1, <1>3, <1>4, Concluded

\* Every behaviour of the bridge is one of MessageConsumption: a stored message
\* is taken up at most once, whatever is delivered again, lost or interrupted,
\* and its verdict is final (inbox.py, runner.py process_one).
THEOREM BridgeImplementsConsumption == Spec => ImplementsConsumption
<1>1. Init => Consumption!Init
  BY DEF Init, Consumption!Init, Verdict
<1>2. IInv /\ [Next]_vars => [Consumption!Next]_(Consumption!vars)
  <2> SUFFICES ASSUME IInv, [Next]_vars PROVE [Consumption!Next]_(Consumption!vars)
    OBVIOUS
  <2> USE DEF IInv
  <2>1. CASE UNCHANGED <<inbox, calls>>
    BY <2>1 DEF Consumption!vars
  <2>2. ASSUME NEW m \in Messages, Accept(m) PROVE Consumption!Next
    <3>1. /\ inbox[m] = "none" /\ inbox'[m] = "stored" /\ calls' = calls
          /\ \A n \in Messages \ {m} : inbox'[n] = inbox[n]
      BY <2>2 DEF Accept, TypeOK
    <3>2. Stored' = Stored \cup {m} /\ Verdicts' = Verdicts
      BY <3>1 DEF Stored, Verdicts, Verdict
    <3>3. Consumption!Store(m)
      BY <3>1, <3>2 DEF Consumption!Store, Stored, Verdicts
    <3> QED  BY <3>3 DEF Consumption!Next
  <2>3. ASSUME NEW m \in Messages, Claim(m) PROVE UNCHANGED Consumption!vars
    <3>1. /\ inbox[m] = "stored" /\ inbox'[m] = "processing" /\ calls' = calls
          /\ \A n \in Messages \ {m} : inbox'[n] = inbox[n]
      BY <2>3 DEF Claim, Oldest, TypeOK
    <3>2. Stored' = Stored /\ Verdicts' = Verdicts
      BY <3>1 DEF Stored, Verdicts, Verdict
    <3> QED  BY <3>1, <3>2 DEF Consumption!vars, Stored, Verdicts
  <2>4. CASE Create \/ LookUp \/ Query \/ BusinessFails
    <3>1. /\ worker.pc = "business" /\ calls' = [calls EXCEPT ![msg] = @ + 1] /\ inbox' = inbox
      BY <2>4 DEF Create, LookUp, Query, BusinessFails, At, rows
    <3>2. msg \in Messages /\ inbox[msg] = "processing" /\ calls[msg] = 0
      BY <3>1 DEF MessageInHand, CallInHand, Handling
    <3>3. calls' = [calls EXCEPT ![msg] = 1]
      BY <3>1, <3>2 DEF TypeOK
    <3>4. msg \in Stored /\ Verdicts[msg] = "none" /\ Stored' = Stored /\ Verdicts' = Verdicts
      BY <3>1, <3>2 DEF Stored, Verdicts, Verdict
    <3>5. Consumption!Consume(msg)
      BY <3>2, <3>3, <3>4 DEF Consumption!Consume, Stored, Verdicts
    <3> QED  BY <3>2, <3>5 DEF Consumption!Next, Consumption!Consume
  <2>5. CASE Reply
    <3>1. CASE inbox' = inbox
      BY <2>5, <3>1 DEF Reply, Consumption!vars
    <3>2. CASE inbox' = [inbox EXCEPT ![msg] = "replied"]
      <4>1. msg \in Messages /\ inbox[msg] = "processing" /\ calls[msg] = 1 /\ calls' = calls
        BY <2>5 DEF Reply, MessageInHand, CallInHand, Handling
      <4> QED  BY <3>2, <4>1, ConcludedOne DEF Verdict
    <3> QED  BY <2>5, <3>1, <3>2 DEF Reply
  <2>6. CASE RecordFailure
    <3>1. /\ msg \in Messages /\ inbox[msg] = "processing" /\ calls' = calls
          /\ inbox' = [inbox EXCEPT ![msg] = "failed"]
      BY <2>6 DEF RecordFailure, MessageInHand, Handling, At
    <3> QED  BY <3>1, ConcludedOne DEF Verdict
  <2>7. CASE Restart
    <3> DEFINE S == {m \in Messages : inbox[m] = "processing"}
    <3>1. /\ calls' = calls
          /\ \A m \in Messages : inbox'[m] = IF inbox[m] = "processing" THEN "uncertain" ELSE inbox[m]
      BY <2>7 DEF Restart
    <3>2. \A m \in Messages \ S : inbox'[m] = inbox[m]
      BY <3>1
    <3>3. \A m \in S : inbox[m] = "processing" /\ inbox'[m] = "uncertain"
      BY <3>1
    <3> QED  BY <3>1, <3>2, <3>3, Concluded DEF Verdict
  <2> QED  BY <2>1, <2>2, <2>3, <2>4, <2>5, <2>6, <2>7, QuietSteps
<1> QED  BY <1>1, <1>2, Invariant, PTL DEF Spec, ImplementsConsumption, Consumption!Spec

=============================================================================
