------------------------------- MODULE Bridge -------------------------------
(***************************************************************************)
(* The Feishu bridge: the callback thread that stores messages             *)
(* (app/bridge/inbox.py), the worker thread that carries them to the       *)
(* Product API and answers them (app/bridge/runner.py, delivery.py), and   *)
(* crashes of the process.  The platform delivers a message any number of  *)
(* times; an HTTP call can be lost before or after the other side acted;   *)
(* a write to the inbox can fail (sqlite busy).  Between two messages the  *)
(* worker may tell the owner of the version on offer (Notifications).      *)
(*                                                                         *)
(* The Product API is modelled as far as the worker depends on it: runs    *)
(* created per request id, and one run whose version on offer changes.     *)
(***************************************************************************)
EXTENDS Naturals, Sequences, FiniteSets

CONSTANTS
  Messages,    \* message keys tenant/app/message_id
  Mixes,       \* what the messages may ask for: functions from Messages to Kinds
  Names,       \* the version (by approval id) each message names if it decides
  NoMessage,
  MaxVersion,  \* bound on versions offered (model bound only)
  MaxCrashes   \* bound on crashes (model bound only)

\* Commands that only read take the way of an export without its file.
Kinds == {"create", "decide", "export"}

ASSUME BridgeAssumption ==
  /\ Mixes \subseteq [Messages -> Kinds]
  /\ NoMessage \notin Messages
  /\ Names \in [Messages -> Nat]
  /\ MaxVersion \in Nat \ {0} /\ MaxCrashes \in Nat

VARIABLES
  kind,      \* what each message asks for; never changes
  inbox,     \* state column of each message; "none": no row
  received,  \* service_received_at is set
  arrivals,  \* keys in the order of stored_at
  worker,    \* [pc, msg, read, replying]: the worker thread and the version it
             \* read from the Product API; pc "poll": between two messages,
             \* pc "dead": process down
  crashes,
  calls,     \* business_reply() started, per message (history)
  created,   \* runs the Product API created, per message
  version,   \* version on offer
  pending,   \* it waits for a decision
  decided,   \* <<message, version>> of the approvals given; NoMessage: on the Web
  posts,     \* messages the platform accepted: <<message, kind>>, one per uuid
  claims,    \* notifications table: versions with a row (its state is never read)
  notices    \* notifications the platform accepted

vars == <<kind, inbox, received, arrivals, worker, crashes, calls, created, version,
          pending, decided, posts, claims, notices>>

product == <<created, version, pending, decided>>
told    == <<claims, notices>>
rows    == <<kind, inbox, received, arrivals>>

Verdict == {"replied", "failed", "uncertain"}
Idle    == [pc |-> "idle", msg |-> NoMessage, read |-> 0, replying |-> FALSE]
Polling == [Idle EXCEPT !.pc = "poll"]
Versions == 1..MaxVersion
At(pc)  == worker.pc = pc
GoTo(pc) == worker' = [worker EXCEPT !.pc = pc]
msg     == worker.msg

Init ==
  /\ kind \in Mixes
  /\ inbox = [m \in Messages |-> "none"]
  /\ received = [m \in Messages |-> FALSE]
  /\ arrivals = <<>>
  /\ worker = Idle
  /\ crashes = 0
  /\ calls = [m \in Messages |-> 0]
  /\ created = [m \in Messages |-> 0]
  /\ version = 1
  /\ pending = TRUE
  /\ decided = {}
  /\ posts = {}
  /\ claims = {}
  /\ notices = {}

-----------------------------------------------------------------------------
\* Inbox.accept: a key that has a row is left alone.
Accept(m) ==
  /\ ~At("dead")
  /\ inbox[m] = "none"
  /\ inbox' = [inbox EXCEPT ![m] = "stored"]
  /\ arrivals' = Append(arrivals, m)
  /\ UNCHANGED <<kind, received, worker, crashes, calls, product, posts, told>>

\* The oldest stored message.
Oldest(m) ==
  \E i \in DOMAIN arrivals :
    /\ arrivals[i] = m /\ inbox[m] = "stored"
    /\ \A j \in 1..(i - 1) : inbox[arrivals[j]] # "stored"

Claim(m) ==
  /\ At("idle")
  /\ Oldest(m)
  /\ inbox' = [inbox EXCEPT ![m] = "processing"]
  /\ worker' = [Idle EXCEPT !.pc = "receipt", !.msg = m]
  /\ UNCHANGED <<kind, received, arrivals, crashes, calls, product, posts, told>>

\* Any exception of process_one leads to its handler.
Raise(pcs) ==
  /\ worker.pc \in pcs
  /\ GoTo("failing")
  /\ UNCHANGED <<rows, crashes, calls, product, posts, told>>

\* The receipt of the Product API is recorded; business_reply starts.
GotReceipt ==
  /\ At("receipt")
  /\ received' = [received EXCEPT ![msg] = TRUE]
  /\ GoTo("business")
  /\ UNCHANGED <<kind, inbox, arrivals, crashes, calls, product, posts, told>>

\* The answer of the Product API, or the loss of that answer, after it acted.
Answered == GoTo("auth") \/ GoTo("failing")

Create ==
  /\ At("business") /\ kind[msg] = "create"
  /\ calls' = [calls EXCEPT ![msg] = @ + 1]
  /\ created' = [created EXCEPT ![msg] = 1]   \* request_id is derived from the key
  /\ Answered
  /\ UNCHANGED <<rows, crashes, version, pending, decided, posts, told>>

\* Mutant: whatever is on offer is submitted.
LookUpUnchecked ==
  /\ At("business") /\ kind[msg] = "decide"
  /\ calls' = [calls EXCEPT ![msg] = @ + 1]
  /\ worker' = [worker EXCEPT !.pc = "submit", !.read = version]
  /\ UNCHANGED <<rows, crashes, product, posts, told>>

\* command(): the delivery is read, and only the version named is submitted.
LookUp ==
  /\ At("business") /\ kind[msg] = "decide"
  /\ calls' = [calls EXCEPT ![msg] = @ + 1]
  /\ worker' = [worker EXCEPT !.pc = IF Names[msg] = version THEN "submit" ELSE "auth",
                              !.read = version]
  /\ UNCHANGED <<rows, crashes, product, posts, told>>

\* The Product API compares the version again.
Submit ==
  /\ At("submit")
  /\ IF pending /\ version = worker.read
     THEN decided' = decided \cup {<<msg, version>>} /\ pending' = FALSE
     ELSE UNCHANGED <<decided, pending>>
  /\ Answered
  /\ UNCHANGED <<rows, crashes, calls, created, version, posts, told>>

\* Everything else only reads.
Query ==
  /\ At("business") /\ kind[msg] = "export"
  /\ calls' = [calls EXCEPT ![msg] = @ + 1]
  /\ GoTo("auth")
  /\ UNCHANGED <<rows, crashes, product, posts, told>>

\* Lost on the way to the Product API, or refused by it.
BusinessFails ==
  /\ At("business")
  /\ calls' = [calls EXCEPT ![msg] = @ + 1]
  /\ GoTo("failing")
  /\ UNCHANGED <<rows, crashes, product, posts, told>>

Authenticate ==
  /\ At("auth")
  /\ worker' = IF kind[msg] = "export" THEN [worker EXCEPT !.pc = "export"]
               ELSE [worker EXCEPT !.pc = "reply", !.replying = TRUE]
  /\ UNCHANGED <<rows, crashes, calls, product, posts, told>>

\* send_export_attachment: the file is sent if a version is approved.
Export ==
  /\ At("export")
  /\ IF decided = {} THEN UNCHANGED posts ELSE posts' = posts \cup {<<msg, "export">>}
  /\ \/ worker' = [worker EXCEPT !.pc = "reply", !.replying = TRUE]
     \/ GoTo("failing")
  /\ UNCHANGED <<rows, crashes, calls, product, told>>

\* The platform accepts the reply; the answer arrives and is recorded, or times
\* out (one more attempt under the same uuid), or cannot be recorded.
Reply ==
  /\ worker.pc \in {"reply", "again"}
  /\ posts' = posts \cup {<<msg, "reply">>}
  /\ \/ inbox' = [inbox EXCEPT ![msg] = "replied"] /\ worker' = Polling
     \/ UNCHANGED inbox /\ GoTo(IF At("reply") THEN "again" ELSE "failing")
     \/ UNCHANGED inbox /\ GoTo("failing")
  /\ UNCHANGED <<kind, received, arrivals, crashes, calls, product, told>>

\* The reply times out before it reaches the platform.
ReplyLost ==
  /\ At("reply")
  /\ GoTo("again")
  /\ UNCHANGED <<rows, crashes, calls, product, posts, told>>

\* Mutants: a state the table does not know; a warning without a verdict.
RecordFailureUnknown ==
  /\ At("failing")
  /\ inbox' = [inbox EXCEPT ![msg] = "error"]
  /\ worker' = IF worker.replying THEN Polling ELSE [worker EXCEPT !.pc = "warn"]
  /\ UNCHANGED <<kind, received, arrivals, crashes, calls, product, posts, told>>

RecordFailureLate ==
  /\ At("failing")
  /\ worker' = IF worker.replying THEN Polling ELSE [worker EXCEPT !.pc = "warn"]
  /\ UNCHANGED <<rows, crashes, calls, product, posts, told>>

\* The handler: state failed, and one warning unless a reply may be under way.
RecordFailure ==
  /\ At("failing")
  /\ inbox' = [inbox EXCEPT ![msg] = "failed"]
  /\ worker' = IF worker.replying THEN Polling ELSE [worker EXCEPT !.pc = "warn"]
  /\ UNCHANGED <<kind, received, arrivals, crashes, calls, product, posts, told>>

\* Mutant: the exception ends the worker thread.
FailureEndsWorker ==
  /\ At("failing")
  /\ worker' = [Idle EXCEPT !.pc = "ended"]
  /\ UNCHANGED <<rows, crashes, calls, product, posts, told>>

\* record() itself raises: process_one ends and the row stays in processing.
FailureNotRecorded ==
  /\ At("failing")
  /\ worker' = Idle
  /\ UNCHANGED <<rows, crashes, calls, product, posts, told>>

Warn ==
  /\ At("warn")
  /\ posts' \in {posts, posts \cup {<<msg, "warning">>}}
  /\ worker' = Polling
  /\ UNCHANGED <<rows, crashes, calls, product, told>>

-----------------------------------------------------------------------------
(* Notifications: send_pending, at most every ten seconds. *)

NothingStored ==
  /\ At("idle")
  /\ \A m \in Messages : inbox[m] # "stored"
  /\ worker' = Polling
  /\ UNCHANGED <<rows, crashes, calls, product, posts, told>>

NotYet ==
  /\ At("poll")
  /\ worker' = Idle
  /\ UNCHANGED <<rows, crashes, calls, product, posts, told>>

\* The versions that wait for the owner: here the one on offer, if any.
ListPending ==
  /\ At("poll")
  /\ worker' = IF pending THEN [Idle EXCEPT !.pc = "listed", !.read = version] ELSE Idle
  /\ UNCHANGED <<rows, crashes, calls, product, posts, told>>

\* Mutant: the claim is written when the notification was accepted.
ClaimNoticeLater ==
  /\ At("listed")
  /\ IF worker.read \in claims THEN worker' = Idle ELSE GoTo("notify")
  /\ UNCHANGED <<rows, crashes, calls, product, posts, told>>

\* The claim is durable before anything is sent; a claimed version is left alone.
ClaimNotice ==
  /\ At("listed")
  /\ claims' = claims \cup {worker.read}
  /\ IF worker.read \in claims THEN worker' = Idle ELSE GoTo("notify")
  /\ UNCHANGED <<rows, crashes, calls, product, posts, notices>>

\* The candidate is read again; it is summarised if it is the version listed.
Summary == {0} \cup ({version} \cap {worker.read})

\* The platform accepts the notification; whether the answer arrives and is
\* recorded makes no difference to what follows.
Notify ==
  /\ At("notify")
  /\ \E summary \in Summary :
       notices' = notices \cup {[version |-> worker.read, summary |-> summary]}
  /\ worker' = Idle
  /\ UNCHANGED <<rows, crashes, calls, product, posts, claims>>

\* Any call before that fails: the claim stays, the worker goes on.
NotifyFails ==
  /\ worker.pc \in {"poll", "listed", "notify"}
  /\ worker' = Idle
  /\ UNCHANGED <<rows, crashes, calls, product, posts, told>>

-----------------------------------------------------------------------------
Crash ==
  /\ ~At("dead")
  /\ crashes < MaxCrashes
  /\ crashes' = crashes + 1
  /\ worker' = [Idle EXCEPT !.pc = "dead"]
  /\ UNCHANGED <<rows, calls, product, posts, told>>

\* Mutant: an interrupted message is taken up again.
RestartReplays ==
  /\ At("dead")
  /\ inbox' = [m \in Messages |-> IF inbox[m] = "processing" THEN "stored" ELSE inbox[m]]
  /\ worker' = Idle
  /\ UNCHANGED <<kind, received, arrivals, crashes, calls, product, posts, told>>

\* Inbox.__init__: an interrupted consumer is never re-executed.
Restart ==
  /\ At("dead")
  /\ inbox' = [m \in Messages |-> IF inbox[m] = "processing" THEN "uncertain" ELSE inbox[m]]
  /\ worker' = Idle
  /\ UNCHANGED <<kind, received, arrivals, crashes, calls, product, posts, told>>

\* The run goes on without the bridge: decisions on the Web, new versions.
WebDecides ==
  /\ pending
  /\ pending' = FALSE
  /\ decided' \in {decided, decided \cup {<<NoMessage, version>>}}
  /\ UNCHANGED <<rows, worker, crashes, calls, created, version, posts, told>>

NewVersion ==
  /\ ~pending /\ decided = {} /\ version < MaxVersion
  /\ pending' = TRUE
  /\ version' = version + 1
  /\ UNCHANGED <<rows, worker, crashes, calls, created, decided, posts, told>>

-----------------------------------------------------------------------------
Work ==
  \/ \E m \in Messages : Claim(m)
  \/ Raise({"receipt", "submit", "auth", "export", "reply", "again"})
  \/ GotReceipt \/ Create \/ LookUp \/ Submit \/ Query \/ BusinessFails
  \/ Authenticate \/ Export \/ Reply \/ ReplyLost
  \/ RecordFailure \/ FailureNotRecorded \/ Warn
  \/ NothingStored \/ NotYet \/ ListPending \/ ClaimNotice \/ Notify \/ NotifyFails

Next ==
  \/ \E m \in Messages : Accept(m)
  \/ Work \/ Crash \/ Restart \/ WebDecides \/ NewVersion

Spec == Init /\ [][Next]_vars

\* The worker loop goes on, every HTTP call has a timeout, the ten seconds pass
\* again and again, and a process that died is started again.
FairSpec == Spec /\ WF_vars(Work) /\ WF_vars(Restart) /\ SF_vars(ListPending) /\ SF_vars(ClaimNotice)

-----------------------------------------------------------------------------
WorkerPC == {"idle", "poll", "listed", "notify", "dead", "receipt", "business", "submit", "auth", "export",
             "reply", "again", "failing", "warn"}

WorkerType ==
  [pc : WorkerPC, msg : Messages \cup {NoMessage}, read : 0..MaxVersion, replying : BOOLEAN]

TypeOK ==
  /\ kind \in Mixes
  /\ inbox \in [Messages -> {"none", "stored", "processing"} \cup Verdict]
  /\ received \in [Messages -> BOOLEAN]
  /\ arrivals \in Seq(Messages)
  /\ worker \in WorkerType
  /\ crashes \in 0..MaxCrashes
  /\ calls \in [Messages -> Nat]
  /\ created \in [Messages -> 0..1]
  /\ version \in 1..MaxVersion
  /\ pending \in BOOLEAN
  /\ decided \in SUBSET ((Messages \cup {NoMessage}) \X (1..MaxVersion))
  /\ posts \in SUBSET (Messages \X {"reply", "warning", "export"})
  /\ claims \in SUBSET Versions
  /\ notices \in SUBSET [version : Versions, summary : 0..MaxVersion]

\* A message never gets both its reply and the warning that it may not have been
\* carried out; a warned sender's message is on record as failed, and a row in
\* state replied has a service receipt and a reply the platform accepted
\* (process_one: reply_started and the order of its records).
VerdictIsTrue ==
  \A m \in Messages :
    /\ ~({<<m, "reply">>, <<m, "warning">>} \subseteq posts)
    /\ <<m, "warning">> \in posts => inbox[m] = "failed"
    /\ inbox[m] = "replied" => received[m] /\ <<m, "reply">> \in posts

\* A decision takes effect on the version its sender named and on no other,
\* although the worker reads the delivery first and submits later.
DecisionNamesVersion ==
  \A p \in decided : p[1] # NoMessage => p[2] = Names[p[1]]

\* The owner is told of a version at most once, crashes and lost answers
\* included, and the summary is of that version's own candidate
\* (Notifications: "ambiguous sends are not replayed").
NoticeIsTrue ==
  /\ \A n \in notices : n.summary \in {0, n.version}
  /\ \A n, o \in notices : n.version = o.version => n = o
  /\ \A n \in notices : n.version \in claims

\* With the worker and restarts fair, a stored message is taken up, in turn, and
\* a version that goes on waiting for its owner is claimed for notification.
EverythingIsTakenUp ==
  /\ \A m \in Messages : inbox[m] = "stored" ~> inbox[m] # "stored"
  /\ pending ~> (version \in claims \/ ~pending)

\* Every delivery and crash history is one of MessageConsumption.
Consumption == INSTANCE MessageConsumption WITH
  Verdicts <- Verdict, NoVerdict <- "none",
  stored <- {m \in Messages : inbox[m] # "none"},
  consumed <- calls,
  verdict <- [m \in Messages |-> IF inbox[m] \in Verdict THEN inbox[m] ELSE "none"]

ImplementsConsumption == Consumption!Spec
=============================================================================
