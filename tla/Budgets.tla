------------------------------- MODULE Budgets -------------------------------
(***************************************************************************)
(* Reservations of model calls: one durable ledger (policy/budget_store.py), *)
(* the in-memory budgets of the requests that share it                      *)
(* (policy/request_policy.py), the client that reserves before it sends      *)
(* (clients/gateway.py) and the Gateway that tries providers                *)
(* (router/selector.py, providers/registry.py).                             *)
(*                                                                          *)
(* A scope is one InvocationBudget: a POST that creates, resumes or retries  *)
(* the run, an execution, or one of these after a restart, in any worker.    *)
(* A reservation is one SQLite transaction, so steps of different scopes     *)
(* interleave between reservations.  A call that was sent lives on in the    *)
(* Gateway whatever becomes of its client.                                   *)
(***************************************************************************)
EXTENDS RequestPolicy, FiniteSets

CONSTANTS
  Stored,     \* the policy the ledger was created with
  Asks,       \* what a call asks for: policy of its client and of the call
  Scopes,
  Calls,
  Costs,      \* the token charges of a call
  Models,     \* the providers a virtual model may reach
  Registered  \* the providers configured at the Gateway

ASSUME PoliciesAreTyped == Stored \in Policy /\ Asks \subseteq Policy /\ Asks # {}
ASSUME CallsAreFinite == IsFiniteSet(Calls)
ASSUME CostsAreNumbers == Costs \subseteq Nat /\ Costs # {}
ASSUME ModelsReachProviders ==
  Models \subseteq SUBSET Providers /\ Models # {} /\ Registered \subseteq Providers
ASSUME SomeScope == Scopes # {}

VARIABLES
  row,   \* the ledger: what has been reserved
  mem,   \* what each scope remembers having reserved
  call   \* the calls

vars == <<row, mem, call>>

Spending == [attempts : Nat, tokens : Nat, cloud : Nat]
Nothing == [attempts |-> 0, tokens |-> 0, cloud |-> 0]

\* paid counts the reservations made for a call; server is the budget the
\* Gateway keeps for it, whose attempts are the provider calls made.
CallRecord ==
  [pc : {"none", "reserve", "sent", "ended"}, scope : Scopes, ask : Asks, cost : Costs,
   model : Models, slots : 0..2, paid : 0..2, server : Spending]

NoCall ==
  [pc |-> "none", scope |-> CHOOSE s \in Scopes : TRUE, ask |-> CHOOSE a \in Asks : TRUE,
   cost |-> CHOOSE t \in Costs : TRUE, model |-> CHOOSE m \in Models : TRUE,
   slots |-> 0, paid |-> 0, server |-> Nothing]

Init ==
  /\ row = Nothing
  /\ mem = [s \in Scopes |-> Nothing]
  /\ call = [c \in Calls |-> NoCall]

(***************************************************************************)
(* Checks and charges, the same for the ledger, a scope and the Gateway.    *)
(***************************************************************************)
Fits(used, p, v, cost) ==
  /\ used.attempts < p.attempts /\ used.tokens + cost <= p.tokens
  /\ v = "step" => used.cloud < p.cloud

\* Mutant: cloud calls are checked but not counted.
SpendNoCloud(used, v, cost) ==
  [attempts |-> used.attempts + 1, tokens |-> used.tokens + cost, cloud |-> used.cloud]

Spend(used, v, cost) ==
  [attempts |-> used.attempts + 1, tokens |-> used.tokens + cost,
   cloud |-> used.cloud + (IF v = "step" THEN 1 ELSE 0)]

\* Providers are taken in the order local, step.
Nth(S, k) == IF k = 1 /\ "local" \in S THEN "local" ELSE "step"

Effective(ask) == Intersect(ask, Stored)
Legal(ask) == {v \in Providers : Allows(Effective(ask), v)}

(***************************************************************************)
(* GatewayClient.complete: one slot for each legal provider, as far as the  *)
(* attempts this scope remembers allow, all reserved before anything is     *)
(* sent.  Within a scope the reservations of a call are not interrupted.    *)
(***************************************************************************)
Begin(c, s, ask, cost, m) ==
  /\ call[c].pc = "none" /\ \A k \in Calls : call[k].scope = s => call[k].pc # "reserve"
  /\ LET remaining == Effective(ask).attempts - mem[s].attempts
         slots == IF remaining <= 0 THEN 0 ELSE Least(remaining, Cardinality(Legal(ask)))
     IN call' = [call EXCEPT ![c] =
          [NoCall EXCEPT !.pc = IF slots > 0 THEN "reserve" ELSE "ended", !.scope = s,
                         !.ask = ask, !.cost = cost, !.model = m, !.slots = slots]]
  /\ UNCHANGED <<row, mem>>

\* Mutant: only the memory of the scope is consulted.
ReserveFromMemory(c) ==
  LET r == call[c]
      v == Nth(Legal(r.ask), r.paid + 1)
  IN /\ r.pc = "reserve" /\ v \in Legal(r.ask)
     /\ Fits(mem[r.scope], Effective(r.ask), v, r.cost)
     /\ row' = Spend(row, v, r.cost)
     /\ mem' = [mem EXCEPT ![r.scope] = Spend(@, v, r.cost)]
     /\ call' = [call EXCEPT ![c].paid = @ + 1,
                             ![c].pc = IF r.paid + 1 = r.slots THEN "sent" ELSE "reserve"]

\* One reservation: the scope checks, then the ledger checks and charges.
Reserve(c) ==
  LET r == call[c]
      v == Nth(Legal(r.ask), r.paid + 1)
      granted == Intersect(Stored, Effective(r.ask))
  IN /\ r.pc = "reserve" /\ Allows(granted, v)
     /\ Fits(mem[r.scope], Effective(r.ask), v, r.cost) /\ Fits(row, granted, v, r.cost)
     /\ row' = Spend(row, v, r.cost)
     /\ mem' = [mem EXCEPT ![r.scope] = Spend(@, v, r.cost)]
     /\ call' = [call EXCEPT ![c].paid = @ + 1,
                             ![c].pc = IF r.paid + 1 = r.slots THEN "sent" ELSE "reserve"]

\* A check failed, time ran out, the ledger was locked, or the process
\* stopped: what was reserved stays reserved.
Refuse(c) ==
  /\ call[c].pc = "reserve"
  /\ call' = [call EXCEPT ![c].pc = "ended"]
  /\ UNCHANGED <<row, mem>>

(***************************************************************************)
(* The Gateway: route_chat and complete_with_fallback.                      *)
(***************************************************************************)
Candidates(c) == Registered \cap call[c].model \cap Legal(call[c].ask)
Sent(c) == [Effective(call[c].ask) EXCEPT !.attempts = call[c].slots]

\* A provider is called; after a failure the next candidate is tried.
Try(c, answered) ==
  LET r == call[c]
      k == r.server.attempts + 1
      v == Nth(Candidates(c), k)
  IN /\ r.pc = "sent" /\ k <= Cardinality(Candidates(c))
     /\ Fits(r.server, Sent(c), v, r.cost)
     /\ call' = [call EXCEPT ![c].server = Spend(@, v, r.cost),
                             ![c].pc = IF answered THEN "ended" ELSE "sent"]
     /\ UNCHANGED <<row, mem>>

\* No candidate is left, the Gateway's own budget refuses, the request was
\* lost, or the Gateway stopped.
GiveUp(c) ==
  /\ call[c].pc = "sent"
  /\ call' = [call EXCEPT ![c].pc = "ended"]
  /\ UNCHANGED <<row, mem>>

Next ==
  \E c \in Calls :
    \/ \E s \in Scopes, ask \in Asks, cost \in Costs, m \in Models : Begin(c, s, ask, cost, m)
    \/ Reserve(c) \/ Refuse(c) \/ GiveUp(c)
    \/ \E answered \in BOOLEAN : Try(c, answered)

Spec == Init /\ [][Next]_vars

(***************************************************************************)
(* Properties.                                                              *)
(***************************************************************************)
\* Type correctness.
TypeOK ==
  /\ row \in Spending
  /\ mem \in [Scopes -> Spending]
  /\ call \in [Calls -> CallRecord]

\* The ledger never shows more than the policy it was created with.
LedgerWithinPolicy ==
  row.attempts <= Stored.attempts /\ row.tokens <= Stored.tokens /\ row.cloud <= Stored.cloud

\* The provider calls that were made, by call and number.
Invocations == {i \in Calls \X (1..2) : i[2] <= call[i[1]].server.attempts}

\* However many scopes share a ledger, however many calls fail over, are
\* abandoned or arrive late: no more provider calls than attempts granted.
NeverOverBudget == Cardinality(Invocations) <= Stored.attempts

\* A provider is called only if the ledger's policy and the asked one allow it.
OnlyGranted ==
  \A i \in Invocations :
    LET v == Nth(Candidates(i[1]), i[2]) IN Allows(Stored, v) /\ Allows(call[i[1]].ask, v)

\* Two providers are legal but one attempt remained: its slot is charged to
\* the first, while the model or the Gateway's configuration may pick the other.
OneSlotForTwo(c) == call[c].slots < Cardinality(Legal(call[c].ask))
CloudCalls == {c \in Calls : \E k \in 1..2 : <<c, k>> \in Invocations /\ Nth(Candidates(c), k) = "step"}

\* Step is called no more often than granted, if each such call had a slot
\* for every legal provider.
CloudWithinQuota == Cardinality({c \in CloudCalls : ~OneSlotForTwo(c)}) <= Stored.cloud
=============================================================================
