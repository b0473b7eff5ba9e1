---------------------------- MODULE Budgets_proofs ----------------------------
(***************************************************************************)
(* Theorems about Budgets, for every policy, number of scopes and calls.    *)
(***************************************************************************)
EXTENDS Budgets, FiniteSetTheorems, TLAPS

(***************************************************************************)
(* Policies.                                                                *)
(***************************************************************************)
LEMMA IntersectType ==
  ASSUME NEW p \in Policy, NEW q \in Policy
  PROVE  Intersect(p, q) \in Policy
BY DEF Intersect, Policy, Least, Most, Providers, Permissions

\* Candidates and nested constraints can narrow a grant, never widen it
\* (RequestPolicy.intersect).
THEOREM IntersectNarrows ==
  ASSUME NEW p \in Policy, NEW q \in Policy, NEW v \in Providers
  PROVE  /\ Allows(Intersect(p, q), v) => Allows(p, v) /\ Allows(q, v)
         /\ Intersect(p, q).attempts <= p.attempts /\ Intersect(p, q).attempts <= q.attempts
         /\ Intersect(p, q).tokens <= p.tokens /\ Intersect(p, q).tokens <= q.tokens
         /\ Intersect(p, q).cloud <= p.cloud /\ Intersect(p, q).cloud <= q.cloud
BY DEF Intersect, Allows, Policy, Least, Most, Providers, Permissions

LEMMA EffectiveType ==
  ASSUME NEW ask \in Asks
  PROVE  ask \in Policy /\ Stored \in Policy /\ Effective(ask) \in Policy
BY PoliciesAreTyped, IntersectType DEF Effective

\* The k-th of a set of providers is one of them.
LEMMA NthIsMember ==
  ASSUME NEW S \in SUBSET Providers, NEW k \in 1..2
  PROVE  /\ IsFiniteSet(S) /\ Cardinality(S) \in 0..2
         /\ k <= Cardinality(S) => Nth(S, k) \in S
         /\ "step" \in S => Nth(S, Cardinality(S)) = "step" /\ Cardinality(S) \in 1..2
         /\ Nth(S, 1) = "step" /\ 1 <= Cardinality(S) => Cardinality(S) = 1
<1> DEFINE L == "local"  T == "step"
<1>1. IsFiniteSet({}) /\ Cardinality({}) = 0
  BY FS_EmptySet
<1>2. /\ IsFiniteSet({L}) /\ Cardinality({L}) = 1
      /\ IsFiniteSet({T}) /\ Cardinality({T}) = 1
  BY FS_Singleton
<1>3. IsFiniteSet({L} \cup {T}) /\ Cardinality({L} \cup {T}) = 2
  <2>1. T \notin {L}
    OBVIOUS
  <2>2. /\ IsFiniteSet({L} \cup {T})
        /\ Cardinality({L} \cup {T}) = IF T \in {L} THEN Cardinality({L}) ELSE Cardinality({L}) + 1
    BY <1>2, FS_AddElement
  <2> QED  BY <1>2, <2>1, <2>2
<1>4. S = {} \/ S = {L} \/ S = {T} \/ S = {L} \cup {T}
  BY DEF Providers
<1>5. CASE S = {}
  BY <1>1, <1>5
<1>6. CASE S = {L}
  BY <1>2, <1>6 DEF Nth
<1>7. CASE S = {T}
  BY <1>2, <1>7 DEF Nth
<1>8. CASE S = {L} \cup {T}
  BY <1>3, <1>8 DEF Nth
<1> QED  BY <1>4, <1>5, <1>6, <1>7, <1>8

LEMMA SpendType ==
  ASSUME NEW u \in Spending, NEW v, NEW cost \in Nat
  PROVE  /\ Spend(u, v, cost) \in Spending
         /\ Spend(u, v, cost).attempts = u.attempts + 1
         /\ Spend(u, v, cost).tokens = u.tokens + cost
         /\ Spend(u, v, cost).cloud = u.cloud + (IF v = "step" THEN 1 ELSE 0)
BY DEF Spend, Spending

LEMMA NoCallType ==
  /\ NoCall \in CallRecord
  /\ NoCall.pc = "none" /\ NoCall.paid = 0 /\ NoCall.slots = 0 /\ NoCall.server = Nothing
<1>1. /\ (CHOOSE s \in Scopes : TRUE) \in Scopes /\ (CHOOSE a \in Asks : TRUE) \in Asks
      /\ (CHOOSE t \in Costs : TRUE) \in Costs /\ (CHOOSE m \in Models : TRUE) \in Models
  BY SomeScope, PoliciesAreTyped, CostsAreNumbers, ModelsReachProviders
<1> QED  BY <1>1 DEF NoCall, CallRecord, Nothing, Spending

LEMMA LegalType ==
  ASSUME NEW r \in CallRecord
  PROVE  Legal(r.ask) \in SUBSET Providers
BY DEF Legal

(***************************************************************************)
(* The inductive invariant.                                                 *)
(***************************************************************************)
\* The reservations made, by call and number, and those made for Step.
Charges == {i \in Calls \X (1..2) : i[2] <= call[i[1]].paid}
CloudCharged ==
  {c \in Calls : \E k \in 1..2 : k <= call[c].paid /\ Nth(Legal(call[c].ask), k) = "step"}

\* A call is sent when all its slots are paid, and the Gateway makes no more
\* provider calls than there are slots and candidates.
CallInv(r) ==
  /\ r.paid <= r.slots /\ r.slots <= Cardinality(Legal(r.ask))
  /\ r.server.attempts <= r.slots
  /\ r.server.attempts <= Cardinality(Registered \cap r.model \cap Legal(r.ask))
  /\ r.server.attempts > 0 => r.paid = r.slots
  /\ r.pc = "none" => r.paid = 0
  /\ r.pc = "reserve" => r.paid < r.slots /\ r.server.attempts = 0
  /\ r.pc = "sent" => r.paid = r.slots

LedgerInv ==
  /\ row.attempts = Cardinality(Charges)
  /\ row.cloud = Cardinality(CloudCharged)

IInv ==
  /\ TypeOK
  /\ LedgerWithinPolicy
  /\ LedgerInv
  /\ \A c \in Calls : CallInv(call[c])

LEMMA ChargesAreFinite ==
  ASSUME TypeOK
  PROVE  IsFiniteSet(Charges) /\ IsFiniteSet(CloudCharged)
<1>1. IsFiniteSet(Calls \X (1..2))
  <2>1. IsFiniteSet(1..2)
    BY 1 \in Int, 2 \in Int, FS_Interval
  <2> QED  BY <2>1, CallsAreFinite, FS_Product
<1>2. Charges \in SUBSET (Calls \X (1..2)) /\ CloudCharged \in SUBSET Calls
  BY DEF Charges, CloudCharged
<1> QED  BY <1>1, <1>2, CallsAreFinite, FS_Subset

\* A step that replaces one call and charges nothing.
LEMMA Uncharged ==
  ASSUME IInv, NEW c \in Calls, NEW r \in CallRecord, call' = [call EXCEPT ![c] = r],
         UNCHANGED <<row, mem>>, CallInv(r), r.paid = call[c].paid,
         r.ask = call[c].ask \/ r.paid = 0
  PROVE  IInv'
<1> USE DEF IInv
<1>1. /\ call' \in [Calls -> CallRecord] /\ call'[c] = r
      /\ \A k \in Calls \ {c} : call'[k] = call[k]
  BY DEF TypeOK
<1>2. TypeOK' /\ LedgerWithinPolicy'
  BY <1>1 DEF TypeOK, LedgerWithinPolicy
<1>3. \A k \in Calls : call'[k].paid = call[k].paid
  BY <1>1
<1>4. Charges' = Charges
  BY <1>3 DEF Charges
<1>5. CloudCharged' = CloudCharged
  <2>1. ASSUME NEW k \in Calls, NEW n \in 1..2
        PROVE  (n <= call'[k].paid /\ Nth(Legal(call'[k].ask), n) = "step")
                 <=> (n <= call[k].paid /\ Nth(Legal(call[k].ask), n) = "step")
    <3>1. CASE k # c
      BY <1>1, <3>1
    <3>2. CASE k = c /\ r.ask = call[c].ask
      BY <1>1, <3>2
    <3>3. CASE k = c /\ r.paid = 0
      BY <1>1, <3>3
    <3> QED  BY <3>1, <3>2, <3>3
  <2> QED  BY <2>1 DEF CloudCharged
<1>6. LedgerInv'
  BY <1>4, <1>5 DEF LedgerInv
<1>7. \A k \in Calls : CallInv(call'[k])
  BY <1>1
<1>8. (\A k \in Calls : CallInv(call[k]))'
  BY <1>7 DEF CallInv
<1> QED  BY <1>2, <1>6, <1>8

LEMMA InitInv == Init => IInv
<1> SUFFICES ASSUME Init PROVE IInv
  OBVIOUS
<1>1. \A c \in Calls : call[c] = NoCall
  BY DEF Init
<1>2. TypeOK
  BY NoCallType DEF Init, TypeOK, Nothing, Spending
<1>3. row.attempts = 0 /\ row.tokens = 0 /\ row.cloud = 0
  BY DEF Init, Nothing
<1>4. LedgerWithinPolicy
  BY <1>3, PoliciesAreTyped DEF LedgerWithinPolicy, Policy
<1>5. Charges = {} /\ CloudCharged = {}
  BY <1>1, NoCallType DEF Charges, CloudCharged
<1>6. LedgerInv
  BY <1>3, <1>5, FS_EmptySet DEF LedgerInv
<1>7. \A c \in Calls : CallInv(call[c])
  <2>1. NoCall.server.attempts = 0
    BY NoCallType DEF Nothing
  <2>2. /\ Cardinality(Legal(NoCall.ask)) \in 0..2
        /\ Cardinality(Registered \cap NoCall.model \cap Legal(NoCall.ask)) \in 0..2
    BY NthIsMember, 1 \in 1..2, Legal(NoCall.ask) \in SUBSET Providers,
       Registered \cap NoCall.model \cap Legal(NoCall.ask) \in SUBSET Providers DEF Legal
  <2> QED  BY <1>1, <2>1, <2>2, NoCallType DEF CallInv
<1> QED  BY <1>2, <1>4, <1>6, <1>7 DEF IInv

LEMMA BeginStep ==
  ASSUME IInv, NEW c \in Calls, NEW s \in Scopes, NEW ask \in Asks, NEW cost \in Costs,
         NEW m \in Models, Begin(c, s, ask, cost, m)
  PROVE  IInv'
<1> DEFINE remaining == Effective(ask).attempts - mem[s].attempts
           slots == IF remaining <= 0 THEN 0 ELSE Least(remaining, Cardinality(Legal(ask)))
           r == [NoCall EXCEPT !.pc = IF slots > 0 THEN "reserve" ELSE "ended", !.scope = s,
                               !.ask = ask, !.cost = cost, !.model = m, !.slots = slots]
<1>1. call' = [call EXCEPT ![c] = r] /\ call[c].pc = "none" /\ UNCHANGED <<row, mem>>
  BY DEF Begin
<1>2. Effective(ask).attempts \in Nat /\ mem[s].attempts \in Nat
  BY EffectiveType DEF Policy, IInv, TypeOK, Spending
<1>3. Cardinality(Legal(ask)) \in 0..2
  BY NthIsMember, 1 \in 1..2, Legal(ask) \in SUBSET Providers DEF Legal
<1>4. slots \in 0..2 /\ slots <= Cardinality(Legal(ask))
  BY <1>2, <1>3 DEF Least
<1> HIDE DEF slots
<1>5. /\ r \in CallRecord /\ r.paid = 0 /\ r.slots = slots /\ r.ask = ask /\ r.model = m
      /\ r.server = Nothing /\ r.pc = IF slots > 0 THEN "reserve" ELSE "ended"
  BY <1>4, NoCallType DEF NoCall, CallRecord
<1>6. Cardinality(Registered \cap m \cap Legal(ask)) \in 0..2
  BY NthIsMember, 1 \in 1..2, Registered \cap m \cap Legal(ask) \in SUBSET Providers DEF Legal
<1> HIDE DEF r
<1>7. CallInv(r)
  <2>1. r.server.attempts = 0
    BY <1>5 DEF Nothing
  <2> QED  BY <1>4, <1>5, <1>6, <2>1 DEF CallInv
<1>8. call[c].paid = 0
  BY <1>1 DEF IInv, CallInv
<1> QED  BY <1>1, <1>5, <1>7, <1>8, Uncharged

LEMMA RefuseStep ==
  ASSUME IInv, NEW c \in Calls, Refuse(c) \/ GiveUp(c)
  PROVE  IInv'
<1> DEFINE r == [call[c] EXCEPT !.pc = "ended"]
<1>1. call[c] \in CallRecord /\ CallInv(call[c])
  BY DEF IInv, TypeOK
<1>2. /\ r \in CallRecord /\ r.pc = "ended" /\ r.paid = call[c].paid /\ r.slots = call[c].slots
      /\ r.ask = call[c].ask /\ r.model = call[c].model /\ r.server = call[c].server
  BY <1>1 DEF CallRecord
<1>3. call' = [call EXCEPT ![c] = r] /\ UNCHANGED <<row, mem>>
  BY DEF Refuse, GiveUp
<1> HIDE DEF r
<1>4. CallInv(r)
  BY <1>1, <1>2 DEF CallInv
<1> QED  BY <1>2, <1>3, <1>4, Uncharged

LEMMA TryStep ==
  ASSUME IInv, NEW c \in Calls, NEW answered \in BOOLEAN, Try(c, answered)
  PROVE  IInv'
<1> DEFINE k == call[c].server.attempts + 1
           v == Nth(Candidates(c), k)
           r == [call[c] EXCEPT !.server = Spend(@, v, call[c].cost),
                                !.pc = IF answered THEN "ended" ELSE "sent"]
<1>1. call[c] \in CallRecord /\ CallInv(call[c]) /\ call[c].cost \in Nat /\ call[c].server \in Spending
  BY CostsAreNumbers DEF IInv, TypeOK, CallRecord
<1>2. /\ call[c].pc = "sent" /\ k <= Cardinality(Candidates(c))
      /\ Fits(call[c].server, Sent(c), v, call[c].cost)
      /\ call' = [call EXCEPT ![c] = r] /\ UNCHANGED <<row, mem>>
  BY DEF Try
<1>3. Sent(c).attempts = call[c].slots
  <2>1. Effective(call[c].ask) \in Policy
    BY <1>1, EffectiveType DEF CallRecord
  <2> QED  BY <2>1 DEF Sent, Policy
<1>4. call[c].server.attempts < call[c].slots
  BY <1>2, <1>3 DEF Fits
<1>5. Spend(call[c].server, v, call[c].cost) \in Spending
      /\ Spend(call[c].server, v, call[c].cost).attempts = k
  BY <1>1, SpendType
<1> HIDE DEF v
<1>6. /\ r \in CallRecord /\ r.pc \in {"ended", "sent"} /\ r.paid = call[c].paid
      /\ r.slots = call[c].slots /\ r.ask = call[c].ask /\ r.model = call[c].model
      /\ r.server.attempts = k
  BY <1>1, <1>5 DEF CallRecord
<1> HIDE DEF r
<1>7. CallInv(r)
  <2>1. r.server.attempts \in Nat /\ r.server.attempts <= r.slots
    BY <1>1, <1>4, <1>6 DEF Spending, CallRecord
  <2>2. r.server.attempts <= Cardinality(Registered \cap r.model \cap Legal(r.ask))
    BY <1>2, <1>6 DEF Candidates
  <2> QED  BY <1>1, <1>2, <1>6, <2>1, <2>2 DEF CallInv
<1> QED  BY <1>2, <1>6, <1>7, Uncharged

PayFor(q, n, pc) == [q EXCEPT !.paid = n, !.pc = pc]

LEMMA PaidField ==
  ASSUME NEW q \in CallRecord, NEW n \in 0..2, NEW pc \in {"reserve", "sent"}
  PROVE  /\ PayFor(q, n, pc) \in CallRecord /\ PayFor(q, n, pc).paid = n
         /\ PayFor(q, n, pc).pc = pc /\ PayFor(q, n, pc).slots = q.slots
         /\ PayFor(q, n, pc).ask = q.ask /\ PayFor(q, n, pc).model = q.model
         /\ PayFor(q, n, pc).server = q.server
BY DEF CallRecord, PayFor

LEMMA ReserveStep ==
  ASSUME IInv, NEW c \in Calls, Reserve(c)
  PROVE  IInv'
<1> DEFINE L == Legal(call[c].ask)
           n == call[c].paid + 1
           v == Nth(L, n)
           cost == call[c].cost
           s == call[c].scope
           granted == Intersect(Stored, Effective(call[c].ask))
           r == [call[c] EXCEPT !.paid = @ + 1,
                                !.pc = IF call[c].paid + 1 = call[c].slots THEN "sent" ELSE "reserve"]
<1>1. /\ call[c] \in CallRecord /\ CallInv(call[c]) /\ cost \in Nat /\ s \in Scopes
      /\ row \in Spending /\ mem[s] \in Spending /\ call[c].ask \in Asks
  BY CostsAreNumbers DEF IInv, TypeOK, CallRecord
<1>2. /\ call[c].pc = "reserve" /\ Fits(row, granted, v, cost) /\ row' = Spend(row, v, cost)
      /\ mem' = [mem EXCEPT ![s] = Spend(@, v, cost)] /\ call' = [call EXCEPT ![c] = r]
  BY DEF Reserve
<1>3. /\ n \in 1..2 /\ n <= call[c].slots /\ call[c].slots <= Cardinality(L)
      /\ call[c].server.attempts = 0 /\ call[c].slots \in 0..2 /\ call[c].paid \in 0..2
  BY <1>1, <1>2 DEF CallInv, CallRecord
<1>4. L \in SUBSET Providers
  BY DEF Legal
<1>5. /\ Cardinality(L) \in 0..2
      /\ Nth(L, 1) = "step" /\ 1 <= Cardinality(L) => Cardinality(L) = 1
  BY <1>4, NthIsMember, 1 \in 1..2
<1> HIDE DEF L
<1>6. /\ Spend(row, v, cost) \in Spending /\ row'.attempts = row.attempts + 1
      /\ row'.tokens = row.tokens + cost
      /\ row'.cloud = row.cloud + (IF v = "step" THEN 1 ELSE 0)
      /\ Spend(mem[s], v, cost) \in Spending
  BY <1>1, <1>2, SpendType
<1>7. LedgerWithinPolicy'
  <2>1. Effective(call[c].ask) \in Policy /\ Stored \in Policy /\ granted \in Policy
    BY <1>1, EffectiveType, IntersectType
  <2>2. granted.attempts <= Stored.attempts /\ granted.tokens <= Stored.tokens
        /\ granted.cloud <= Stored.cloud
    BY <2>1, IntersectNarrows, "local" \in Providers DEF Providers
  <2>3. /\ granted.attempts \in Nat /\ granted.tokens \in Nat /\ granted.cloud \in Nat
        /\ Stored.attempts \in Nat /\ Stored.tokens \in Nat /\ Stored.cloud \in Nat
        /\ row.attempts \in Nat /\ row.tokens \in Nat /\ row.cloud \in Nat /\ cost \in Nat
    BY <1>1, <2>1 DEF Policy, Spending
  <2>4. /\ row.attempts < granted.attempts /\ row.tokens + cost <= granted.tokens
        /\ v = "step" => row.cloud < granted.cloud
    BY <1>2 DEF Fits
  <2>5. row.cloud <= Stored.cloud
    BY DEF IInv, LedgerWithinPolicy
  <2> HIDE DEF granted, v, cost
  <2> QED  BY <1>6, <2>2, <2>3, <2>4, <2>5 DEF LedgerWithinPolicy
<1>8. /\ r \in CallRecord /\ r.paid = n /\ r.slots = call[c].slots /\ r.ask = call[c].ask
      /\ r.model = call[c].model /\ r.server = call[c].server
      /\ r.pc = IF n = call[c].slots THEN "sent" ELSE "reserve"
  <2> DEFINE pc == IF n = call[c].slots THEN "sent" ELSE "reserve"
  <2>1. r = PayFor(call[c], n, pc)
    BY DEF PayFor
  <2>2. pc \in {"reserve", "sent"} /\ n \in 0..2
    BY <1>3
  <2> HIDE DEF r, pc, n
  <2>3. /\ r \in CallRecord /\ r.paid = n /\ r.pc = pc /\ r.slots = call[c].slots
        /\ r.ask = call[c].ask /\ r.model = call[c].model /\ r.server = call[c].server
    BY <1>1, <2>1, <2>2, PaidField
  <2> QED  BY <2>3 DEF pc, n
<1> HIDE DEF r
<1>9. /\ call' \in [Calls -> CallRecord] /\ call'[c] = r
      /\ \A k \in Calls \ {c} : call'[k] = call[k]
  BY <1>2, <1>8 DEF IInv, TypeOK
<1>10. TypeOK'
  <2>1. mem' \in [Scopes -> Spending]
    BY <1>1, <1>2, <1>6 DEF IInv, TypeOK
  <2> QED  BY <1>2, <1>6, <1>9, <2>1 DEF TypeOK
<1>11. row'.attempts = Cardinality(Charges')
  <2>1. Charges' = Charges \cup {<<c, n>>}
    <3>1. \A k \in Calls, m \in 1..2 :
            m <= call'[k].paid <=> m <= call[k].paid \/ (k = c /\ m = n)
      BY <1>3, <1>8, <1>9
    <3> QED  BY <1>3, <3>1 DEF Charges
  <2>2. <<c, n>> \notin Charges
    BY <1>3 DEF Charges
  <2>3. IsFiniteSet(Charges) /\ row.attempts = Cardinality(Charges)
    BY ChargesAreFinite DEF IInv, LedgerInv
  <2>4. Cardinality(Charges \cup {<<c, n>>}) = Cardinality(Charges) + 1
    BY <2>2, <2>3, FS_AddElement
  <2> QED  BY <1>6, <2>1, <2>3, <2>4
<1>12. row'.cloud = Cardinality(CloudCharged')
  <2>1. IsFiniteSet(CloudCharged) /\ row.cloud = Cardinality(CloudCharged)
    BY ChargesAreFinite DEF IInv, LedgerInv
  <2>2. \A k \in Calls \ {c} : k \in CloudCharged' <=> k \in CloudCharged
    BY <1>9 DEF CloudCharged
  <2>3. c \in CloudCharged' <=> \E m \in 1..2 : m <= n /\ Nth(L, m) = "step"
    BY <1>8, <1>9 DEF CloudCharged, L
  <2>4. c \in CloudCharged <=> \E m \in 1..2 : m <= call[c].paid /\ Nth(L, m) = "step"
    BY DEF CloudCharged, L
  <2>5. CASE v = "step"
    <3>1. c \in CloudCharged'
      BY <1>3, <2>3, <2>5
    <3>2. c \notin CloudCharged
      <4>1. \A m \in 1..2 : m <= call[c].paid => m = 1 /\ n = 2
        BY <1>3
      <4> QED  BY <1>3, <1>5, <2>4, <4>1
    <3>3. CloudCharged' = CloudCharged \cup {c}
      BY <2>2, <3>1 DEF CloudCharged
    <3>4. Cardinality(CloudCharged \cup {c}) = Cardinality(CloudCharged) + 1
      BY <2>1, <3>2, FS_AddElement
    <3>5. row.cloud \in Nat
      BY <1>1 DEF Spending
    <3> HIDE DEF v
    <3> QED  BY <1>6, <2>1, <2>5, <3>3, <3>4, <3>5
  <2>6. CASE v # "step"
    <3>1. c \in CloudCharged' <=> c \in CloudCharged
      <4>1. \A m \in 1..2 : m <= n /\ m # n <=> m <= call[c].paid
        BY <1>3
      <4> QED  BY <2>3, <2>4, <2>6, <4>1
    <3>2. CloudCharged' = CloudCharged
      BY <2>2, <3>1 DEF CloudCharged
    <3>3. row.cloud \in Nat
      BY <1>1 DEF Spending
    <3> HIDE DEF v
    <3> QED  BY <1>6, <2>1, <2>6, <3>2, <3>3
  <2> QED  BY <2>5, <2>6
<1>13. LedgerInv'
  BY <1>11, <1>12 DEF LedgerInv
<1>14. CallInv(r)
  <2>1. Cardinality(Registered \cap r.model \cap Legal(r.ask)) \in 0..2
    BY NthIsMember, 1 \in 1..2, Registered \cap r.model \cap Legal(r.ask) \in SUBSET Providers DEF Legal
  <2> QED  BY <1>3, <1>8, <2>1 DEF CallInv, L
<1>15. \A k \in Calls : CallInv(call'[k])
  BY <1>9, <1>14 DEF IInv
<1>16. (\A k \in Calls : CallInv(call[k]))'
  BY <1>15 DEF CallInv
<1> QED  BY <1>7, <1>10, <1>13, <1>16 DEF IInv

THEOREM Invariant == Spec => []IInv
<1>1. IInv /\ [Next]_vars => IInv'
  <2> SUFFICES ASSUME IInv, [Next]_vars PROVE IInv'
    OBVIOUS
  <2>1. CASE UNCHANGED vars
    BY <2>1 DEF vars, IInv, TypeOK, LedgerWithinPolicy, LedgerInv, Charges, CloudCharged, CallInv
  <2>2. CASE Next
    <3> PICK c \in Calls :
          \/ \E s \in Scopes, ask \in Asks, cost \in Costs, m \in Models : Begin(c, s, ask, cost, m)
          \/ Reserve(c) \/ Refuse(c) \/ GiveUp(c)
          \/ \E answered \in BOOLEAN : Try(c, answered)
      BY <2>2 DEF Next
    <3> QED  BY BeginStep, ReserveStep, RefuseStep, TryStep
  <2> QED  BY <2>1, <2>2
<1> QED  BY <1>1, InitInv, PTL DEF Spec

(***************************************************************************)
(* What follows.                                                            *)
(***************************************************************************)
\* Every reachable state is well typed.
THEOREM TypeCorrect == Spec => []TypeOK
<1>1. IInv => TypeOK
  BY DEF IInv
<1> QED  BY <1>1, Invariant, PTL

\* The ledger stays within the policy it was created with.
THEOREM LedgerStaysWithinPolicy == Spec => []LedgerWithinPolicy
<1>1. IInv => LedgerWithinPolicy
  BY DEF IInv
<1> QED  BY <1>1, Invariant, PTL

\* No more provider calls are made than attempts were granted: each is backed
\* by a reservation of its own.
THEOREM BudgetHolds == Spec => []NeverOverBudget
<1>1. IInv => NeverOverBudget
  <2> SUFFICES ASSUME IInv PROVE NeverOverBudget
    OBVIOUS
  <2>1. Invocations \in SUBSET Charges
    <3>1. \A c \in Calls : call[c].server.attempts \in Nat /\ call[c].paid \in 0..2 /\ call[c].slots \in 0..2
      BY DEF IInv, TypeOK, CallRecord, Spending
    <3>2. ASSUME NEW c \in Calls PROVE call[c].server.attempts <= call[c].paid
      <4>1. CallInv(call[c])
        BY DEF IInv
      <4>2. \/ call[c].server.attempts = 0
            \/ call[c].paid = call[c].slots /\ call[c].server.attempts <= call[c].slots
        BY <3>1, <4>1 DEF CallInv
      <4> QED  BY <3>1, <4>2
    <3> QED  BY <3>1, <3>2 DEF Invocations, Charges
  <2>2. IsFiniteSet(Charges) /\ row.attempts = Cardinality(Charges) /\ row.attempts <= Stored.attempts
    BY ChargesAreFinite DEF IInv, LedgerInv, LedgerWithinPolicy
  <2>3. IsFiniteSet(Invocations) /\ Cardinality(Invocations) <= Cardinality(Charges)
    BY <2>1, <2>2, FS_Subset
  <2>4. Cardinality(Invocations) \in Nat /\ row.attempts \in Nat /\ Stored.attempts \in Nat
    BY <2>3, FS_CardinalityType, PoliciesAreTyped DEF IInv, TypeOK, Spending, Policy
  <2> QED  BY <2>2, <2>3, <2>4 DEF NeverOverBudget
<1> QED  BY <1>1, Invariant, PTL

LEMMA InvocationIsCandidate ==
  ASSUME IInv, NEW c \in Calls, NEW k \in 1..2, <<c, k>> \in Invocations
  PROVE  /\ Nth(Candidates(c), k) \in Candidates(c)
         /\ call[c].paid = call[c].slots
<1>1. call[c].server.attempts \in Nat /\ k <= call[c].server.attempts /\ CallInv(call[c])
  BY DEF IInv, TypeOK, CallRecord, Spending, Invocations
<1>2. Candidates(c) \in SUBSET Providers
  BY DEF Candidates, Legal
<1>3. Cardinality(Candidates(c)) \in 0..2
  BY <1>2, NthIsMember
<1>4. k <= Cardinality(Candidates(c)) /\ call[c].paid = call[c].slots
  BY <1>1, <1>3 DEF CallInv, Candidates
<1> QED  BY <1>2, <1>4, NthIsMember

\* A provider is called only if both the ledger's policy and the asked one
\* allow it, whatever the Gateway prefers.
THEOREM OnlyGrantedProviders == Spec => []OnlyGranted
<1>1. IInv => OnlyGranted
  <2> SUFFICES ASSUME IInv, NEW c \in Calls, NEW k \in 1..2, <<c, k>> \in Invocations
               PROVE  Allows(Stored, Nth(Candidates(c), k)) /\ Allows(call[c].ask, Nth(Candidates(c), k))
    BY DEF OnlyGranted, Invocations
  <2> DEFINE v == Nth(Candidates(c), k)
  <2>1. v \in Candidates(c)
    BY InvocationIsCandidate
  <2>2. v \in Providers /\ Allows(Effective(call[c].ask), v)
    BY <2>1 DEF Candidates, Legal
  <2>3. call[c].ask \in Policy /\ Stored \in Policy
    BY EffectiveType DEF IInv, TypeOK, CallRecord
  <2> HIDE DEF v
  <2>4. Allows(call[c].ask, v) /\ Allows(Stored, v)
    BY <2>2, <2>3, IntersectNarrows DEF Effective
  <2> QED  BY <2>4 DEF v
<1> QED  BY <1>1, Invariant, PTL

\* Step is called no more often than granted by calls with a slot for every
\* legal provider.
THEOREM CloudHolds == Spec => []CloudWithinQuota
<1>1. IInv => CloudWithinQuota
  <2> SUFFICES ASSUME IInv PROVE CloudWithinQuota
    OBVIOUS
  <2> DEFINE S == {c \in CloudCalls : ~OneSlotForTwo(c)}
  <2>1. S \in SUBSET CloudCharged
    <3> SUFFICES ASSUME NEW c \in Calls, NEW k \in 1..2, <<c, k>> \in Invocations,
                        Nth(Candidates(c), k) = "step", ~OneSlotForTwo(c)
                 PROVE  c \in CloudCharged
      BY DEF CloudCalls
    <3>1. "step" \in Legal(call[c].ask) /\ call[c].paid = call[c].slots
      BY InvocationIsCandidate DEF Candidates
    <3>2. Legal(call[c].ask) \in SUBSET Providers
      BY DEF Legal
    <3> DEFINE n == Cardinality(Legal(call[c].ask))
    <3>3. n \in 1..2 /\ Nth(Legal(call[c].ask), n) = "step"
      BY <3>1, <3>2, NthIsMember
    <3>4. call[c].slots \in 0..2
      BY DEF IInv, TypeOK, CallRecord
    <3>5. n <= call[c].paid
      BY <3>1, <3>3, <3>4 DEF OneSlotForTwo
    <3> QED  BY <3>3, <3>5 DEF CloudCharged
  <2>2. IsFiniteSet(CloudCharged) /\ row.cloud = Cardinality(CloudCharged) /\ row.cloud <= Stored.cloud
    BY ChargesAreFinite DEF IInv, LedgerInv, LedgerWithinPolicy
  <2>3. IsFiniteSet(S) /\ Cardinality(S) <= Cardinality(CloudCharged)
    BY <2>1, <2>2, FS_Subset
  <2>4. Cardinality(S) \in Nat /\ row.cloud \in Nat /\ Stored.cloud \in Nat
    BY <2>3, FS_CardinalityType, PoliciesAreTyped DEF IInv, TypeOK, Spending, Policy
  <2> QED  BY <2>2, <2>3, <2>4 DEF CloudWithinQuota
<1> QED  BY <1>1, Invariant, PTL
=============================================================================
