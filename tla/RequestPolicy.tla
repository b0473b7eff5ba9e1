---------------------------- MODULE RequestPolicy ----------------------------
(***************************************************************************)
(* The grants of a request (app/request_constraints.py).  timeout_seconds   *)
(* is left out: time may refuse any reservation, see Budgets.               *)
(***************************************************************************)
EXTENDS Integers

Providers == {"local", "step"}
Permissions == {"model:invoke", "cloud:invoke"}

\* privacy: 0 public, 1 internal, 2 restricted.
Policy ==
  [privacy : 0..2, providers : SUBSET Providers, permissions : SUBSET Permissions,
   attempts : Nat, tokens : Nat, cloud : Nat]

Least(m, n) == IF m <= n THEN m ELSE n
Most(m, n) == IF m <= n THEN n ELSE m

\* Mutant: the later grant decides what is private.
IntersectLatest(p, q) ==
  [privacy |-> q.privacy,
   providers |-> p.providers \cap q.providers, permissions |-> p.permissions \cap q.permissions,
   attempts |-> Least(p.attempts, q.attempts), tokens |-> Least(p.tokens, q.tokens),
   cloud |-> Least(p.cloud, q.cloud)]

Intersect(p, q) ==
  [privacy |-> Most(p.privacy, q.privacy),
   providers |-> p.providers \cap q.providers, permissions |-> p.permissions \cap q.permissions,
   attempts |-> Least(p.attempts, q.attempts), tokens |-> Least(p.tokens, q.tokens),
   cloud |-> Least(p.cloud, q.cloud)]

Allows(p, v) ==
  /\ "model:invoke" \in p.permissions /\ v \in p.providers
  /\ v = "step" => p.privacy < 2 /\ "cloud:invoke" \in p.permissions /\ p.cloud > 0
=============================================================================
