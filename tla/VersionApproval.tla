-------------------------- MODULE VersionApproval --------------------------
(***************************************************************************)
(* What the delivery of an engineering run promises its owner: versions    *)
(* are offered one at a time under growing revision numbers, each with     *)
(* content that differs from the one before, and at most one is ever       *)
(* released, the one on offer at that moment.                              *)
(***************************************************************************)
EXTENDS Naturals

VARIABLES phase, offer, released

vars == <<phase, offer, released>>

Init == phase = "working" /\ offer.revision = 0 /\ released = {}

\* A candidate is put up for approval.
Offer ==
  /\ phase = "working" /\ phase' = "offered"
  /\ offer'.revision = offer.revision + 1
  /\ offer'.patch # offer.patch
  /\ UNCHANGED released

\* Feedback: the offer is withdrawn and work goes on.
Withdraw ==
  /\ phase = "offered" /\ phase' = "working"
  /\ UNCHANGED <<offer, released>>

Release ==
  /\ phase = "offered" /\ phase' = "released"
  /\ released' = {offer}
  /\ UNCHANGED offer

\* Failure, rejection, cancellation.
Close ==
  /\ phase \in {"working", "offered"} /\ phase' = "closed"
  /\ UNCHANGED <<offer, released>>

Next == Offer \/ Withdraw \/ Release \/ Close

Spec == Init /\ [][Next]_vars
=============================================================================
