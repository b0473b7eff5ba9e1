----------------------- MODULE MCEngineeringDelivery -----------------------
(***************************************************************************)
(* Instance of EngineeringDelivery for TLC.                                *)
(***************************************************************************)
EXTENDS EngineeringDelivery, TLC

CONSTANTS r1, r2, r3, p1, p2, founder, stranger

Symmetry == Permutations(Requests) \cup Permutations(Patches)
=============================================================================
