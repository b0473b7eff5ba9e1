------------------------- MODULE MCProductLifecycle -------------------------
(***************************************************************************)
(* Instance of ProductLifecycle for TLC.                                    *)
(***************************************************************************)
EXTENDS ProductLifecycle, TLC
CONSTANTS e1, e2, e3, c1, c2
Symmetry == Permutations(Calls) \cup Permutations(Contents)
=============================================================================
