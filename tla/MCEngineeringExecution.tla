------------------------- MODULE MCEngineeringExecution -------------------------
(* Two attempts over two candidates that are alike. *)
EXTENDS EngineeringExecution, TLC

CONSTANTS p1, p2

Symmetry == Permutations(Patches)
=============================================================================
