------------------------- MODULE MCWorkflowController -------------------------
EXTENDS WorkflowController, TLC
CONSTANTS a, b, g, x, d1, d2, d3, d4, c1, c2, Cycles

Number == (a :> 1) @@ (b :> 2) @@ (g :> 3) @@ (x :> 4)
MCRank == [t \in Tasks |-> Number[t]]
\* g needs an approval, x is denied.
MCPolicy == [t \in Tasks |-> CASE t = g -> "approve" [] t = x -> "deny" [] OTHER -> "allow"]
\* Two roots in one READY loop; the gated one is the later one.
NoDeps == [t \in Tasks |-> {}]
\* g comes after all others.
Stages == [t \in Tasks |-> IF t = g THEN Tasks \ {g} ELSE {}]
MCCycles == [d \in Drivers |-> Cycles]
Symmetry == Permutations(Drivers) \cup Permutations(Contents)
=============================================================================
