--------------------------- MODULE MCArtifactStore ---------------------------
(***************************************************************************)
(* Instance of ArtifactStore for TLC: two names of one task and one of      *)
(* another run.                                                             *)
(***************************************************************************)
EXTENDS ArtifactStore, TLC
CONSTANTS s1, s2, s3, k1, k2, c1, c2, w1, w2, w3
MCRunOf == (s1 :> 1) @@ (s2 :> 1) @@ (s3 :> 2)
MCTaskOf == (s1 :> 1) @@ (s2 :> 1) @@ (s3 :> NoTask)
Ask(s, k, c) == [slot |-> s, key |-> k, content |-> c]
\* A request, a second answer under its key, the same bytes under another key
\* and under none, and its key under other names, here and in another run.
MCRequests == {Ask(s1, k1, c1), Ask(s1, k1, c2), Ask(s1, k2, c1), Ask(s1, NoKey, c1),
               Ask(s2, k1, c1), Ask(s3, k1, c1)}
Symmetry == Permutations(Writers)
=============================================================================
