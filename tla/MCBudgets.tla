------------------------------ MODULE MCBudgets ------------------------------
(***************************************************************************)
(* Instance of Budgets for TLC.                                             *)
(***************************************************************************)
EXTENDS Budgets, TLC

CONSTANTS s1, s2, c1, c2, c3

All == [privacy |-> 0, providers |-> Providers, permissions |-> Permissions,
        attempts |-> 3, tokens |-> 4, cloud |-> 1]
\* A call that keeps its prompt at home, one that asks for more than the
\* ledger has, and one for Step alone, with fewer attempts.
Restricted == [All EXCEPT !.privacy = 2]
Wide == [All EXCEPT !.attempts = 4, !.tokens = 9, !.cloud = 2]
StepOnly == [All EXCEPT !.providers = {"step"}, !.attempts = 2]
MCStored == [All EXCEPT !.privacy = 1]
MCAsks == {Restricted, Wide, StepOnly}
MCModels == {Providers, {"step"}}
Symmetry == Permutations(Scopes) \cup Permutations(Calls)
=============================================================================
