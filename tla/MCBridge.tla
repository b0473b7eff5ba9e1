------------------------------ MODULE MCBridge ------------------------------
(***************************************************************************)
(* Instance of Bridge for TLC: two messages; one names the first version   *)
(* if it decides, the other the second.                                    *)
(***************************************************************************)
EXTENDS Bridge

CONSTANTS m1, m2

MCNames == [m \in {m1, m2} |-> IF m = m1 THEN 1 ELSE 2]

Ask(a, b) == [m \in {m1, m2} |-> IF m = m1 THEN a ELSE b]
MCMixes == {Ask("decide", "create"), Ask("export", "decide")}
=============================================================================
