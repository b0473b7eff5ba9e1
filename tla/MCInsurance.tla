---------------------------- MODULE MCInsurance ----------------------------
(***************************************************************************)
(* Instance of Insurance for TLC.                                           *)
(***************************************************************************)
EXTENDS Insurance
CONSTANTS d1, d2, d3
MCDeclarable == {"product-agent-local", "engineering-agent-local", GENERIC_LOCAL, QWEN}
MCMeasured == {100, 8100}
\* The job asks for 100 cycles; a later request may ask for fewer.
MCCycles == [d \in Drivers |-> IF d = d3 THEN 2 ELSE 100]
=============================================================================
