------------------------- MODULE MessageConsumption -------------------------
(***************************************************************************)
(* What the durable inbox of the bridge promises: a message is taken up at *)
(* most once, however often it is delivered, and the verdict recorded for  *)
(* it is final.                                                            *)
(***************************************************************************)
EXTENDS Naturals

CONSTANTS Messages, Verdicts, NoVerdict

VARIABLES stored, consumed, verdict

vars == <<stored, consumed, verdict>>

Init ==
  /\ stored = {}
  /\ consumed = [m \in Messages |-> 0]
  /\ verdict = [m \in Messages |-> NoVerdict]

Store(m) ==
  /\ stored' = stored \cup {m}
  /\ UNCHANGED <<consumed, verdict>>

\* The business request of m is started, for the first and last time.
Consume(m) ==
  /\ m \in stored /\ consumed[m] = 0
  /\ verdict[m] = NoVerdict
  /\ consumed' = [consumed EXCEPT ![m] = 1]
  /\ UNCHANGED <<stored, verdict>>

\* A restart concludes every interrupted message at once.
Conclude(S, v) ==
  /\ S \subseteq stored
  /\ \A m \in S : verdict[m] = NoVerdict /\ (v = "replied" => consumed[m] = 1)
  /\ verdict' = [m \in Messages |-> IF m \in S THEN v ELSE verdict[m]]
  /\ UNCHANGED <<stored, consumed>>

Next ==
  \/ \E m \in Messages : Store(m) \/ Consume(m)
  \/ \E S \in SUBSET Messages, v \in Verdicts : Conclude(S, v)

Spec == Init /\ [][Next]_vars
=============================================================================
