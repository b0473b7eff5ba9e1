----------------------------- MODULE WriteOnce -----------------------------
(***************************************************************************)
(* What the artifact store promises about a name: nothing is visible under  *)
(* it until one content is published, whole, and that content stays.        *)
(***************************************************************************)
CONSTANTS Slots, Contents, NoContent
VARIABLE published

Init == published = [s \in Slots |-> NoContent]
Publish(s, c) == published[s] = NoContent /\ published' = [published EXCEPT ![s] = c]
Next == \E s \in Slots, c \in Contents : Publish(s, c)
Spec == Init /\ [][Next]_published
=============================================================================
