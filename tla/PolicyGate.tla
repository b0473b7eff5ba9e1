----------------------------- MODULE PolicyGate -----------------------------
(***************************************************************************)
(* The deterministic policy gate (app/policy/gate.py).  A command is only   *)
(* "none", "safe" or "dangerous": what _dangerous_command says of its text. *)
(***************************************************************************)
EXTENDS Naturals, FiniteSets

Operations == {"read", "write", "execute", "delete", "upload", "message", "configure", "transact"}
Risks == {"external_write", "private_data", "production_change", "irreversible", "material_budget"}
Action == [operation : Operations, command : {"none", "safe", "dangerous"},
           blockedTool : BOOLEAN, risks : SUBSET Risks]

\* _denial_rule.
Denied(a) ==
  \/ a.command = "dangerous"
  \/ a.operation = "upload" /\ "private_data" \in a.risks
  \/ a.blockedTool

\* _approval_rules: the rules that ask for a human decision.
ApprovalRules(a) ==
  a.risks
    \cup (IF a.operation = "execute" /\ a.command # "none" THEN {"command_execute"} ELSE {})
    \cup (IF a.operation \in {"delete", "transact"} THEN {"irreversible"} ELSE {})
    \cup (IF a.operation \in {"message", "upload"} THEN {"external_delivery"} ELSE {})

\* evaluate.
Disposition(a) ==
  CASE Denied(a) -> "deny"
    [] ~Denied(a) /\ ApprovalRules(a) # {} -> "approve"
    [] OTHER -> "allow"
=============================================================================
