-------------------------- MODULE InsuranceRouting --------------------------
(***************************************************************************)
(* The router of the insurance workflow (app/insurance_poc/routing.py) as   *)
(* operators: hard filters, scores in thousandths, the best candidate.      *)
(* A request is [unavailable, healthy, latency, restricted, cloud]: the     *)
(* models declared unavailable, the live providers found healthy, their     *)
(* measured latency (a partial function), and what the relevant evidence    *)
(* allows.  Costs are thousandths of a dollar.  Every candidate of a rule   *)
(* has the capabilities the rule requires and room for the context.         *)
(***************************************************************************)
EXTENDS Integers, FiniteSets

QWEN == "cofounder-qwen"
STEP == "cofounder-step"
HUMAN_REVIEW == "human-review"
GENERIC_LOCAL == "generic-deterministic-agent-local"
Live == {QWEN, STEP}

\* RULES: the specialist of each task, its budgets, whether a model is
\* preferred, whether raw documents and images go in.
Rule(local, latency, cost, semantic, raw) ==
  [local |-> local, latency |-> latency, cost |-> cost, semantic |-> semantic, raw |-> raw]

RULES ==
  [t \in {"evidence-extraction", "executive-orchestration", "product-analysis", "finance-analysis",
          "engineering-plan", "risk-review", "private-upload-policy", "artifact-synthesis",
          "verification", "release-approval"} |->
    CASE t = "evidence-extraction" -> Rule("insurance-evidence-adapter-chain", 2000, 0, FALSE, TRUE)
      [] t = "executive-orchestration" -> Rule("executive-orchestrator-local", 8000, 50, FALSE, FALSE)
      [] t = "product-analysis" -> Rule("product-agent-local", 8000, 50, FALSE, FALSE)
      [] t = "finance-analysis" -> Rule("finance-agent-local", 5000, 0, FALSE, FALSE)
      [] t = "engineering-plan" -> Rule("engineering-agent-local", 8000, 0, TRUE, FALSE)
      [] t = "risk-review" -> Rule("risk-agent-local", 8000, 0, TRUE, FALSE)
      [] t = "private-upload-policy" -> Rule("risk-agent-local", 500, 0, FALSE, FALSE)
      [] t = "artifact-synthesis" -> Rule("artifact-synthesizer-local", 8000, 50, FALSE, FALSE)
      [] t = "verification" -> Rule("verifier-local", 8000, 0, FALSE, FALSE)
      [] OTHER -> Rule("release-agent-local", 500, 0, FALSE, FALSE)]

TaskKeys == DOMAIN RULES

\* _rule: the candidates in order of preference.
Preferred(r) ==
  IF r.semantic THEN <<QWEN, STEP, r.local, GENERIC_LOCAL, HUMAN_REVIEW>>
                ELSE <<r.local, GENERIC_LOCAL, QWEN, STEP, HUMAN_REVIEW>>
Candidates(r) == {Preferred(r)[i] : i \in 1..5}
Position(r, c) == CHOOSE i \in 1..5 : Preferred(r)[i] = c

\* CANDIDATES: what a candidate takes when nobody measured it, what it
\* costs, how well it understands.
ListedLatency(c, r) ==
  CASE c = QWEN -> 2500
    [] c = STEP -> 6000
    [] c = HUMAN_REVIEW -> 0
    [] c = GENERIC_LOCAL -> 35
    [] OTHER -> IF r.raw THEN 450 ELSE 25
Latency(c, r, q) == IF c \in DOMAIN q.latency THEN q.latency[c] ELSE ListedLatency(c, r)
Cost(c) == IF c = STEP THEN 40 ELSE 0
Quality(c, r) ==
  CASE c = QWEN -> 88
    [] c = STEP -> 95
    [] c = HUMAN_REVIEW -> 100
    [] c = GENERIC_LOCAL -> 48
    [] OTHER -> IF r.raw THEN 65 ELSE 68

\* _exclusion_reason.
Excluded(c, r, q) ==
  \/ c \in q.unavailable
  \/ c \in Live /\ c \notin q.healthy
  \/ c = QWEN /\ r.raw
  \/ c = STEP /\ (q.restricted \/ ~q.cloud)
  \/ Latency(c, r, q) > r.latency
  \/ Cost(c) > r.cost

Viable(r, q) == {c \in Candidates(r) : ~Excluded(c, r, q)}

AtLeastZero(n) == IF n < 0 THEN 0 ELSE n

SemanticFit(c, r) ==
  CASE c \in Live -> IF r.semantic THEN 30 ELSE -20
    [] c = r.local -> IF r.semantic THEN 0 ELSE 30
    [] OTHER -> 0

\* _score_factors and their sum.
Score(c, r, q) ==
  1000 * (Quality(c, r) + SemanticFit(c, r)
          + (IF c = r.local THEN 20 ELSE 0)
          + (IF q.restricted /\ c # STEP THEN 10 ELSE 0)
          - (IF c = HUMAN_REVIEW THEN 200 ELSE 0))
  + AtLeastZero(((r.latency - Latency(c, r, q)) * 10000) \div r.latency)
  + (IF r.cost = 0 THEN IF Cost(c) = 0 THEN 10000 ELSE 0
                   ELSE AtLeastZero(((r.cost - Cost(c)) * 10000) \div r.cost))

\* _decision, where some candidate is viable.
Selected(r, q) ==
  CHOOSE c \in Viable(r, q) : \A d \in Viable(r, q) \ {c} :
    \/ Score(c, r, q) > Score(d, r, q)
    \/ Score(c, r, q) = Score(d, r, q) /\ Position(r, c) < Position(r, d)
=============================================================================
