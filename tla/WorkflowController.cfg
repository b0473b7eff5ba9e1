\* Four requests, a root and a gated root in one READY loop, one crash.
SPECIFICATION Spec
CONSTANTS
  a = a  b = b  g = g  x = x
  d1 = d1  d2 = d2  d3 = d3  d4 = d4  c1 = c1  c2 = c2
  Tasks = {a, g}
  Rank <- MCRank
  Deps <- NoDeps
  Policy <- MCPolicy
  ExpectedDenied = {}
  Drivers = {d1, d2, d3, d4}
  Contents = {c1, c2}
  NoContent = NoContent
  MaxAttempts = 2
  Cycles = 3
  CycleLimit = 3
  MaxCycles <- MCCycles
  MaxCrashes = 1
SYMMETRY Symmetry
INVARIANTS CalledOnlyWhenAllowed CompletedRunIsWhole ClaimIsCurrent AloneAllGoesWell
PROPERTIES CompletedByClaimHolder EndsAreFinal
CHECK_DEADLOCK FALSE
