\* A gated task after a root and a task whose denial is expected; liveness, so no symmetry.
SPECIFICATION FairSpec
CONSTANTS
  a = a  b = b  g = g  x = x
  d1 = d1  d2 = d2  d3 = d3  d4 = d4  c1 = c1  c2 = c2
  Tasks = {a, g, x}
  Rank <- MCRank
  Deps <- Stages
  Policy <- MCPolicy
  ExpectedDenied = {x}
  Drivers = {d1, d2, d3}
  Contents = {c1}
  NoContent = NoContent
  MaxAttempts = 2
  Cycles = 2
  CycleLimit = 2
  MaxCycles <- MCCycles
  MaxCrashes = 0
INVARIANTS TypeOK CalledOnlyWhenAllowed
PROPERTIES RequestsEnd
CHECK_DEADLOCK FALSE
