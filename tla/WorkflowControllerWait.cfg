\* A request that overlaps another.
SPECIFICATION Spec
CONSTANTS
  a = a  b = b  g = g  x = x
  d1 = d1  d2 = d2  d3 = d3  d4 = d4  c1 = c1  c2 = c2
  Tasks = {a, g}
  Rank <- MCRank
  Deps <- NoDeps
  Policy <- MCPolicy
  ExpectedDenied = {}
  Drivers = {d1, d2, d3}
  Contents = {c1}
  NoContent = NoContent
  MaxAttempts = 2
  Cycles = 3
  CycleLimit = 3
  MaxCycles <- MCCycles
  MaxCrashes = 0
SYMMETRY Symmetry
INVARIANTS WaitIsAnswerable
CHECK_DEADLOCK FALSE
