\* Two scopes share a ledger of three attempts, four tokens and one cloud call.
SPECIFICATION Spec
CONSTANTS
  s1 = s1  s2 = s2  c1 = c1  c2 = c2  c3 = c3
  Scopes = {s1, s2}
  Calls = {c1, c2, c3}
  Costs = {1, 2}
  Stored <- MCStored
  Asks <- MCAsks
  Models <- MCModels
  Registered <- Providers
SYMMETRY Symmetry
INVARIANTS NeverOverBudget OnlyGranted CloudWithinQuota
CHECK_DEADLOCK FALSE
