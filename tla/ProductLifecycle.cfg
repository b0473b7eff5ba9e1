\* Three calls, two attempts, two answers, one crash, one lost file.
SPECIFICATION Spec
CONSTANTS
  e1 = e1  e2 = e2  e3 = e3  c1 = c1  c2 = c2
  Calls = {e1, e2, e3}
  Contents = {c1, c2}
  NoContent = NoContent
  NoMeta = NoMeta
  NoKey = NoKey
  MaxAttempts = 2
  MaxCrashes = 1
  MaxLosses = 1
SYMMETRY Symmetry
INVARIANTS CompletedIsSound WorkIsOwned AdviceHolds
CHECK_DEADLOCK FALSE
