\* A crash between the two writes of a failed repair.
SPECIFICATION Spec
CONSTANTS
  r1 = r1
  r2 = r2
  r3 = r3
  p1 = p1
  p2 = p2
  founder = founder
  stranger = stranger
  Requests = {r1}
  Patches = {p1, p2}
  NoPatch = NoPatch
  NoReceipt = NoReceipt
  Principals = {founder, stranger}
  Owner = founder
  MaxAttempts = 2
  MaxRounds = 2
  MaxCrashes = 2
INVARIANTS
  InterruptedRunsStop
CHECK_DEADLOCK FALSE
