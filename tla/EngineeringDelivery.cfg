\* Three request ids; four attempts, so that the cap on feedback rounds binds; two crashes.
SPECIFICATION Spec
CONSTANTS
  r1 = r1
  r2 = r2
  r3 = r3
  p1 = p1
  p2 = p2
  founder = founder
  stranger = stranger
  Requests = {r1, r2, r3}
  Patches = {p1, p2}
  NoPatch = NoPatch
  NoReceipt = NoReceipt
  Principals = {founder, stranger}
  Owner = founder
  MaxAttempts = 4
  MaxRounds = 2
  MaxCrashes = 2
SYMMETRY Symmetry
INVARIANTS
  ReleaseIsApproved
  OneVersionLeaves
  OneEffectPerRequest
  OfferIsLatest
  RowOwned
  IInv
PROPERTIES
  TerminalIsFinal
  ImplementsApproval
CHECK_DEADLOCK FALSE
