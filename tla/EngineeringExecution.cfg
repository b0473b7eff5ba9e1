\* Two attempts, four provider calls, one cancellation.
SPECIFICATION Spec
CONSTANTS
  p1 = p1  p2 = p2
  Patches = {p1, p2}
  NoPatch = NoPatch
  MaxAttempts = 2
  MaxCalls = 4
  Gates = 3
  Probes = 2
  MaxCancels = 1
SYMMETRY Symmetry
INVARIANTS TypeOK EvidenceHolds RetireIsSafe
