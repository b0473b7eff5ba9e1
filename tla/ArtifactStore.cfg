\* Three calls out of six requests, any of which may stop anywhere; one lost file.
SPECIFICATION Spec
CONSTANTS
  s1 = s1  s2 = s2  s3 = s3  k1 = k1  k2 = k2  c1 = c1  c2 = c2
  w1 = w1  w2 = w2  w3 = w3
  Slots = {s1, s2, s3}
  RunOf <- MCRunOf
  TaskOf <- MCTaskOf
  NoTask = NoTask
  Writers = {w1, w2, w3}
  Requests <- MCRequests
  Keys = {k1, k2}
  NoKey = NoKey
  Contents = {c1, c2}
  NoContent = NoContent
  NoMeta = NoMeta
  MaxLosses = 1
SYMMETRY Symmetry
INVARIANTS StoreHolds KeyNamesOneArtifact OwnRemainsNeverRefuse
PROPERTIES ImplementsWriteOnce
CHECK_DEADLOCK FALSE
