SPECIFICATION Spec
CHECK_DEADLOCK FALSE
CONSTANTS
  p1 = p1
  p2 = p2
  c1 = c1
  c2 = c2
  art1 = art1
  art2 = art2
  ptr = ptr
  attrs = attrs
  idx1 = idx1
  idx2 = idx2
  sha1 = sha1
  sha2 = sha2
  cce = cce
  Absent = Absent
  AttrsKey = attrs
  Key <- MCKey
  ArtifactKey <- MCArtifactKey
  Val <- MCVal
  PointsTo <- MCPointsTo
  Proc <- MCProc
  Clone = {c1, c2}
  CloneOf <- OwnClones
  Op <- PushGet
  MaxOps <- TwoOne
  PushRetries = 2
  LossyNet = TRUE
  AllowAbort = TRUE
INVARIANTS
  PointerHasArtifact
  ResultsExact
PROPERTIES
  ImplementsCache
