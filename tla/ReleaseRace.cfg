SPECIFICATION Spec
CONSTANTS
  Models = {m0, m1, m2}
  Base = m0
  SnapshotIds = {s1, s2, s3}
  Requests = {r1}
  MaxAttempts = 3
  MaxFaults = 0
  Overlap = TRUE
  NoModel = NoModel
  NoActor = NoActor
  NoRequest = NoRequest
SYMMETRY Symmetry
PROPERTY RollbackIsExpected
CHECK_DEADLOCK FALSE
