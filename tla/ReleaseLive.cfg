SPECIFICATION FairSpec
CONSTANTS
  Models = {m0, m1, m2, m3}
  Base = m0
  SnapshotIds = {s1, s2, s3, s4}
  Requests = {r1, r2}
  MaxAttempts = 2
  MaxFaults = 0
  Overlap = FALSE
  NoModel = NoModel
  NoActor = NoActor
  NoRequest = NoRequest
PROPERTY CandidateCutsOver
PROPERTY SearchFollows
PROPERTY KeepsHistory
CHECK_DEADLOCK FALSE
