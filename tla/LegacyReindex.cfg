SPECIFICATION FairSpec
CONSTANTS
  v1 = v1
  v2 = v2
  p1 = p1
  p2 = p2
  Videos = {v1, v2}
  Stored = {v1}
  Projects = {p1, p2}
  ProjectOf <- Owners
  ChunksPerVideo <- Sizes
  Models = {m0, m1, m2}
  Base = m0
  NoModel = NoModel
  PerRunLimit = 1
  RunOnce = TRUE
  MaxRollbacks = 1
  MaxFaults = 1
INVARIANT Covered
INVARIANT ItemsTruthful
CHECK_DEADLOCK FALSE
PROPERTY LegacyMoves
PROPERTY Reenters
