SPECIFICATION Spec
CONSTANTS
  v1 = v1
  v2 = v2
  p1 = p1
  p2 = p2
  Videos = {v1}
  Stored = {}
  Projects = {p1}
  ProjectOf <- Owner
  ChunksPerVideo <- Size
  Models = {m0, m1, m2, m3}
  Base = m0
  NoModel = NoModel
  PerRunLimit = 1
  RunOnce = FALSE
  MaxRollbacks = 0
  MaxFaults = 0
PROPERTY GateIsComplete
CHECK_DEADLOCK FALSE
