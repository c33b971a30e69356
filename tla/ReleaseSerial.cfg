SPECIFICATION Spec
CONSTANTS
  Models = {m0, m1, m2, m3}
  Base = m0
  SnapshotIds = {s1, s2, s3, s4, s5}
  Requests = {r1, r2, r3}
  MaxAttempts = 3
  MaxFaults = 2
  Overlap = FALSE
  NoModel = NoModel
  NoActor = NoActor
  NoRequest = NoRequest
SYMMETRY Symmetry
INVARIANT ReleaseIsConsistent
INVARIANT ActiveIsLoaded
INVARIANT SearchCanEmbed
INVARIANT RolledBackStaysOut
CHECK_DEADLOCK FALSE
