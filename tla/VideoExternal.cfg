\* EXTERNAL_URL input, one request at a time, claims that outlive the work, one crash.
SPECIFICATION Spec
CONSTANTS
  Workers = {w1, w2}
  Handlers = {h1}
  Messages = {m1, m2, m3}
  InputTypes = {"EXTERNAL_URL"}
  Operations = {"retry", "delete"}
  Models = {"v1"}
  SettingsModel = "v1"
  ZombieClaims = FALSE
  MaxFaults = 1
  MaxPublishFailures = 0
  NoMessage = NoMessage
SYMMETRY Symmetry
INVARIANT AtMostOneProcessor
INVARIANT ReadyHasOutputs
PROPERTY RowsOutliveObjects
PROPERTY KeepsContract
CHECK_DEADLOCK FALSE
INVARIANT ProcessingIsReclaimable
