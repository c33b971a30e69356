\* Both input types, two requests at a time, a publish that fails or is sent twice.
SPECIFICATION Spec
CONSTANTS
  Workers = {w1, w2}
  Handlers = {h1, h2}
  Messages = {m1, m2}
  InputTypes = {"EXTERNAL_URL", "LOCAL_FILE"}
  Operations = {"complete", "retry", "delete"}
  Models = {"v1"}
  SettingsModel = "v1"
  ZombieClaims = FALSE
  MaxFaults = 0
  MaxPublishFailures = 1
  NoMessage = NoMessage
SYMMETRY Symmetry
INVARIANT LostOutputsArePending
INVARIANT DeletingHasMessage
CHECK_DEADLOCK FALSE
