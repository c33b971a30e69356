\* Both input types, two requests at a time, a claim that may age under the worker, one crash.
SPECIFICATION FairSpec
CONSTANTS
  Workers = {w1}
  Handlers = {h1, h2}
  Messages = {m1, m2}
  InputTypes = {"EXTERNAL_URL", "LOCAL_FILE"}
  Operations = {"complete", "retry", "delete"}
  Models = {"v1", "v2"}
  SettingsModel = "v1"
  ZombieClaims = TRUE
  MaxFaults = 1
  MaxPublishFailures = 0
  NoMessage = NoMessage
PROPERTY DeleteCompletes
PROPERTY ProcessingEndsWithoutCrash
CHECK_DEADLOCK FALSE
