SPECIFICATION FairSpec
CONSTANTS
  SearchCallers = {s1}
  VideoCallers = {v1, v2}
  LegacyCallers = {f1}
  MaxConcurrency = 1
  RequestLimit <- Limits
  MaxRetries <- Retries
  Models = {m0, m1}
  Bootstrap = m0
  NoModel = NoModel
INVARIANT SlotsConserved
PROPERTY ServesInOrder
INVARIANT ActiveIsServed
PROPERTY SearchCallsEnd
CHECK_DEADLOCK FALSE
