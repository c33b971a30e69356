SPECIFICATION MCSpec
CONSTANTS
  p = p
  q = q
  c1 = c1
  c2 = c2
  c3 = c3
  c4 = c4
  c5 = c5
  Length = 10
  PartLengths = {4, 5}
  Overlap = 2
  Concurrency = 2
  Retries = 1
  MaxErrors = 2
  MaxFaults = 2
  Answers <- MCAnswers
  Overlaps = {0, 1, 2}
  SegmentWords = 3
  MaxTokens = 4
  Logs <- MCLogs
  ProjectOf <- MCProjectOf
  PoolLimit = 1
  Evaluations <- MCEvaluations
  TopK = 2
INVARIANT PartsStay
INVARIANT TranscriptIsTheAudio
INVARIANT TextIsFaithful
INVARIANT GroupsTeach
INVARIANT DecisionFollowsRanks
CHECK_DEADLOCK FALSE
