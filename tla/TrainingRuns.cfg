SPECIFICATION FairSpec
CONSTANTS
  w1 = w1
  w2 = w2
  Workers = {w1, w2}
  NoRow = NoRow
  DaysPerWeek = 1
  MaxTime = 2
  MaxFaults = 1
INVARIANT TrainingsExclude
INVARIANT ReadyIsComplete
INVARIANT RequestsAreKept
CHECK_DEADLOCK FALSE
PROPERTY RequestsAreAnswered
