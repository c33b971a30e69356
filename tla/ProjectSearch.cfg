SPECIFICATION FairSpec
CONSTANTS
  v1 = v1
  v2 = v2
  d1 = d1
  d2 = d2
  r1 = r1
  r2 = r2
  like = like
  dislike = dislike
  Videos = {v1, v2}
  First = v1
  Deletes = {d1, d2}
  Reloads = {r1, r2}
  Ratings = {like, dislike}
  TopK = 1
  OverlappingDeletes = FALSE
  MaxActive = 2
  MaxSwitch = 1
  MaxFaults = 1
INVARIANT DeletionIsWhole
INVARIANT BarredShowsNothing
INVARIANT EventsTellTheSearch
CHECK_DEADLOCK FALSE
PROPERTY TargetsMoveForward
PROPERTY DeleteEnds
