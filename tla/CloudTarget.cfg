\* A ring of four scans of one channel, posts of up to three.
CONSTANTS
  CSVBUFF = 4
  CActiveCh = 1
  CsPost = 3
  Slow = FALSE
  MaxBurst = 2
  MaxTotal = 6
SPECIFICATION FairSpec
INVARIANTS PostedOnce PostSound NormalIsComplete
PROPERTY CloudEnds
CHECK_DEADLOCK FALSE
