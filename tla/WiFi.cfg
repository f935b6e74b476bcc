SPECIFICATION FairSpec
CONSTANTS
  None = None
  home = home
  cafe = cafe
  Nets <- MCNets
  OpenNets <- MCOpen
  Given <- MCGiven
  Found <- MCFound
  MaxTasks = 2
  MaxCmds = 4
  MaxMishaps = 1
INVARIANTS SetsTrue DoneAsTold
PROPERTY AllDone
CHECK_DEADLOCK FALSE
