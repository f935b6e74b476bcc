SPECIFICATION FairSpec
CONSTANTS
  CSADCDMA = 4
  CSRBUFF = 16
  NCh = 2
  CActiveCh = 2
  CsMax = 34
  CsPass = 4
  BacklogLimit = 8
  MaxStall = 8
  PollLag = 1
  MaxTaken = 40
INVARIANTS AddressesInRange RingsInStep
PROPERTIES ImplementsStream CountReached Drained
CHECK_DEADLOCK FALSE
