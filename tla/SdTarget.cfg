SPECIFICATION FairSpec
CONSTANTS
  CSVBUFF = 4
  CActiveCh = 2
  CsMax = 10
  CsFile = 4
  CsPiece = 2
  FreeSizes = {0, 2, 9}
  Faults = {"write", "seek", "getfree", "full", "locked", "open", "close"}
  MaxErr = 2
  MaxBurst = 2
  MaxTotal = 12
INVARIANTS NoAssert FilesAbut BatchInRing NormalIsComplete
PROPERTIES ImplementsStore Finishes
CHECK_DEADLOCK FALSE
