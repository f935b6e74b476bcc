SPECIFICATION FairSpec
CONSTANTS
  NClients = 3
  Requests <- Apart
  MaxPiece = 2
  MaxYields = 2
INVARIANTS OwnWork
PROPERTIES Served
