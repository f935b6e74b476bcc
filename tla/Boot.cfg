SPECIFICATION Spec
CONSTANTS
  SavedLogs = {"RAM", "SD", "CLOUD"}
  CalFileStates = {"good", "short"}
  CmdVols = {"FLASH", "SD"}
  CalPieces = 1
  PullWhileUsed = FALSE
  Bounce = FALSE
  MaxMoves = 2
  MaxCmds = 1
INVARIANTS NoAssert BootReadAlone
PROPERTIES BootEnds InsertedIsMounted
