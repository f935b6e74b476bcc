SPECIFICATION Spec
CONSTANTS
  SavedLogs = {"SD"}
  CalFileStates = {"none"}
  CmdVols = {"FLASH"}
  CalPieces = 1
  PullWhileUsed = FALSE
  Bounce = FALSE
  MaxMoves = 0
  MaxCmds = 0
INVARIANTS SavedLogRuns
