\* Logs of every kind, with the usual events and with all of them.
SPECIFICATION FairSpec
CONSTANTS
  Params <- AllLogs
  EventSets <- Events
  Faults <- OpenFaults
  MaxTasks = 2
  MaxErr = 1
  MaxFiles = 2
INVARIANTS NoAssert StopWins HoldsWhatItUses
PROPERTY Settles
CHECK_DEADLOCK FALSE
