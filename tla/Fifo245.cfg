\* A ring of three bytes, six bytes sent: two laps.
CONSTANTS
  Size = 3
  InputSize = 2
  MAXPASSCNT = 1
  MaxBytes = 6
  MaxOthers = 1
SPECIFICATION FairPort
INVARIANT RoomHeld
PROPERTIES ImplementsFifo Delivered
CHECK_DEADLOCK FALSE
