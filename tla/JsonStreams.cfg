\* Two POSTs over two slots, a serial command and a debug print; nothing goes
\* wrong beyond what the code handles.
CONSTANTS
  Clients = {c1, c2}
  Unsteady = {c2}
  NSlots = 2
  Pieces = 2
  NPrints = 1
  MaxBegun = 2
  Mishaps = {}
SPECIFICATION FairSpec
INVARIANTS OneCommand AnswersGoHome
PROPERTY Served
CHECK_DEADLOCK FALSE
