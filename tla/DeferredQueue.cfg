SPECIFICATION QueueSpec
CONSTANTS
  cMaxTask = 4
  Tasks = {CalDC1, FileLog}
  Times = {1}
  MaxQueued = 3
PROPERTIES WaitAddsUp ImplementsQueue
