\* Pieces of up to three bytes, a file of four, a ring of eight samples with room for one.
CONSTANTS
  Requests <- AllRequests
  CbInput = 3
  CbResp = 2
  CbDMA = 3
  Fsize = 4
  Room = 9
  CSVBUFF = 8
  CActiveCh = 1
  Faults = {}
  MaxTotal = 11
SPECIFICATION FairRequestSpec
INVARIANTS GivenBack BytesArrive AnswerWhole
PROPERTY RequestServed
CHECK_DEADLOCK FALSE
