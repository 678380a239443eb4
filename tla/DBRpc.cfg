SPECIFICATION FairSpec
CONSTANTS
  MaxCalls = 3
  MaxHandling = 2
  BufferSize = 4
  Rows = 2
  RequestSize <- MCRequestSize
  AnswerSize <- MCAnswerSize
INVARIANTS TypeOK
PROPERTIES IsCall ReturnsOwnBody CallReturns
CHECK_DEADLOCK FALSE
