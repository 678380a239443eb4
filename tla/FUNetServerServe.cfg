SPECIFICATION FairSpec
CONSTANTS
  c1 = c1  c2 = c2
  Client = {c1, c2}
  Handle = {b1, b2}
  NoClient = NoClient
  NoHandle = NoHandle
  MaxRequests <- Even
  Split = FALSE
  Pipelined = FALSE
  MayFail = FALSE
  MayQuit = FALSE
PROPERTY Answered
CHECK_DEADLOCK FALSE
