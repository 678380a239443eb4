SPECIFICATION Spec
CONSTANTS
  c1 = c1  c2 = c2
  Client = {c1, c2}
  Handle = {b1, b2}
  NoClient = NoClient
  NoHandle = NoHandle
  MaxRequests <- Uneven
  Split = TRUE
  Pipelined = TRUE
  MayFail = TRUE
  MayQuit = TRUE
INVARIANTS TypeOK LinkListExact LoginAnsweredOnce
PROPERTIES BaseFreedOnce
CHECK_DEADLOCK FALSE
SYMMETRY Symmetry
