SPECIFICATION Spec
CONSTANTS
  c1 = c1  c2 = c2
  Client = {c1, c2}
  Socket = {s1, s2}
  NoClient = NoClient
  NoSocket = NoSocket
  NoMsg = NoMsg
  Msg = {1, 2, 3, 4, 5}
  Worker = {v, w}
  First = 1
  Batch = 1
  MaxData <- Uneven
  MaxReply = 1
INVARIANTS TypeOK RepostIsSignalled BlockHasOneOwner  BacklogIsSignalled
CHECK_DEADLOCK FALSE
SYMMETRY Symmetry
