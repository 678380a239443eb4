SPECIFICATION FairSpec
CONSTANTS
  Logger = {p, q}
  Worker = {v, w}
  Limit = 2
INVARIANTS TypeOK AtMostOnce ExitDrains
PROPERTIES ExitReturns EventuallyWritten IsFifo
CHECK_DEADLOCK FALSE
