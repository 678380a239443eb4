SPECIFICATION ScanSpec
CONSTANTS
  MaxSize = 4
  Data = {0, 1, 2, 3}
  Empty = Empty
INVARIANTS ScanTypeOK ScanIsExact
CHECK_DEADLOCK FALSE
