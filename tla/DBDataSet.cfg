SPECIFICATION Spec
CONSTANTS
  Key = {k1, k2}
  Field = {a, b}
  Value = {x}
  Default = Default
  NoKey = NoKey
  MaxRows = 2
INVARIANTS TypeOK ChangeIsFlagged IteratorInRange
PROPERTY CommitMatchesTable
CHECK_DEADLOCK FALSE
SYMMETRY Symmetry
