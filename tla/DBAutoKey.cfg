SPECIFICATION Spec
CONSTANTS
  h1 = h1  h2 = h2
  Handler = {h1, h2}
  NoHandler = NoHandler
  Base = 3
  Named <- MCNamed
  MaxInserts = 6
INVARIANTS TypeOK KeysInRange 
PROPERTIES NextIsGreater
SYMMETRY Symmetry
CHECK_DEADLOCK FALSE
