SPECIFICATION Spec
CONSTANTS
  h1 = h1  h2 = h2  d1 = d1  d2 = d2  t1 = t1  t2 = t2
  Handler = {h1, h2}
  Database = {d1, d2}
  Name = {t1, t2}
  Start = d1
  Unnamed = Unnamed  Null = Null  One = One
  Exists <- MCExists
  MaxLoads = 3
INVARIANTS TypeOK LoadedAsAsked
PROPERTIES CrashHasCause WritesGoHome
SYMMETRY Symmetry
CHECK_DEADLOCK FALSE
