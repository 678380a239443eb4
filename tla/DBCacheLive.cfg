SPECIFICATION FairSpec
CONSTANTS
  ta = ta  tb = tb  ra = ra  rb = rb  h1 = h1  h2 = h2
  Table <- MCTable
  Record <- MCRecord
  TableOf <- MCTableOf
  SingleColumn = {ta}
  Handler = {h1}
  NoHandler = NoHandler
  NoRecord = NoRecord
  BackupLimit = 2
  MaxVersion = 2
PROPERTY DirtyIsWritten
