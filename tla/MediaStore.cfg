\* Two puts, which can have the same key.
SPECIFICATION FairSpec
CHECK_DEADLOCK FALSE
CONSTANTS
  Ids = {i1, i2}
  Keys = {k1}
  NoKey = none
  PutLimit = 1
  Grace = 2
INVARIANTS
  RowHasFile
  FailedPutIsClean
PROPERTIES
  OrphansDisappear
