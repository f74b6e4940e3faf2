SPECIFICATION FairSpec
CONSTANTS
  Buckets = {b1, b2}
  Public = {b1, b2}
  MaxLoads = 2
  MaxChanges = 1
  MaxErrors = 1
CHECK_DEADLOCK FALSE
INVARIANTS EachOnce RowsCatchUp RowIsBucket NoneForgotten
PROPERTIES OnlyOldRoundsRevive Appears
