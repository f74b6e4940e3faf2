SPECIFICATION FairSpec
CONSTANTS
  Ids = {d1, d2}
  Calls = {k1}
  Funs <- GroupWaits
  MaxChanges = 2
  MaxErrors = 1
  NotYet = NotYet
CHECK_DEADLOCK FALSE
INVARIANT NoneHangs
PROPERTIES Gathers EachAnswered
