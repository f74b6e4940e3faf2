SPECIFICATION Spec
CONSTANTS
  Ids = {d1, d2}
  Calls = {k1}
  Funs <- GroupLeaves
  MaxChanges = 1
  MaxErrors = 0
  NotYet = NotYet
CHECK_DEADLOCK FALSE
INVARIANTS FetchesAll
