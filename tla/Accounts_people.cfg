SPECIFICATION FairSpec
CONSTANTS
  d1 = d1
  d2 = d2
  u1 = u1
  u2 = u2
  u3 = u3
  Devices = {d1, d2}
  Uids = {u1, u2, u3}
  Words = {ann}
  NoDoc = NoDoc
  Nobody = Nobody
  Budgets <- MCBudgets
CHECK_DEADLOCK FALSE
INVARIANTS TakenIsRefused DocumentComing BlockedStay OwnLists
PROPERTIES OwnDocument GetsDocument
