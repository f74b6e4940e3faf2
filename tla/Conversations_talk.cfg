SPECIFICATION FairSpec
CONSTANTS
  Users = {u1, u2}
  Followed = {u1}
  Ids = {1, 2}
  Budgets <- MCBudgets
CHECK_DEADLOCK FALSE
INVARIANTS ListedExists NoneDropped NewestWins RowIsConversation OwnMessages ShowsSeen
PROPERTIES Directed AllListed Arrives
