SPECIFICATION FairSpec
CONSTANTS
  Users = {u1, u2}
  Buckets = {b1, b2}
  Zero = Zero
  Empty = Empty
  NoPost = NoPost
  MaxOps = 2
  MaxKills = 0
  Repick = TRUE
  EarlyPost = FALSE
  DeletePosts = FALSE
CHECK_DEADLOCK FALSE
PROPERTIES CreatedIsFiled
