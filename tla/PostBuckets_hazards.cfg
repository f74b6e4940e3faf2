SPECIFICATION Spec
CONSTANTS
  Users = {u1, u2}
  Buckets = {b1, b2}
  Zero = Zero
  Empty = Empty
  NoPost = NoPost
  MaxOps = 3
  MaxKills = 1
  Repick = FALSE
  EarlyPost = TRUE
  DeletePosts = TRUE
CHECK_DEADLOCK FALSE
SYMMETRY Symmetric
INVARIANTS TypeOK OnlyFiled HasComments
PROPERTIES NoRevival DeadStaysDead Shelved
