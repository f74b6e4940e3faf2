SPECIFICATION Spec
CONSTANTS
  Users = {u1, u2}
  Buckets = {b1, b2}
  Zero = Zero
  Empty = Empty
  NoPost = NoPost
  MaxOps = 3
  MaxKills = 0
  Repick = FALSE
  EarlyPost = FALSE
  DeletePosts = FALSE
CHECK_DEADLOCK FALSE
SYMMETRY Symmetric
INVARIANTS Filed NoCrash
