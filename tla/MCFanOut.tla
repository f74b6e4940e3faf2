------------------------------ MODULE MCFanOut ------------------------------
(* Small instances of FanOut for TLC. *)
EXTENDS FanOut

GroupWaits == {"fetchBuckets", "fetchAllPostsForUser", "fetchUsersData"}
GroupLeaves == {"fetchAllPosts"}
============================================================================
