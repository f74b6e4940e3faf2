--------------------------- MODULE MCPostBuckets ---------------------------
(* Small instances of PostBuckets for TLC. *)
EXTENDS PostBuckets, FiniteSets, TLC

Symmetric == Permutations(Users) \cup Permutations(Buckets)
============================================================================
