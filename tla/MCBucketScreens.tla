-------------------------- MODULE MCBucketScreens --------------------------
(* Small instances of BucketScreens for TLC. *)
EXTENDS BucketScreens
============================================================================
