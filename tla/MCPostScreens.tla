--------------------------- MODULE MCPostScreens ---------------------------
(* Small instances of PostScreens for TLC. *)
EXTENDS PostScreens
=============================================================================
