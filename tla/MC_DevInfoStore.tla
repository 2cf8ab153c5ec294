--------------------------- MODULE MC_DevInfoStore ---------------------------
(* Model-checking instance of DevInfoStore. *)
EXTENDS DevInfoStore
=============================================================================
