---------------------------- MODULE MC_DoorSample ----------------------------
(* Model-checking instance of DoorSample. *)
EXTENDS DoorSample
=============================================================================
