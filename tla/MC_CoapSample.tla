---------------------------- MODULE MC_CoapSample ----------------------------
(* Model-checking instance of CoapSample. *)
EXTENDS CoapSample
=============================================================================
