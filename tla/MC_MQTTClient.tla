---------------------------- MODULE MC_MQTTClient ----------------------------
(* Model-checking instance of MQTTClient: the constants of the runs. *)
EXTENDS MQTTClient

\* rand() % 65536 at its two ends and in the middle: 65535 is the residue
\* whose "+ 1" no longer fits the uint16_t start packet id.
MCRandResidues == {0, 32767, 65535}
=============================================================================
