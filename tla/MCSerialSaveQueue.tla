-------------------------- MODULE MCSerialSaveQueue --------------------------
(* Small instances of SerialSaveQueue for TLC: a form with three fields. *)
EXTENDS SerialSaveQueue
CONSTANTS k1, k2, k3
=============================================================================
