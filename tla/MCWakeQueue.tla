---------------------------- MODULE MCWakeQueue -----------------------------
(* WakeQueue for TLC.  Its constants are given in the configuration. *)
EXTENDS WakeQueue
=============================================================================
