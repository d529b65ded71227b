------------------------- MODULE MCExecutionManager -------------------------
(* ExecutionManager for TLC.  Its constants are given in the configuration. *)
EXTENDS ExecutionManager
=============================================================================
