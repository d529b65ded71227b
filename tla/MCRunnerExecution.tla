-------------------------- MODULE MCRunnerExecution --------------------------
(* RunnerExecution for TLC.  Its constants are given in the configurations. *)
EXTENDS RunnerExecution
=============================================================================
