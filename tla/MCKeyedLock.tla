---------------------------- MODULE MCKeyedLock -----------------------------
(* KeyedLock for TLC.  Its constants are given in the configuration. *)
EXTENDS KeyedLock
=============================================================================
