--------------------------- MODULE MCTTLScheduler ---------------------------
(* TTLScheduler with two sandboxes and one renewal, for TLC. *)
EXTENDS TTLScheduler, TLC
=============================================================================
