-------------------------- MODULE MCRunnerServices --------------------------
(* Two terminals for a manager with one slot, two file requests, a terminal beside a file
   request.  An upload holds two descriptors at a time, so two requests never want more
   than four. *)
EXTENDS RunnerServices
=============================================================================
