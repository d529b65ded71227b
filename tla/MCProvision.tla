---------------------------- MODULE MCProvision ----------------------------
(* One outbound sandbox; two namespaces are enough for a main container and a new sidecar. *)
EXTENDS Provision

\* The two configurations differ in name only, so the behaviours that begin with one of them
\* stand for all; the other one comes with a restart.
MCInit == Init /\ config = "c1"
MCSpec == MCInit /\ [][Next]_vars /\ Fairness
=============================================================================
