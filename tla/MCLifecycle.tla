----------------------------- MODULE MCLifecycle -----------------------------
(* One sandbox with its reconciler, the TTL coordinator and one client, for TLC. *)
EXTENDS Lifecycle
=============================================================================
