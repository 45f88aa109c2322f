----------------------------- MODULE MCLifecycle -----------------------------
(* Two clients for the service: one to come while the other goes.  One client *)
(* is enough for the two disagreements.                                       *)
EXTENDS Lifecycle
================================================================================
