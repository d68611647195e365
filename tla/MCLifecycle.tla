---------------------------- MODULE MCLifecycle ----------------------------
(* Lifecycle with its bound in MCLifecycle.cfg. *)
EXTENDS Lifecycle
=============================================================================
