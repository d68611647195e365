-------------------------- MODULE MCInterception ---------------------------
(* Instances of Interception for TLC. *)
EXTENDS Interception
=============================================================================
