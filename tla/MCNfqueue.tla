----------------------------- MODULE MCNfqueue -----------------------------
(* Instances of Nfqueue for TLC. *)
EXTENDS Nfqueue
=============================================================================
