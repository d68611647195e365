----------------------------- MODULE MCSession -----------------------------
(* Instances of Session for TLC. *)
EXTENDS Session, TLC

(* Addresses are interchangeable; only safety is checked with this. *)
ConnSymmetry == Permutations(Conns)
=============================================================================
