------------------------------ MODULE MCTunnel ------------------------------
(* Tunnel with its bounds in MCTunnel.cfg. *)
EXTENDS Tunnel
=============================================================================
