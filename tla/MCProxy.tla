------------------------------ MODULE MCProxy ------------------------------
(* The instance of Proxy for TLC: two endpoints of one control-plane       *)
(* function, the standard port and an ephemeral one, and payloads down to  *)
(* the empty one.                                                          *)
EXTENDS Proxy

MCUp == [addr |-> <<10, 0, 0, 2>>, port |-> 8805]
MCCpEps == {[addr |-> <<10, 0, 0, 1>>, port |-> p] : p \in {8805, 40000}}
MCMsgs == {<<>>, <<0>>, <<1>>, <<1, 2>>}
=============================================================================
