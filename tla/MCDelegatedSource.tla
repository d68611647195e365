------------------------- MODULE MCDelegatedSource -------------------------
(* The instance of DelegatedSource for TLC. The delegate's own SVID is     *)
(* there or not; the wanted one and the peer's bundle are renewed.         *)
EXTENDS DelegatedSource

CONSTANT peer

MCMaxIssues == [i \in Ids |-> IF i = Want THEN 2 ELSE 1]
MCMaxRolls == [d \in Domains |-> IF d = peer THEN 2 ELSE 1]
=============================================================================
