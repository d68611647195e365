----------------------------- MODULE ConnHolder -----------------------------
(***************************************************************************)
(* What session supervision promises the goroutines that use the session   *)
(* (session.go: "keep exactly one live DTLS session"). One session is open *)
(* at a time. It is offered only while it is open, and withdrawn before it *)
(* is closed. It is given up only for a rotation or because somebody met a *)
(* failure on that very session. The next one is opened after the last is  *)
(* closed.                                                                 *)
(***************************************************************************)
CONSTANTS
  Sessions,
  None

VARIABLES
  offered,    \* what get() returns
  open,       \* sessions that are open
  failed,     \* those somebody met a failure on
  signal,     \* a rotation waits to be acted on
  replacing   \* the session is about to be given up

chVars == <<offered, open, failed, signal, replacing>>

CHInit ==
  /\ offered # None /\ open = {offered} /\ failed = {}
  /\ signal = FALSE /\ replacing = FALSE

Rotate ==
  /\ signal' = TRUE
  /\ UNCHANGED <<offered, open, failed, replacing>>

Fail ==
  /\ \E c \in open : failed' = failed \cup {c}
  /\ UNCHANGED <<offered, open, signal, replacing>>

(* With nothing on offer there is nothing to lose: a retry. *)
Decide ==
  /\ ~replacing /\ replacing' = TRUE
  /\ \/ signal /\ signal' = FALSE
     \/ offered \in failed \cup {None} /\ signal' = signal
  /\ UNCHANGED <<offered, open, failed>>

Withdraw ==
  /\ replacing /\ replacing' = FALSE
  /\ offered' = None
  /\ UNCHANGED <<open, failed, signal>>

Close ==
  /\ offered = None /\ ~replacing
  /\ open' = {} /\ failed' = {}
  /\ UNCHANGED <<offered, signal, replacing>>

Connect ==
  /\ offered = None /\ open = {} /\ ~replacing
  /\ \E c \in Sessions : open' = {c}
  /\ UNCHANGED <<offered, failed, signal, replacing>>

Present ==
  /\ offered = None /\ ~replacing
  /\ \E c \in open : offered' = c
  /\ UNCHANGED <<open, failed, signal, replacing>>

CHNext == Rotate \/ Fail \/ Decide \/ Withdraw \/ Close \/ Connect \/ Present

CHSpec == CHInit /\ [][CHNext]_chVars
=============================================================================
