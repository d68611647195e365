---------------------------- MODULE CredSource -----------------------------
(***************************************************************************)
(* What a rotating credSource (identity.go) promises its consumer: the     *)
(* SVID it serves changes in place, and every change after the first SVID  *)
(* is followed by one signal, which may merge with one still pending.      *)
(***************************************************************************)
VARIABLES
  serving,  \* the SVID certificate() returns
  owed,     \* a change has been installed and not been signalled yet
  pending   \* a signal waits in rotations()

CONSTANT NoSVID   \* nothing served yet

csVars == <<serving, owed, pending>>

CSInit ==
  /\ owed = FALSE
  /\ pending = FALSE

First ==
  /\ serving = NoSVID
  /\ serving' # NoSVID
  /\ UNCHANGED <<owed, pending>>

Renew ==
  /\ serving # NoSVID
  /\ ~owed
  /\ serving' \notin {serving, NoSVID}
  /\ owed' = TRUE
  /\ pending' = pending

Signal ==
  /\ owed
  /\ owed' = FALSE
  /\ pending' = TRUE
  /\ serving' = serving

Take ==
  /\ pending
  /\ pending' = FALSE
  /\ UNCHANGED <<serving, owed>>

CSNext == First \/ Renew \/ Signal \/ Take

CSSpec == CSInit /\ [][CSNext]_csVars
=============================================================================
