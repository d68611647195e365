----------------------------- MODULE N4Channel -----------------------------
(***************************************************************************)
(* What a capturing datapath promises a network function about each of its *)
(* messages. Outside the sidecar a message is unsent, and may pass by it   *)
(* in plaintext or be refused. Once captured it goes into a record of the  *)
(* DTLS session or is dropped: it is never let go in plaintext, never      *)
(* carried after it was dropped, never dropped and then seen again.        *)
(***************************************************************************)

CONSTANT Msgs

VARIABLE state  \* of each message

Steps == {<<"unsent", "plain">>, <<"unsent", "dropped">>, <<"unsent", "captured">>,
          <<"captured", "carried">>, <<"captured", "dropped">>}

ChInit == state = [m \in Msgs |-> "unsent"]

(* One event may settle several messages: the end of a process, say. *)
ChNext == \A m \in Msgs : state'[m] = state[m] \/ <<state[m], state'[m]>> \in Steps

ChSpec == ChInit /\ [][ChNext]_state
=============================================================================
