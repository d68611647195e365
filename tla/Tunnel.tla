------------------------------- MODULE Tunnel -------------------------------
(***************************************************************************)
(* The two sidecars of one tunnel, the side that dials and the side that   *)
(* accepts, and the two functions that talk through them. Each side is     *)
(* what Session makes of it: it holds at most one session, gives it up     *)
(* when it is told that the peer closed it, when its SVID is rotated, or   *)
(* when it has sent and heard nothing for deadAfter, and then connects     *)
(* again. A handshake needs both sides in connect at once: the server is   *)
(* in Accept only while it holds no session.                               *)
(*                                                                         *)
(* Time advances in ticks of one heartbeat interval: a function that sends *)
(* heartbeats sends one per tick, the other sends a request when it has    *)
(* one, and answers come within the tick.                                  *)
(***************************************************************************)
EXTENDS Naturals, FiniteSets

CONSTANTS
  DeadAfter,  \* deadAfter, in ticks
  MaxFaults   \* bound on what the environment does: deaths, exits,
              \* rotations, lost records and alerts, half-open handshakes

ASSUME TunnelAssumption == DeadAfter \in Nat \ {0} /\ MaxFaults \in Nat

Sides == {"client", "server"}
Other(x) == IF x = "client" THEN "server" ELSE "client"

VARIABLES
  running,     \* sides whose process runs
  hold,        \* sides whose holder has a session
  joined,      \* are the two sessions held the two ends of one
  told,        \* sides a close_notify for the session they hold is under way to
  unanswered,  \* sides with nSent > sentAtLastRecv
  silence,     \* per side: ticks since lastRecv
  first,       \* sides whose session is the one main connected
  heartbeats,  \* functions that send something every tick (never changes)
  due,         \* per function: what it has to send in this tick
  faults,      \* how many faults have happened
  lossy,       \* a record of the joined session was lost (history)
  carried,     \* sides whose receive clock is older than their session (history)
  excused      \* sides whose session ended without an announcement (history)

clock == <<unanswered, silence, carried>>
traffic == <<heartbeats, due>>
vars == <<running, hold, joined, told, clock, first, traffic, faults, lossy, excused>>

Fault == faults < MaxFaults /\ faults' = faults + 1

Init ==
  /\ running = {} /\ hold = {} /\ joined = FALSE /\ told = {}
  /\ unanswered = {} /\ silence = [x \in Sides |-> 0]
  /\ first = {}
  /\ heartbeats \in SUBSET Sides
  /\ due = [x \in Sides |-> "none"]
  /\ faults = 0
  /\ lossy = FALSE /\ carried = {} /\ excused = {}

-----------------------------------------------------------------------------
(* The process of a side starts, and its receiver's clock with it.         *)
Start(x) ==
  /\ x \notin running
  /\ running' = running \cup {x}
  /\ first' = first \cup {x}
  /\ unanswered' = unanswered \ {x}
  /\ silence' = [silence EXCEPT ![x] = 0]
  /\ carried' = carried \ {x}
  /\ UNCHANGED <<hold, joined, told, traffic, faults, lossy, excused>>

(* Dial and Accept meet and complete a handshake. *)
Handshake ==
  /\ running = Sides /\ hold = {}
  /\ hold' = Sides /\ joined' = TRUE /\ lossy' = FALSE
  /\ UNCHANGED <<running, told, clock, first, traffic, faults, excused>>

(* The last flight is lost: Accept has returned, the dial times out.       *)
HalfOpen ==
  /\ Fault
  /\ running = Sides /\ hold = {}
  /\ hold' = {"server"}
  /\ excused' = excused \cup {"server"}
  /\ UNCHANGED <<running, joined, told, clock, first, traffic, lossy>>

Close_Silent(x) == {}

(* Who learns from x's Close: the peer, if it holds the other end.         *)
Close(x) == IF joined THEN {Other(x)} ELSE {}

(* x no longer holds its session, which it closed or just left.            *)
Leaves(x, closed) ==
  /\ hold' = hold \ {x}
  /\ joined' = FALSE
  /\ told' = (told \ {x}) \cup (IF closed THEN Close(x) ELSE {})
  /\ excused' = (excused \ {x}) \cup (IF joined /\ ~closed THEN {Other(x)} ELSE {})
  /\ UNCHANGED <<traffic, lossy>>

(* The supervisor takes the session away and closes it. *)
Replaces(x) == Leaves(x, TRUE) /\ first' = first \ {x} /\ UNCHANGED running

(* Without a session the receiver sleeps and restarts its clock; it may be *)
(* too late to see that there was none.                                    *)
Sleep(x) ==
  /\ x \in running \ hold
  /\ unanswered' = unanswered \ {x}
  /\ silence' = [silence EXCEPT ![x] = 0]
  /\ carried' = carried \ {x}
  /\ UNCHANGED <<running, hold, joined, told, first, traffic, faults, lossy, excused>>

Rotates(x) ==
  /\ Fault
  /\ x \in hold
  /\ Replaces(x)
  /\ carried' = carried \cup {x}
  /\ UNCHANGED <<unanswered, silence>>

Hears_Ignored(x) ==
  /\ x \in told
  /\ told' = told \ {x}
  /\ UNCHANGED <<running, hold, joined, clock, first, traffic, faults, lossy, excused>>

(* The read fails: the peer has closed the session. *)
Hears(x) ==
  /\ x \in told
  /\ Replaces(x)
  /\ carried' = carried \cup {x}
  /\ UNCHANGED <<unanswered, silence, faults>>

Dead_Never(x) == FALSE

Dead_AtOnce(x) == x \in unanswered /\ silence[x] > 0

(* Sent, and nothing came back for longer than deadAfter. *)
Dead(x) == x \in unanswered /\ silence[x] > DeadAfter

(* The session is judged lost and the clock restarted; the sender may      *)
(* write once more before the supervisor takes the session away.           *)
GivesUp(x) ==
  /\ x \in hold
  /\ Dead(x)
  /\ Replaces(x)
  /\ unanswered' \in {unanswered, unanswered \ {x}}
  /\ silence' = [silence EXCEPT ![x] = 0]
  /\ carried' = carried \cup {x}
  /\ UNCHANGED faults

Dies(x) ==
  /\ Fault
  /\ x \in running
  /\ running' = running \ {x}
  /\ Leaves(x, FALSE)
  /\ UNCHANGED <<first, clock>>

(* main returns. Its deferred Close is that of the first connection.       *)
Exits(x) ==
  /\ Fault
  /\ x \in running
  /\ running' = running \ {x}
  /\ Leaves(x, x \in first)
  /\ UNCHANGED <<first, clock>>

-----------------------------------------------------------------------------
(* The functions and the network between the sidecars. *)

(* x's function sends what is due and x's sender writes it. On a joined    *)
(* session it reaches the peer, whose clock restarts; a request asks for   *)
(* an answer.                                                              *)
Sends(x) ==
  LET y == Other(x) IN
  /\ due[x] # "none"
  /\ unanswered' = (IF x \in hold THEN unanswered \cup {x} ELSE unanswered)
                     \ (IF joined THEN {y} ELSE {})
  /\ silence' = IF joined THEN [silence EXCEPT ![y] = 0] ELSE silence
  /\ carried' = IF joined THEN carried \ {y} ELSE carried
  /\ due' = [due EXCEPT ![x] = "none",
                        ![y] = IF joined /\ due[x] = "request" /\ @ = "none"
                                 THEN "answer" ELSE @]
  /\ UNCHANGED <<running, hold, joined, told, first, heartbeats, faults, lossy, excused>>

LosesRecord(x) ==
  /\ Fault
  /\ joined /\ due[x] # "none"
  /\ due' = [due EXCEPT ![x] = "none"]
  /\ unanswered' = unanswered \cup {x}
  /\ lossy' = TRUE
  /\ UNCHANGED <<running, hold, joined, told, silence, carried, first, heartbeats, excused>>

LosesAlert(x) ==
  /\ Fault
  /\ x \in told
  /\ told' = told \ {x}
  /\ excused' = excused \cup {x}
  /\ UNCHANGED <<running, hold, joined, clock, first, traffic, lossy>>

(* Answers and alerts take less than a tick; a receiver that is without a  *)
(* session for a whole tick has seen it.                                   *)
Tick ==
  /\ told = {} /\ \A x \in Sides : due[x] = "none"
  /\ due' \in [Sides -> {"none", "request"}]
  /\ \A x \in heartbeats : due'[x] = "request"
  /\ silence' = [x \in Sides |->
                   IF x \notin hold THEN 0
                   ELSE IF silence[x] > DeadAfter THEN silence[x] ELSE silence[x] + 1]
  /\ unanswered' = unanswered \cap hold
  /\ carried' = carried \cap hold
  /\ UNCHANGED <<running, hold, joined, told, first, heartbeats, faults, lossy, excused>>

Next ==
  \/ Handshake \/ HalfOpen \/ Tick
  \/ \E x \in Sides :
       \/ Start(x) \/ Sleep(x) \/ Rotates(x) \/ Hears(x) \/ GivesUp(x)
       \/ Dies(x) \/ Exits(x) \/ Sends(x) \/ LosesRecord(x) \/ LosesAlert(x)

Spec == Init /\ [][Next]_vars

(* Supervisors and receivers run, time passes, and two sides that wait for *)
(* each other complete a handshake in the end. Nobody has to restart.      *)
FairSpec ==
  /\ Spec
  /\ WF_vars(Handshake)
  /\ WF_vars(Tick)
  /\ \A x \in Sides : WF_vars(Hears(x)) /\ WF_vars(GivesUp(x)) /\ WF_vars(Sends(x))

-----------------------------------------------------------------------------
(* Every variable keeps its type, a joined session has two ends, and only  *)
(* who holds a session that is not joined is told or excused.              *)
TypeOK ==
  /\ running \in SUBSET Sides /\ hold \in SUBSET running
  /\ joined \in BOOLEAN /\ (joined => hold = Sides)
  /\ told \in SUBSET hold /\ (joined => told = {})
  /\ unanswered \in SUBSET Sides
  /\ silence \in [Sides -> 0..(DeadAfter + 1)]
  /\ first \in SUBSET Sides
  /\ heartbeats \in SUBSET Sides
  /\ due \in [Sides -> {"none", "answer", "request"}]
  /\ faults \in 0..MaxFaults
  /\ lossy \in BOOLEAN
  /\ carried \in SUBSET Sides
  /\ excused \in SUBSET hold

(* A side is left alone with a session it cannot tell is dead only by a    *)
(* crash, a lost alert or handshake flight, or the exit of a peer whose    *)
(* session was not its first: every other end is announced (session.go     *)
(* old.Close, main.go defer conn.Close).                                   *)
AloneOnlyIfExcused ==
  \A x \in Sides : x \in hold /\ ~joined => x \in told \/ x \in excused

(* "a slow peer would be mistaken for a dead one" (proxy.go): as long as   *)
(* one of the functions sends heartbeats, a session both ends hold is      *)
(* given up only if one of its records was lost, or the receive clock was  *)
(* carried over from the session before it. Without heartbeats a pause     *)
(* longer than deadAfter after the last answer looks the same as a death.  *)
HealthyKept ==
  [][\A x \in Sides :
       joined /\ GivesUp(x) => lossy \/ x \in carried \/ heartbeats = {}]_vars

(* "if datagrams have been sent and nothing has come back ... the session  *)
(* is treated as lost and re-established" (troubleshooting.md): whatever   *)
(* restarts, rotations and losses did, when both functions send heartbeats *)
(* the two sidecars end up on one session and stay there.                  *)
Reunited ==
  heartbeats = Sides /\ <>[](running = Sides) => <>[]joined

(* Sides that always learn of the end of their session (a close_notify     *)
(* that arrives) come together again whatever the functions send, and stay *)
(* together if one of them sends heartbeats.                               *)
ReunitedIfTold ==
  [](excused = {}) /\ <>[](running = Sides)
    => []<>joined /\ (heartbeats # {} => <>[]joined)
=============================================================================
