---------------------------- MODULE TunnelProofs ----------------------------
(***************************************************************************)
(* What the two sidecars of a tunnel never do to each other, for every     *)
(* deadAfter and any number of faults: a side is left alone unannounced    *)
(* only by a fault, and a session that loses nothing is not given up.      *)
(***************************************************************************)
EXTENDS Tunnel, TLAPS

(* A receiver without a session whose clock is not an old one's has just   *)
(* restarted it.                                                           *)
IdleInv ==
  \A x \in Sides : x \notin hold /\ x \notin carried /\ x \in running => silence[x] = 0

(* An answer is given in the tick of its request, in which the side that   *)
(* gives it heard something.                                               *)
DueInv == \A x \in Sides : due[x] = "answer" => silence[x] = 0

(* On a session that has lost nothing, heartbeats of either function make  *)
(* each side hear something every tick: the heartbeat, or its answer.      *)
Timely(x) ==
  heartbeats # {} => \/ silence[x] = 0
                     \/ silence[x] = 1 /\ (due[x] = "request" \/ due[Other(x)] # "none")

TimelyInv == joined /\ ~lossy => \A x \in Sides \ carried : Timely(x)

Inv == TypeOK /\ AloneOnlyIfExcused /\ IdleInv /\ DueInv /\ TimelyInv

Step(x) ==
  \/ Start(x) \/ Sleep(x) \/ Rotates(x) \/ Hears(x) \/ GivesUp(x)
  \/ Dies(x) \/ Exits(x) \/ Sends(x) \/ LosesRecord(x) \/ LosesAlert(x)

-----------------------------------------------------------------------------
(* A side and its peer are the two sides. *)
LEMMA Two == \A x \in Sides : /\ Other(x) \in Sides /\ Other(x) # x
                              /\ Other(Other(x)) = x
                              /\ Sides = {x, Other(x)}
BY DEF Sides, Other

(* Nothing is held, sent or due at first. *)
LEMMA InitInv == ASSUME Init PROVE Inv
<1>1. joined \in BOOLEAN /\ lossy \in BOOLEAN
  BY Zenon DEF Init
<1>2. TypeOK
  BY <1>1, TunnelAssumption DEF Init, TypeOK
<1>3. AloneOnlyIfExcused /\ IdleInv /\ DueInv /\ TimelyInv
  BY DEF Init, AloneOnlyIfExcused, IdleInv, DueInv, TimelyInv
<1>. QED  BY <1>2, <1>3 DEF Inv

(* A step that takes x's session away (Replaces, or the end of its process) *)
(* leaves the peer told or excused, and no session joined.                 *)
LEMMA LeavesInv ==
  ASSUME Inv, NEW x \in Sides, NEW closed, Leaves(x, closed),
         running' \in {running, running \ {x}}, x \in hold \/ x \notin running',
         x \in running
  PROVE  /\ hold' \in SUBSET running' /\ hold' = hold \ {x}
         /\ ~joined'
         /\ told' \in SUBSET hold' /\ excused' \in SUBSET hold'
         /\ AloneOnlyIfExcused'
         /\ UNCHANGED <<heartbeats, due, lossy>>
<1>1. TypeOK /\ AloneOnlyIfExcused
  BY DEF Inv
<1>2. UNCHANGED <<heartbeats, due, lossy>> /\ ~joined' /\ hold' = hold \ {x}
  BY DEF Leaves, traffic
<1>3. hold' \in SUBSET running'
  BY <1>1, <1>2 DEF TypeOK
<1>4. told' \in SUBSET hold' /\ excused' \in SUBSET hold'
  BY <1>1, <1>2, Two DEF TypeOK, Leaves, Close
<1>5. AloneOnlyIfExcused'
  BY <1>1, <1>2, Two DEF TypeOK, Leaves, Close, AloneOnlyIfExcused
<1>. QED  BY <1>2, <1>3, <1>4, <1>5

(* What remains of the invariant when x gives its session up: its clock is *)
(* carried over, or restarted, or its process is gone.                     *)
LEMMA GoneInv ==
  ASSUME Inv, NEW x \in Sides, NEW closed, Leaves(x, closed),
         running' \in {running, running \ {x}}, x \in hold \/ x \notin running',
         x \in running,
         x \in carried' \/ x \notin running',
         carried' \in {carried, carried \cup {x}},
         unanswered' \in {unanswered, unanswered \ {x}},
         silence' \in {silence, [silence EXCEPT ![x] = 0]},
         first' \in {first, first \ {x}},
         faults' \in 0..MaxFaults
  PROVE  Inv'
<1>1. TypeOK /\ IdleInv /\ DueInv
  BY DEF Inv
<1>2. /\ hold' \in SUBSET running' /\ hold' = hold \ {x}
      /\ ~joined'
      /\ told' \in SUBSET hold' /\ excused' \in SUBSET hold'
      /\ AloneOnlyIfExcused'
      /\ UNCHANGED <<heartbeats, due, lossy>>
  BY LeavesInv
<1>3. joined' \in BOOLEAN /\ lossy' \in BOOLEAN
  BY <1>1, <1>2, Zenon DEF TypeOK, Leaves
<1>4. \A y \in Sides : silence'[y] = silence[y] \/ silence'[y] = 0
  BY <1>1 DEF TypeOK
<1>5. silence' \in [Sides -> 0..(DeadAfter + 1)]
  BY <1>1, TunnelAssumption DEF TypeOK
<1>6. TypeOK'
  BY <1>1, <1>2, <1>3, <1>5 DEF TypeOK
<1>7. IdleInv'
  BY <1>1, <1>2, <1>4 DEF TypeOK, IdleInv
<1>8. DueInv'
  BY <1>1, <1>2, <1>4 DEF DueInv
<1>9. TimelyInv'
  BY <1>2 DEF TimelyInv
<1>. QED  BY <1>2, <1>6, <1>7, <1>8, <1>9 DEF Inv

(* The two sides come together with clocks that are fresh, or carried.     *)
LEMMA HandshakeInv == ASSUME Inv, Handshake PROVE Inv'
<1>1. TypeOK /\ IdleInv /\ DueInv
  BY DEF Inv
<1>2. joined' \in BOOLEAN /\ lossy' \in BOOLEAN /\ joined' = TRUE
  BY Zenon DEF Handshake
<1>3. TypeOK'
  BY <1>1, <1>2 DEF TypeOK, Handshake, clock, traffic
<1>4. AloneOnlyIfExcused' /\ IdleInv' /\ DueInv'
  BY <1>1 DEF AloneOnlyIfExcused, IdleInv, DueInv, Handshake, clock, traffic
<1>5. TimelyInv'
  BY <1>1 DEF TimelyInv, Timely, IdleInv, Handshake, clock, traffic
<1>. QED  BY <1>3, <1>4, <1>5 DEF Inv

(* Only the server holds a session, and nobody will tell it.               *)
LEMMA HalfOpenInv == ASSUME Inv, HalfOpen PROVE Inv'
<1>1. TypeOK /\ AloneOnlyIfExcused /\ IdleInv /\ DueInv
  BY DEF Inv
<1>2. joined' \in BOOLEAN /\ lossy' \in BOOLEAN /\ ~joined
  BY <1>1, Zenon DEF TypeOK, HalfOpen, Sides
<1>3. faults' \in 0..MaxFaults
  BY <1>1, TunnelAssumption DEF TypeOK, HalfOpen, Fault
<1>4. TypeOK'
  BY <1>1, <1>2, <1>3 DEF TypeOK, HalfOpen, clock, traffic, Sides
<1>5. AloneOnlyIfExcused' /\ IdleInv' /\ DueInv' /\ TimelyInv'
  BY <1>1, <1>2 DEF AloneOnlyIfExcused, IdleInv, DueInv, TimelyInv, HalfOpen, clock, traffic
<1>. QED  BY <1>4, <1>5 DEF Inv

(* A tick finds everything answered, or an answer behind each silence.     *)
LEMMA TickInv == ASSUME Inv, Tick PROVE Inv'
<1>1. TypeOK /\ AloneOnlyIfExcused /\ IdleInv /\ DueInv /\ TimelyInv
  BY DEF Inv
<1>2. joined' \in BOOLEAN /\ lossy' \in BOOLEAN
  BY <1>1, Zenon DEF TypeOK, Tick
<1>3. /\ silence' \in [Sides -> 0..(DeadAfter + 1)]
      /\ due' \in [Sides -> {"none", "answer", "request"}]
  BY <1>1, TunnelAssumption DEF TypeOK, Tick
<1>4. TypeOK'
  BY <1>1, <1>2, <1>3 DEF TypeOK, Tick
<1>5. AloneOnlyIfExcused' /\ IdleInv' /\ DueInv'
  BY <1>1 DEF AloneOnlyIfExcused, IdleInv, DueInv, Tick
<1>6. TimelyInv'
  <2>. SUFFICES ASSUME joined', ~lossy', NEW x \in Sides, x \notin carried'
                PROVE  Timely(x)'
    BY DEF TimelyInv
  <2>1. joined /\ ~lossy /\ hold = Sides /\ x \notin carried
    BY <1>1 DEF TypeOK, Tick
  <2>2. Timely(x) /\ due[x] = "none" /\ due[Other(x)] = "none"
    BY <1>1, <2>1, Two DEF TimelyInv, Tick
  <2>3. /\ silence[x] = 0 => silence'[x] = 1
        /\ heartbeats' = heartbeats
        /\ \A z \in heartbeats : due'[z] = "request"
    BY <2>1, TunnelAssumption DEF Tick
  <2>4. heartbeats # {} => x \in heartbeats \/ Other(x) \in heartbeats
    BY <1>1, Two DEF TypeOK
  <2>. QED  BY <2>2, <2>3, <2>4 DEF Timely
<1>. QED  BY <1>4, <1>5, <1>6 DEF Inv

(* A process that starts, or sleeps without a session, has a fresh clock.  *)
LEMMA RestInv == ASSUME Inv, NEW x \in Sides, Start(x) \/ Sleep(x) PROVE Inv'
<1>1. TypeOK /\ AloneOnlyIfExcused /\ IdleInv /\ DueInv
  BY DEF Inv
<1>2. joined' \in BOOLEAN /\ lossy' \in BOOLEAN
  BY <1>1, Zenon DEF TypeOK, Start, Sleep
<1>3. silence' \in [Sides -> 0..(DeadAfter + 1)]
  BY <1>1, TunnelAssumption DEF TypeOK, Start, Sleep
<1>4. TypeOK'
  BY <1>1, <1>2, <1>3 DEF TypeOK, Start, Sleep, traffic
<1>5. \A y \in Sides : silence'[y] = silence[y] \/ silence'[y] = 0
  BY <1>1 DEF TypeOK, Start, Sleep
<1>6. silence'[x] = 0 /\ \A y \in Sides : y # x => silence'[y] = silence[y]
  BY <1>1 DEF TypeOK, Start, Sleep
<1>7. AloneOnlyIfExcused' /\ DueInv'
  BY <1>1, <1>5 DEF AloneOnlyIfExcused, DueInv, Start, Sleep, traffic
<1>8. IdleInv'
  BY <1>1, <1>6 DEF IdleInv, Start, Sleep
<1>9. TimelyInv'
  BY <1>1 DEF TypeOK, TimelyInv, Start, Sleep
<1>. QED  BY <1>4, <1>7, <1>8, <1>9 DEF Inv

(* What is sent on a joined session restarts the peer's clock, and a       *)
(* request makes the peer send.                                            *)
LEMMA SendsInv == ASSUME Inv, NEW x \in Sides, Sends(x) PROVE Inv'
<1>. DEFINE y == Other(x)
<1>1. TypeOK /\ AloneOnlyIfExcused /\ IdleInv /\ DueInv /\ TimelyInv
  BY DEF Inv
<1>2. joined' \in BOOLEAN /\ lossy' \in BOOLEAN
  BY <1>1, Zenon DEF TypeOK, Sends
<1>3. y \in Sides /\ y # x /\ Other(y) = x /\ Sides = {x, y}
  BY Two
<1>4. /\ silence' \in [Sides -> 0..(DeadAfter + 1)]
      /\ due' \in [Sides -> {"none", "answer", "request"}]
  <2>1. silence' \in [Sides -> 0..(DeadAfter + 1)]
    <3>1. silence' \in {silence, [silence EXCEPT ![y] = 0]}
      BY DEF Sends
    <3>. QED  BY <1>1, <3>1, TunnelAssumption DEF TypeOK
  <2>2. due' \in [Sides -> {"none", "answer", "request"}]
    BY <1>1 DEF TypeOK, Sends
  <2>. QED  BY <2>1, <2>2
<1>5. TypeOK'
  BY <1>1, <1>2, <1>4 DEF TypeOK, Sends
<1>6. AloneOnlyIfExcused'
  BY <1>1 DEF AloneOnlyIfExcused, Sends
<1>7. /\ due'[x] = "none"
      /\ due'[y] = IF joined /\ due[x] = "request" /\ due[y] = "none"
                     THEN "answer" ELSE due[y]
      /\ silence'[x] = silence[x]
      /\ silence'[y] = IF joined THEN 0 ELSE silence[y]
  BY <1>1, <1>3 DEF TypeOK, Sends
<1>8. DueInv'
  <2>1. UNCHANGED heartbeats
    BY DEF Sends
  <2>. QED  BY <1>1, <1>3, <1>7, <2>1 DEF DueInv
<1>9. IdleInv'
  BY <1>1, <1>3, <1>7 DEF TypeOK, IdleInv, Sends
<1>10. TimelyInv'
  <2>. SUFFICES ASSUME joined', ~lossy' PROVE \A z \in Sides \ carried' : Timely(z)'
    BY DEF TimelyInv
  <2>1. joined /\ ~lossy /\ hold = Sides /\ UNCHANGED heartbeats
    BY <1>1 DEF TypeOK, Sends
  <2>2. /\ due[x] # "none" /\ due[x] \in {"none", "answer", "request"}
        /\ carried' = carried \ {y}
    BY <1>1, <2>1 DEF TypeOK, Sends
  <2>3. Timely(y)'
    BY <1>3, <1>7, <2>1, <2>2 DEF Timely
  <2>4. ASSUME x \notin carried PROVE Timely(x)'
    <3>1. Timely(x)
      BY <1>1, <2>1, <2>4 DEF TimelyInv
    <3>2. CASE due[x] = "answer"
      BY <1>1, <1>7, <2>1, <3>2 DEF Timely, DueInv
    <3>3. CASE due[x] = "request"
      BY <1>7, <2>1, <3>1, <3>3 DEF Timely
    <3>. QED  BY <2>2, <3>2, <3>3
  <2>. QED  BY <1>3, <2>2, <2>3, <2>4
<1>. QED  BY <1>5, <1>6, <1>8, <1>9, <1>10 DEF Inv

(* A lost record excuses the session, a lost alert the side it was for.    *)
LEMMA LossInv == ASSUME Inv, NEW x \in Sides, LosesRecord(x) \/ LosesAlert(x) PROVE Inv'
<1>1. TypeOK /\ AloneOnlyIfExcused /\ IdleInv /\ DueInv /\ TimelyInv
  BY DEF Inv
<1>2. joined' \in BOOLEAN /\ lossy' \in BOOLEAN
  BY <1>1, Zenon DEF TypeOK, LosesRecord, LosesAlert
<1>3. faults' \in 0..MaxFaults
  BY <1>1, TunnelAssumption DEF TypeOK, LosesRecord, LosesAlert, Fault
<1>4. due' \in [Sides -> {"none", "answer", "request"}]
  BY <1>1 DEF TypeOK, LosesRecord, LosesAlert, traffic
<1>5. TypeOK'
  BY <1>1, <1>2, <1>3, <1>4 DEF TypeOK, LosesRecord, LosesAlert, traffic, clock
<1>6. AloneOnlyIfExcused' /\ IdleInv'
  BY <1>1 DEF TypeOK, AloneOnlyIfExcused, IdleInv, LosesRecord, LosesAlert, clock
<1>7. DueInv'
  BY <1>1 DEF TypeOK, DueInv, LosesRecord, LosesAlert, clock, traffic
<1>8. TimelyInv'
  BY <1>1 DEF TypeOK, TimelyInv, LosesRecord, LosesAlert
<1>. QED  BY <1>5, <1>6, <1>7, <1>8 DEF Inv

(* The steps by which x gives its session up. *)
LEMMA LeavingInv ==
  ASSUME Inv, NEW x \in Sides,
         Rotates(x) \/ Hears(x) \/ GivesUp(x) \/ Dies(x) \/ Exits(x)
  PROVE  Inv'
<1>1. TypeOK
  BY DEF Inv
<1>2. faults' \in 0..MaxFaults
  <2>1. Fault \/ faults' = faults
    BY DEF Rotates, Hears, GivesUp, Dies, Exits
  <2>. QED  BY <1>1, <2>1, TunnelAssumption DEF TypeOK, Fault
<1>3. CASE Rotates(x) \/ Hears(x) \/ GivesUp(x)
  <2>1. Leaves(x, TRUE) /\ first' = first \ {x} /\ running' = running
    BY <1>3 DEF Rotates, Hears, GivesUp, Replaces
  <2>2. x \in hold /\ x \in running
    BY <1>1, <1>3 DEF TypeOK, Rotates, Hears, GivesUp
  <2>3. /\ carried' = carried \cup {x}
        /\ unanswered' \in {unanswered, unanswered \ {x}}
        /\ silence' \in {silence, [silence EXCEPT ![x] = 0]}
    BY <1>3 DEF Rotates, Hears, GivesUp
  <2>. QED  BY <1>2, <2>1, <2>2, <2>3, GoneInv
<1>4. CASE Dies(x) \/ Exits(x)
  <2>1. PICK closed : Leaves(x, closed)
    BY <1>4, Zenon DEF Dies, Exits
  <2>2. /\ x \in running /\ running' = running \ {x}
        /\ carried' = carried /\ unanswered' = unanswered /\ silence' = silence
        /\ first' = first
    BY <1>4 DEF Dies, Exits, clock
  <2>. QED  BY <1>2, <2>1, <2>2, GoneInv
<1>. QED  BY <1>3, <1>4

(* Every step keeps the invariant. *)
LEMMA NextInv == Inv /\ [Next]_vars => Inv'
<1>. SUFFICES ASSUME Inv, [Next]_vars PROVE Inv'
  OBVIOUS
<1>1. CASE UNCHANGED vars
  BY <1>1 DEF vars, clock, traffic, Inv, TypeOK, AloneOnlyIfExcused, IdleInv, DueInv,
       TimelyInv, Timely
<1>2. CASE Next
  <2>1. CASE Handshake \/ HalfOpen \/ Tick
    BY <2>1, HandshakeInv, HalfOpenInv, TickInv
  <2>2. CASE \E x \in Sides : Step(x)
    BY <2>2, RestInv, SendsInv, LossInv, LeavingInv DEF Step
  <2>. QED  BY <1>2, <2>1, <2>2 DEF Next, Step
<1>. QED  BY <1>1, <1>2

-----------------------------------------------------------------------------
(* The account of announced ends and of timely answers holds in every state. *)
THEOREM Invariance == Spec => []Inv
BY InitInv, NextInv, PTL DEF Spec

(* For every deadAfter and any number of faults, a side is left holding a  *)
(* session nobody else holds, and nobody is telling it, only by a crash, a *)
(* lost alert or flight, or an exit that closes the first connection       *)
(* instead of the current one (main.go defer conn.Close).                  *)
THEOREM AloneExcused == Spec => []AloneOnlyIfExcused
<1>1. Inv => AloneOnlyIfExcused
  BY DEF Inv
<1>. QED  BY <1>1, Invariance, PTL

(* For every deadAfter of at least one heartbeat interval, heartbeats of   *)
(* one function are enough for the receivers' clocks (proxy.go deadAfter)  *)
(* never to end a joined session that has lost no record, unless the clock *)
(* was carried over from an earlier session.                               *)
THEOREM HealthySessionsKept == Spec => HealthyKept
<1>1. ASSUME Inv, NEW x \in Sides, joined, GivesUp(x), ~lossy, x \notin carried, heartbeats # {}
      PROVE  FALSE
  <2>1. Timely(x) /\ silence[x] > DeadAfter
    BY <1>1 DEF Inv, TimelyInv, GivesUp, Dead
  <2>. QED  BY <1>1, <2>1, TunnelAssumption DEF Timely
<1>2. Inv => \A x \in Sides :
               joined /\ GivesUp(x) => lossy \/ x \in carried \/ heartbeats = {}
  BY <1>1
<1>. QED  BY <1>2, Invariance, PTL DEF HealthyKept
=============================================================================
