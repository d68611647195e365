--------------------------- MODULE SessionProofs ---------------------------
(***************************************************************************)
(* Proofs about Session, for every pool of addresses, both roles, both     *)
(* identity sources, with and without connect errors, every deadAfter and  *)
(* every bound on renewals.                                                *)
(***************************************************************************)
EXTENDS Session, TLAPS

(* The initial state has its type. *)
LEMMA TypeInit == Init => TypeOK
  <1> SUFFICES ASSUME Init PROVE TypeOK
    OBVIOUS
  <1>1. rotated \in BOOLEAN /\ unanswered \in BOOLEAN /\ carried \in BOOLEAN /\ ctxDone \in BOOLEAN
    BY DEF Init
  <1> QED
    BY <1>1, SessionAssumption DEF Init, TypeOK

(* The receive clock stays within its cap. *)
LEMMA LaterType ==
  ASSUME NEW t \in 0..(DeadAfter + 1)
  PROVE  Later(t) \in 0..(DeadAfter + 1)
  BY SessionAssumption DEF Later

(* Ownership is needed for typing: a goroutine that reports holds a        *)
(* connection, so what it adds to blamed and link is a connection.         *)
LEMMA TypeStep == TypeOK /\ Ownership /\ [Next]_vars => TypeOK'
  <1> SUFFICES ASSUME TypeOK, Ownership, [Next]_vars
               PROVE  TypeOK'
    OBVIOUS
  <1> USE SessionAssumption, LaterType
      DEF TypeOK, idVars, connVars, supVars, sndVars, rcvVars, clockVars
  <1>1. CASE RenewSVID
    BY <1>1 DEF RenewSVID, rotations
  <1>2. CASE SignalRotation
    BY <1>2 DEF SignalRotation
  <1>3. CASE Supervisor
    <2> USE DEF SupStep, SupMove
    <2>1. CASE SupStop           BY <2>1 DEF SupStop
    <2>2. CASE SupRotation       BY <2>2 DEF SupRotation
    <2>3. CASE SupReport         BY <2>3 DEF SupReport, Stale
    <2>4. CASE SupClear          BY <2>4 DEF SupClear
    <2>5. CASE SupClose          BY <2>5 DEF SupClose
    <2>6. CASE SupConnected      BY <2>6 DEF SupConnected, certificate
    <2>7. CASE SupDialCancelled  BY <2>7 DEF SupDialCancelled
    <2>8. CASE SupConnectFails   BY <2>8 DEF SupConnectFails
    <2>9. CASE SupRetry          BY <2>9 DEF SupRetry, Offer
    <2>10. CASE SupSet           BY <2>10 DEF SupSet
    <2> QED
      BY <1>3, <2>1, <2>2, <2>3, <2>4, <2>5, <2>6, <2>7, <2>8, <2>9, <2>10
      DEF Supervisor
  <1>4. CASE Sender
    <2> USE DEF SndStep
    <2>1. CASE SndStop        BY <2>1 DEF SndStop
    <2>2. CASE SndCapture     BY <2>2 DEF SndCapture
    <2>3. CASE SndWrite       BY <2>3 DEF SndWrite
    <2>4. CASE SndWriteFails  BY <2>4 DEF SndWriteFails, Opened
    <2>5. CASE SndFailOffer   BY <2>5 DEF SndFailOffer, fail, Offer
    <2> QED
      BY <1>4, <2>1, <2>2, <2>3, <2>4, <2>5 DEF Sender
  <1>5. CASE Receiver
    <2> USE DEF RcvStep
    <2>1. CASE RcvStop       BY <2>1 DEF RcvStop
    <2>2. CASE RcvSleep
      <3>1. unanswered' \in BOOLEAN /\ carried' \in BOOLEAN  BY <2>2 DEF RcvSleep
      <3> QED  BY <2>2, <3>1 DEF RcvSleep
    <2>3. CASE RcvGet        BY <2>3 DEF RcvGet
    <2>4. CASE RcvData
      <3>1. unanswered' \in BOOLEAN /\ carried' \in BOOLEAN  BY <2>4 DEF RcvData
      <3> QED  BY <2>4, <3>1 DEF RcvData
    <2>5. CASE RcvTimeout    BY <2>5 DEF RcvTimeout
    <2>6. CASE RcvDead
      <3>1. unanswered' \in BOOLEAN /\ carried' \in BOOLEAN  BY <2>6 DEF RcvDead
      <3>2. silence' \in 0..(DeadAfter + 1) /\ age' \in 0..(DeadAfter + 1)
        <4>1. (silence' = 0 \/ silence' = Later(silence)) /\ age' = Later(age)
          BY <2>6, Zenon DEF RcvDead
        <4> QED  BY <4>1
      <3>3. blamed' \in SUBSET Conns
        BY <2>6 DEF RcvDead, Ownership
      <3>4. /\ rcvPc' \in {"get", "read", "offer", "offerDead", "stopped"}
            /\ rcvConn' \in Conns \cup {Nil}
        BY <2>6 DEF RcvDead
      <3> QED  BY <2>6, <3>1, <3>2, <3>3, <3>4 DEF RcvDead
    <2>7. CASE RcvError      BY <2>7 DEF RcvError, Opened
    <2>8. CASE RcvFailOffer
      <3>1. unanswered' \in BOOLEAN /\ carried' \in BOOLEAN  BY <2>8 DEF RcvFailOffer
      <3> QED  BY <2>8, <3>1 DEF RcvFailOffer, fail, Offer
    <2> QED
      BY <1>5, <2>1, <2>2, <2>3, <2>4, <2>5, <2>6, <2>7, <2>8 DEF Receiver
  <1>6. CASE \E c \in Conns : LinkFails(c)
    BY <1>6 DEF LinkFails
  <1>7. CASE Cancel
    BY <1>7 DEF Cancel
  <1>8. CASE Exit \/ UNCHANGED vars
    BY <1>8 DEF Exit, vars
  <1> QED
    BY <1>1, <1>2, <1>3, <1>4, <1>5, <1>6, <1>7, <1>8 DEF Next

(* The supervisor moves a session from its own hands into the holder and   *)
(* back without ever letting go of an open one.                            *)
LEMMA OwnershipStep == TypeOK /\ Ownership /\ [Next]_vars => Ownership'
  <1> SUFFICES ASSUME TypeOK, Ownership, [Next]_vars
               PROVE  Ownership'
    OBVIOUS
  <1> USE SessionAssumption DEF TypeOK, Ownership, idVars, connVars, supVars, sndVars, rcvVars, clockVars
  <1>1. CASE RenewSVID
    BY <1>1 DEF RenewSVID, rotations
  <1>2. CASE SignalRotation
    BY <1>2 DEF SignalRotation
  <1>3. CASE Supervisor
    <2> USE DEF SupStep, SupMove
    <2>1. CASE SupStop           BY <2>1 DEF SupStop
    <2>2. CASE SupRotation       BY <2>2 DEF SupRotation
    <2>3. CASE SupReport         BY <2>3 DEF SupReport, Stale
    <2>4. CASE SupClear          BY <2>4 DEF SupClear
    <2>5. CASE SupClose          BY <2>5 DEF SupClose
    <2>6. CASE SupConnected      BY <2>6 DEF SupConnected, Referenced, certificate
    <2>7. CASE SupDialCancelled  BY <2>7 DEF SupDialCancelled
    <2>8. CASE SupConnectFails   BY <2>8 DEF SupConnectFails
    <2>9. CASE SupRetry          BY <2>9 DEF SupRetry
    <2>10. CASE SupSet            BY <2>10 DEF SupSet
    <2> QED
      BY <1>3, <2>1, <2>2, <2>3, <2>4, <2>5, <2>6, <2>7, <2>8, <2>9, <2>10
      DEF Supervisor
  <1>4. CASE Sender
    <2> USE DEF SndStep
    <2>1. CASE SndStop        BY <2>1 DEF SndStop
    <2>2. CASE SndCapture     BY <2>2 DEF SndCapture
    <2>3. CASE SndWrite       BY <2>3 DEF SndWrite
    <2>4. CASE SndWriteFails  BY <2>4 DEF SndWriteFails
    <2>5. CASE SndFailOffer   BY <2>5 DEF SndFailOffer
    <2> QED
      BY <1>4, <2>1, <2>2, <2>3, <2>4, <2>5
      DEF Sender
  <1>5. CASE Receiver
    <2> USE DEF RcvStep
    <2>1. CASE RcvStop       BY <2>1 DEF RcvStop
    <2>2. CASE RcvSleep      BY <2>2 DEF RcvSleep
    <2>3. CASE RcvGet        BY <2>3 DEF RcvGet
    <2>4. CASE RcvData       BY <2>4 DEF RcvData
    <2>5. CASE RcvTimeout    BY <2>5 DEF RcvTimeout
    <2>6. CASE RcvDead       BY <2>6 DEF RcvDead
    <2>7. CASE RcvError      BY <2>7 DEF RcvError
    <2>8. CASE RcvFailOffer  BY <2>8 DEF RcvFailOffer
    <2> QED
      BY <1>5, <2>1, <2>2, <2>3, <2>4, <2>5, <2>6, <2>7, <2>8
      DEF Receiver
  <1>6. CASE \E c \in Conns : LinkFails(c)
    BY <1>6 DEF LinkFails
  <1>7. CASE Cancel
    BY <1>7 DEF Cancel
  <1>8. CASE Exit \/ UNCHANGED vars
    BY <1>8 DEF Exit, vars
  <1> QED
    BY <1>1, <1>2, <1>3, <1>4, <1>5, <1>6, <1>7, <1>8 DEF Next

(* A new connection takes an address no report names, and a closed one     *)
(* makes the reports that name it void.                                    *)
LEMMA ReportsStep == TypeOK /\ Ownership /\ ReportsJustified /\ [Next]_vars => ReportsJustified'
  <1> SUFFICES ASSUME TypeOK, Ownership, ReportsJustified, [Next]_vars
               PROVE  ReportsJustified'
    OBVIOUS
  <1> USE SessionAssumption DEF TypeOK, Ownership, ReportsJustified, Opened, idVars, connVars, supVars, sndVars, rcvVars, clockVars
  <1>1. CASE RenewSVID
    BY <1>1 DEF RenewSVID, rotations
  <1>2. CASE SignalRotation
    BY <1>2 DEF SignalRotation
  <1>3. CASE Supervisor
    <2> USE DEF SupStep, SupMove
    <2>1. CASE SupStop           BY <2>1 DEF SupStop
    <2>2. CASE SupRotation       BY <2>2 DEF SupRotation
    <2>3. CASE SupReport         BY <2>3 DEF SupReport, Stale
    <2>4. CASE SupClear          BY <2>4 DEF SupClear
    <2>5. CASE SupClose          BY <2>5 DEF SupClose
    <2>6. CASE SupConnected      BY <2>6 DEF SupConnected, Referenced, certificate
    <2>7. CASE SupDialCancelled  BY <2>7 DEF SupDialCancelled
    <2>8. CASE SupConnectFails   BY <2>8 DEF SupConnectFails
    <2>9. CASE SupRetry          BY <2>9 DEF SupRetry, Offer
    <2>10. CASE SupSet            BY <2>10 DEF SupSet
    <2> QED
      BY <1>3, <2>1, <2>2, <2>3, <2>4, <2>5, <2>6, <2>7, <2>8, <2>9, <2>10
      DEF Supervisor
  <1>4. CASE Sender
    <2> USE DEF SndStep
    <2>1. CASE SndStop        BY <2>1 DEF SndStop
    <2>2. CASE SndCapture     BY <2>2 DEF SndCapture
    <2>3. CASE SndWrite       BY <2>3 DEF SndWrite
    <2>4. CASE SndWriteFails  BY <2>4 DEF SndWriteFails
    <2>5. CASE SndFailOffer   BY <2>5 DEF SndFailOffer, fail, Offer
    <2> QED
      BY <1>4, <2>1, <2>2, <2>3, <2>4, <2>5
      DEF Sender
  <1>5. CASE Receiver
    <2> USE DEF RcvStep
    <2>1. CASE RcvStop       BY <2>1 DEF RcvStop
    <2>2. CASE RcvSleep      BY <2>2 DEF RcvSleep
    <2>3. CASE RcvGet        BY <2>3 DEF RcvGet
    <2>4. CASE RcvData       BY <2>4 DEF RcvData
    <2>5. CASE RcvTimeout    BY <2>5 DEF RcvTimeout
    <2>6. CASE RcvDead       BY <2>6 DEF RcvDead
    <2>7. CASE RcvError      BY <2>7 DEF RcvError
    <2>8. CASE RcvFailOffer  BY <2>8 DEF RcvFailOffer, fail, Offer
    <2> QED
      BY <1>5, <2>1, <2>2, <2>3, <2>4, <2>5, <2>6, <2>7, <2>8
      DEF Receiver
  <1>6. CASE \E c \in Conns : LinkFails(c)
    BY <1>6 DEF LinkFails
  <1>7. CASE Cancel
    BY <1>7 DEF Cancel
  <1>8. CASE Exit \/ UNCHANGED vars
    BY <1>8 DEF Exit, vars
  <1> QED
    BY <1>1, <1>2, <1>3, <1>4, <1>5, <1>6, <1>7, <1>8 DEF Next

(* NoLostRotation with the session the supervisor has just connected and   *)
(* not yet set: the SVID may be renewed between the two.                   *)
RotationInv ==
  Delegated /\ ~rotated /\ watch # "signal"
    => /\ supPc = "select" /\ holder # Nil => svid[holder] = cert
       /\ supPc = "set" => svid[supConn] = cert

(* A signal is only consumed by a supervisor that goes on to re-handshake. *)
LEMMA RotationStep == TypeOK /\ Ownership /\ RotationInv /\ [Next]_vars => RotationInv'
  <1> SUFFICES ASSUME TypeOK, Ownership, RotationInv, [Next]_vars
               PROVE  RotationInv'
    OBVIOUS
  <1> USE SessionAssumption DEF TypeOK, Ownership, RotationInv, idVars, connVars, supVars, sndVars, rcvVars, clockVars
  <1>1. CASE RenewSVID
    BY <1>1 DEF RenewSVID, rotations
  <1>2. CASE SignalRotation
    BY <1>2 DEF SignalRotation
  <1>3. CASE Supervisor
    <2> USE DEF SupStep, SupMove
    <2>1. CASE SupStop           BY <2>1 DEF SupStop
    <2>2. CASE SupRotation       BY <2>2 DEF SupRotation
    <2>3. CASE SupReport         BY <2>3 DEF SupReport, Stale
    <2>4. CASE SupClear          BY <2>4 DEF SupClear
    <2>5. CASE SupClose          BY <2>5 DEF SupClose
    <2>6. CASE SupConnected      BY <2>6 DEF SupConnected, Referenced, certificate
    <2>7. CASE SupDialCancelled  BY <2>7 DEF SupDialCancelled
    <2>8. CASE SupConnectFails   BY <2>8 DEF SupConnectFails
    <2>9. CASE SupRetry          BY <2>9 DEF SupRetry
    <2>10. CASE SupSet            BY <2>10 DEF SupSet
    <2> QED
      BY <1>3, <2>1, <2>2, <2>3, <2>4, <2>5, <2>6, <2>7, <2>8, <2>9, <2>10
      DEF Supervisor
  <1>4. CASE Sender
    <2> USE DEF SndStep
    <2>1. CASE SndStop        BY <2>1 DEF SndStop
    <2>2. CASE SndCapture     BY <2>2 DEF SndCapture
    <2>3. CASE SndWrite       BY <2>3 DEF SndWrite
    <2>4. CASE SndWriteFails  BY <2>4 DEF SndWriteFails
    <2>5. CASE SndFailOffer   BY <2>5 DEF SndFailOffer
    <2> QED
      BY <1>4, <2>1, <2>2, <2>3, <2>4, <2>5
      DEF Sender
  <1>5. CASE Receiver
    <2> USE DEF RcvStep
    <2>1. CASE RcvStop       BY <2>1 DEF RcvStop
    <2>2. CASE RcvSleep      BY <2>2 DEF RcvSleep
    <2>3. CASE RcvGet        BY <2>3 DEF RcvGet
    <2>4. CASE RcvData       BY <2>4 DEF RcvData
    <2>5. CASE RcvTimeout    BY <2>5 DEF RcvTimeout
    <2>6. CASE RcvDead       BY <2>6 DEF RcvDead
    <2>7. CASE RcvError      BY <2>7 DEF RcvError
    <2>8. CASE RcvFailOffer  BY <2>8 DEF RcvFailOffer
    <2> QED
      BY <1>5, <2>1, <2>2, <2>3, <2>4, <2>5, <2>6, <2>7, <2>8
      DEF Receiver
  <1>6. CASE \E c \in Conns : LinkFails(c)
    BY <1>6 DEF LinkFails
  <1>7. CASE Cancel
    BY <1>7 DEF Cancel
  <1>8. CASE Exit \/ UNCHANGED vars
    BY <1>8 DEF Exit, vars
  <1> QED
    BY <1>1, <1>2, <1>3, <1>4, <1>5, <1>6, <1>7, <1>8 DEF Next

(* A clock that was not carried over does not run ahead of the session's   *)
(* own time, and stands still while there is no session.                   *)
ClockInv ==
  ~carried => /\ holder # Nil => silence <= age
              /\ holder = Nil => silence = 0 /\ rcvPc \in {"get", "stopped"}

(* A session is withdrawn with its clock marked, the mark goes only when   *)
(* the clock restarts, and a session is set with no time behind it.        *)
LEMMA ClockStep == TypeOK /\ Ownership /\ ClockInv /\ [Next]_vars => ClockInv'
  <1> SUFFICES ASSUME TypeOK, Ownership, ClockInv, [Next]_vars
               PROVE  ClockInv'
    OBVIOUS
  <1> USE SessionAssumption DEF TypeOK
  <1>1. CASE UNCHANGED <<holder, silence, age, carried>> /\ rcvPc' = rcvPc
    BY <1>1 DEF ClockInv
  <1>2. CASE Supervisor
    <2> USE DEF SupStep, SupMove, rcvVars
    <2>1. CASE SupClear
      BY <2>1, Zenon DEF SupClear, ClockInv
    <2>2. CASE SupSet
      <3>1. holder = Nil /\ supConn # Nil
        BY <2>2 DEF SupSet, Ownership
      <3> QED
        BY <2>2, <3>1 DEF SupSet, ClockInv
    <2> QED
      BY <1>1, <1>2, <2>1, <2>2
      DEF Supervisor, SupStop, SupRotation, SupReport, SupClose, SupConnected,
          SupDialCancelled, SupConnectFails, SupRetry
  <1>3. CASE Receiver
    <2> USE DEF RcvStep
    <2>1. holder' = holder
      BY <1>3 DEF Receiver, RcvStop, RcvSleep, RcvGet, RcvData, RcvTimeout, RcvDead,
                  RcvError, RcvFailOffer
    <2>2. CASE silence' = 0 /\ age' \in Nat /\ rcvPc' = "get"
      BY <2>1, <2>2 DEF ClockInv
    <2>3. CASE /\ carried' = carried /\ rcvPc = "read"
               /\ silence' = Later(silence) /\ age' = Later(age)
      BY <2>1, <2>3 DEF ClockInv, Later
    <2>4. CASE carried' = carried /\ silence' = silence /\ age' = age
               /\ rcvPc \in {"read", "offer"}
      BY <2>1, <2>4 DEF ClockInv
    <2>5. CASE RcvDead
      <3>1. Later(age) \in Nat
        BY LaterType
      <3>2. CASE rcvConn = holder
        BY <2>3, <2>5, <3>2 DEF RcvDead
      <3>3. CASE rcvConn # holder
        BY <2>2, <2>5, <3>1, <3>3 DEF RcvDead
      <3> QED
        BY <3>2, <3>3
    <2>6. CASE RcvFailOffer
      BY <2>2, <2>4, <2>6 DEF RcvFailOffer
    <2>7. CASE RcvSleep \/ RcvData
      BY <2>2, <2>7 DEF RcvSleep, RcvData
    <2>8. CASE RcvTimeout
      BY <2>3, <2>8 DEF RcvTimeout
    <2>9. CASE RcvError
      BY <2>3, <2>4, <2>9 DEF RcvError
    <2>10. CASE RcvGet \/ RcvStop
      BY <2>10 DEF RcvGet, RcvStop, clockVars, ClockInv
    <2> QED
      BY <1>3, <2>5, <2>6, <2>7, <2>8, <2>9, <2>10 DEF Receiver
  <1>4. CASE Sender
    BY <1>1, <1>4 DEF Sender, SndStep, SndStop, SndCapture, SndWrite, SndWriteFails,
       SndFailOffer, rcvVars
  <1> QED
    BY <1>1, <1>2, <1>3, <1>4
    DEF Next, RenewSVID, SignalRotation, LinkFails, Cancel, Exit, vars, clockVars, rcvVars

(* Only an open session is blamed for anything. *)
BlameInv == blamed \subseteq Opened

(* A closed session takes the blame with it. *)
LEMMA BlameStep == TypeOK /\ Ownership /\ BlameInv /\ [Next]_vars => BlameInv'
  <1> SUFFICES ASSUME TypeOK, Ownership, BlameInv, [Next]_vars
               PROVE  BlameInv'
    OBVIOUS
  <1> USE SessionAssumption DEF TypeOK, BlameInv, Opened, connVars
  <1>1. CASE Supervisor
    <2>1. CASE SupClose
      BY <2>1 DEF SupClose
    <2>2. CASE SupConnected
      BY <2>2 DEF SupConnected
    <2>3. CASE UNCHANGED connVars
      BY <2>3
    <2> QED
      BY <1>1, <2>1, <2>2, <2>3 DEF Supervisor, SupStop, SupRotation, SupReport, SupClear,
         SupDialCancelled, SupConnectFails, SupRetry, SupSet
  <1>2. CASE Sender
    <2>1. link' = link /\ (blamed' = blamed \/ blamed' = blamed \cup ({sndConn} \cap Opened))
      BY <1>2 DEF Sender, SndStep, SndStop, SndCapture, SndWrite, SndWriteFails, SndFailOffer
    <2> QED
      BY <2>1
  <1>3. CASE Receiver
    <2>1. link' = link /\ (blamed' = blamed \/ blamed' = blamed \cup ({rcvConn} \cap Opened))
      <3>1. CASE RcvDead
        <4>1. rcvConn \in Opened
          BY <3>1 DEF RcvDead, RcvStep, Ownership
        <4> QED
          BY <3>1, <4>1 DEF RcvDead, RcvStep
      <3> QED
        BY <1>3, <3>1 DEF Receiver, RcvStep, RcvStop, RcvSleep, RcvGet, RcvData, RcvTimeout,
           RcvError, RcvFailOffer, clockVars
    <2> QED
      BY <2>1
  <1>4. CASE \E c \in Conns : LinkFails(c)
    BY <1>4 DEF LinkFails
  <1>5. CASE RenewSVID \/ SignalRotation \/ Cancel \/ Exit \/ UNCHANGED vars
    BY <1>5 DEF RenewSVID, SignalRotation, Cancel, Exit, vars
  <1> QED
    BY <1>1, <1>2, <1>3, <1>4, <1>5 DEF Next

Inv == TypeOK /\ Ownership /\ ReportsJustified /\ RotationInv /\ ClockInv /\ BlameInv

(* The invariant holds at first. *)
LEMMA InitInv == Init => Inv
  <1> SUFFICES ASSUME Init PROVE Inv
    OBVIOUS
  <1>1. Ownership
    BY SessionAssumption DEF Init, Ownership
  <1>2. ReportsJustified
    BY DEF Init, ReportsJustified, Opened
  <1>3. RotationInv
    BY DEF Init, RotationInv
  <1>4. ClockInv
    BY DEF Init, ClockInv
  <1>5. BlameInv
    BY DEF Init, BlameInv
  <1> QED
    BY <1>1, <1>2, <1>3, <1>4, <1>5, TypeInit DEF Inv

(* The inductive invariant behind everything below. *)
THEOREM Invariance == Spec => []Inv
  <1>1. Inv /\ [Next]_vars => Inv'
    BY TypeStep, OwnershipStep, ReportsStep, RotationStep, ClockStep, BlameStep DEF Inv
  <1> QED
    BY <1>1, InitInv, PTL DEF Spec

(* Every variable keeps its type; the report channel never holds two       *)
(* reports (session.go connHolder).                                        *)
THEOREM Typing == Spec => []TypeOK
  <1>1. Inv => TypeOK
    BY DEF Inv
  <1> QED
    BY <1>1, Invariance, PTL

(* At most one DTLS session is open, and the one the holder hands out is   *)
(* never closed (session.go superviseSession).                             *)
THEOREM SingleSession == Spec => [](OneOpenSession /\ HolderOpen)
  <1>1. Inv => OneOpenSession /\ HolderOpen
    BY SessionAssumption DEF Inv, TypeOK, Ownership, OneOpenSession, HolderOpen, Opened
  <1> QED
    BY <1>1, Invariance, PTL

(* Every open session is with the holder or in the supervisor's hands, the *)
(* latter only between clear and close or between handshake and set; and   *)
(* no goroutine works on the nil connection (session.go superviseSession). *)
THEOREM SupervisorOwns == Spec => []Ownership
  <1>1. Inv => Ownership
    BY DEF Inv
  <1> QED
    BY <1>1, Invariance, PTL

(* A report that waits in the channel, or that a goroutine is about to     *)
(* make, is about a session that met a failure or is closed by now         *)
(* (session.go fail).                                                      *)
THEOREM ReportsTrue == Spec => []ReportsJustified
  <1>1. Inv => ReportsJustified
    BY DEF Inv
  <1> QED
    BY <1>1, Invariance, PTL

(* No SVID rotation is lost between the stream and the supervisor          *)
(* (delegated.go applySVID, session.go superviseSession).                  *)
THEOREM RotationKept == Spec => []NoLostRotation
  <1>1. Inv => NoLostRotation
    BY DEF Inv, TypeOK, RotationInv, NoLostRotation
  <1> QED
    BY <1>1, Invariance, PTL

(* No report tears down a session on which nobody met a failure            *)
(* (session.go fail and superviseSession).                                 *)
THEOREM StaleReportsHarmless == Spec => TornDownForCause
  <1>1. Inv /\ [Next]_vars
          => [supPc = "select" /\ supPc' = "clear" /\ rotated' = rotated
                => holder \in blamed \cup {Nil}]_vars
    <2> SUFFICES ASSUME Inv, [Next]_vars, supPc = "select", supPc' = "clear",
                        rotated' = rotated, holder # Nil
                 PROVE  holder \in blamed
      OBVIOUS
    <2>1. SupReport
      BY DEF Next, vars, Exit, Cancel, LinkFails, RenewSVID, SignalRotation,
             Supervisor, Sender, Receiver,
             SupStop, SupRotation, SupClear, SupClose, SupConnected,
             SupDialCancelled, SupConnectFails, SupRetry, SupSet,
             SndStop, SndCapture, SndWrite, SndWriteFails, SndFailOffer,
             RcvStop, RcvSleep, RcvGet, RcvData, RcvTimeout, RcvDead,
             RcvError, RcvFailOffer, SupStep, SupMove, SndStep, RcvStep, supVars
    <2>2. holder \in bad
      BY <2>1 DEF SupReport, SupStep, SupMove, Stale
    <2> QED
      BY <2>2 DEF Inv, TypeOK, Ownership, ReportsJustified, Opened
  <1> QED
    BY <1>1, Invariance, PTL DEF Spec, TornDownForCause

(* A session is judged lost before deadAfter of its own time only on a     *)
(* receive clock carried over from the session before (proxy.go            *)
(* proxyReceiver, main.go receiverLoop).                                   *)
THEOREM Tolerated == Spec => FreshSessionTolerated
  <1>1. Inv /\ [Next]_vars
          => [rcvPc = "read" /\ rcvPc' = "offerDead" => age' > DeadAfter \/ carried]_vars
    <2> SUFFICES ASSUME Inv, [Next]_vars, rcvPc = "read", rcvPc' = "offerDead", ~carried
                 PROVE  age' > DeadAfter
      OBVIOUS
    <2>1. RcvDead
      BY DEF Next, vars, Exit, Cancel, LinkFails, RenewSVID, SignalRotation,
             Supervisor, Sender, Receiver,
             SupStop, SupRotation, SupReport, SupClear, SupClose, SupConnected,
             SupDialCancelled, SupConnectFails, SupRetry, SupSet,
             SndStop, SndCapture, SndWrite, SndWriteFails, SndFailOffer,
             RcvStop, RcvSleep, RcvGet, RcvData, RcvTimeout, RcvError,
             RcvFailOffer, SupStep, SupMove, SndStep, RcvStep, rcvVars
    <2>2. age' = Later(age) /\ Later(silence) > DeadAfter
      BY <2>1 DEF RcvDead, Dead
    <2>3. holder # Nil
      BY <2>1 DEF RcvDead, RcvStep, Inv, Ownership
    <2> QED
      BY <2>2, <2>3, SessionAssumption DEF Inv, TypeOK, ClockInv, Later
  <1> QED
    BY <1>1, Invariance, PTL DEF Spec, FreshSessionTolerated

-----------------------------------------------------------------------------
(* Every step of the supervisor is one the users of the holder expect. *)
LEMMA SupervisorStep == Inv /\ Supervisor => [Holder!CHNext]_(Holder!chVars)
  <1> SUFFICES ASSUME Inv, Supervisor
               PROVE  Holder!CHNext \/ UNCHANGED Holder!chVars
    OBVIOUS
  <1> USE SessionAssumption DEF Inv, TypeOK, Ownership, SupStep, SupMove, connVars, Holder!chVars
  <1>1. CASE SupRotation
    <2>1. Holder!Decide
      BY <1>1 DEF SupRotation, Holder!Decide, Opened
    <2> QED
      BY <2>1 DEF Holder!CHNext
  <1>2. CASE SupReport
    <2>1. CASE Stale
      BY <1>2, <2>1 DEF SupReport, Opened
    <2>2. CASE ~Stale
      <3>1. holder \in blamed \cup {Nil}
        BY <2>2 DEF Stale, ReportsJustified, Opened
      <3>2. Holder!Decide
        BY <1>2, <2>2, <3>1 DEF SupReport, Holder!Decide, Opened
      <3> QED
        BY <3>2 DEF Holder!CHNext
    <2> QED
      BY <2>1, <2>2
  <1>3. CASE SupClear
    <2>1. Holder!Withdraw
      BY <1>3 DEF SupClear, Holder!Withdraw, Opened
    <2> QED
      BY <2>1 DEF Holder!CHNext
  <1>4. CASE SupClose
    <2>1. Opened \subseteq {supConn} /\ blamed \subseteq {supConn}
      BY <1>4 DEF SupClose, Opened, BlameInv
    <2>2. Opened' = {} /\ blamed' = {}
      BY <1>4, <2>1 DEF SupClose, Opened
    <2>3. Holder!Close
      BY <1>4, <2>2 DEF SupClose, Holder!Close
    <2> QED
      BY <2>3 DEF Holder!CHNext
  <1>5. CASE SupConnected
    <2>1. Opened = {}
      BY <1>5 DEF SupConnected, Opened
    <2>2. PICK c \in Conns : Opened' = {c}
      BY <1>5, <2>1 DEF SupConnected, Opened
    <2>3. Holder!Connect
      BY <1>5, <2>1, <2>2 DEF SupConnected, Holder!Connect
    <2> QED
      BY <2>3 DEF Holder!CHNext
  <1>6. CASE SupSet
    <2>1. supConn \in Opened /\ Opened' = Opened
      BY <1>6 DEF SupSet, Opened
    <2>2. Holder!Present
      BY <1>6, <2>1 DEF SupSet, Holder!Present
    <2> QED
      BY <2>2 DEF Holder!CHNext
  <1>7. CASE SupStop \/ SupDialCancelled \/ SupConnectFails \/ SupRetry
    BY <1>7 DEF SupStop, SupDialCancelled, SupConnectFails, SupRetry, Opened
  <1> QED
    BY <1>1, <1>2, <1>3, <1>4, <1>5, <1>6, <1>7 DEF Supervisor

(* Session implements ConnHolder: for every pool of addresses, however     *)
(* reports, retries, rotations and failures interleave, sessions are       *)
(* opened, offered, withdrawn and closed one at a time, and given up only  *)
(* for a rotation or a failure of their own (session.go connHolder,        *)
(* superviseSession).                                                      *)
THEOREM HolderImplemented == Spec => HolderPromise
  <1>1. Init => Holder!CHInit
    <2> SUFFICES ASSUME Init PROVE Holder!CHInit
      OBVIOUS
    <2>1. Opened = {holder}
      BY DEF Init, Opened
    <2> QED
      BY <2>1, SessionAssumption DEF Init, Holder!CHInit
  <1>2. Inv /\ [Next]_vars => [Holder!CHNext]_(Holder!chVars)
    <2> SUFFICES ASSUME Inv, [Next]_vars
                 PROVE  Holder!CHNext \/ UNCHANGED Holder!chVars
      OBVIOUS
    <2> DEFINE Blames(c) == \/ blamed' = blamed
                            \/ blamed' = blamed \cup {c} /\ c \in Opened
    <2>0. ASSUME NEW c, Blames(c), UNCHANGED <<holder, link, rotated, supPc>>
          PROVE  Holder!CHNext \/ UNCHANGED Holder!chVars
      BY <2>0 DEF Holder!CHNext, Holder!Fail, Holder!chVars, Opened
    <2>1. CASE Supervisor
      BY <2>1, SupervisorStep
    <2>2. CASE Sender
      <3>1. UNCHANGED <<holder, link, rotated, supPc>>
        BY <2>2 DEF Sender, SndStep, SndStop, SndCapture, SndWrite, SndWriteFails, SndFailOffer,
                    idVars, supVars
      <3>2. Blames(sndConn)
        BY <2>2 DEF Sender, SndStop, SndCapture, SndWrite, SndWriteFails, SndFailOffer
      <3> QED
        BY <2>0, <3>1, <3>2
    <2>3. CASE Receiver
      <3>1. UNCHANGED <<holder, link, rotated, supPc>>
        BY <2>3 DEF Receiver, RcvStep, RcvStop, RcvSleep, RcvGet, RcvData, RcvTimeout,
                    RcvDead, RcvError, RcvFailOffer, idVars, supVars
      <3>2. Blames(rcvConn)
        <4>1. CASE RcvDead
          BY <4>1 DEF RcvDead, RcvStep, Inv, TypeOK, Ownership, Opened
        <4>2. CASE ~RcvDead
          BY <2>3, <4>2 DEF Receiver, RcvStop, RcvSleep, RcvGet, RcvData, RcvTimeout,
                    RcvError, RcvFailOffer
        <4> QED
          BY <4>1, <4>2
      <3> QED
        BY <2>0, <3>1, <3>2
    <2>4. CASE \E c \in Conns : LinkFails(c)
      <3>1. UNCHANGED <<holder, blamed, rotated, supPc>>
        BY <2>4 DEF LinkFails, idVars, supVars
      <3>2. Opened' = Opened
        BY <2>4 DEF LinkFails, Opened, Inv, TypeOK
      <3> QED
        BY <3>1, <3>2 DEF Holder!chVars
    <2>5. CASE SignalRotation
      <3>1. rotated' = TRUE /\ UNCHANGED <<holder, link, blamed, supPc>>
        BY <2>5 DEF SignalRotation, connVars, supVars
      <3> QED
        BY <3>1 DEF Holder!CHNext, Holder!Rotate, Opened
    <2>6. CASE RenewSVID \/ Cancel \/ Exit \/ UNCHANGED vars
      BY <2>6 DEF RenewSVID, Cancel, Exit, vars, idVars, connVars, supVars, Holder!chVars, Opened
    <2> QED
      BY <2>1, <2>2, <2>3, <2>4, <2>5, <2>6 DEF Next
  <1> QED
    BY <1>1, <1>2, Invariance, PTL DEF Spec, HolderPromise, Holder!CHSpec
=============================================================================
