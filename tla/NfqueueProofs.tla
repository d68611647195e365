--------------------------- MODULE NfqueueProofs ---------------------------
(***************************************************************************)
(* Proofs about Nfqueue, for every set of packets and buffers, every       *)
(* length of the kernel's queue and of the channel, and every budget.      *)
(***************************************************************************)
EXTENDS Nfqueue, FiniteSetTheorems, TLAPS

Readable == Pkts \ Unreadable

(* The elements of a sequence are of its type. *)
LEMMA ElemsType ==
  ASSUME NEW S, NEW s \in Seq(S)
  PROVE  Elems(s) \subseteq S
  BY DEF Elems

(* The elements after an append. *)
LEMMA ElemsAppend ==
  ASSUME NEW S, NEW s \in Seq(S), NEW x \in S
  PROVE  Elems(Append(s, x)) = Elems(s) \cup {x}
  <1>1. DOMAIN Append(s, x) = DOMAIN s \cup {Len(s) + 1}
    OBVIOUS
  <1>2. Append(s, x)[Len(s) + 1] = x
    OBVIOUS
  <1>3. \A k \in DOMAIN s : Append(s, x)[k] = s[k]
    OBVIOUS
  <1> QED
    BY <1>1, <1>2, <1>3 DEF Elems

(* The elements after the head is taken. *)
LEMMA ElemsTail ==
  ASSUME NEW S, NEW s \in Seq(S), s # <<>>
  PROVE  Head(s) \in Elems(s) /\ Elems(Tail(s)) \subseteq Elems(s)
  BY DEF Elems

(* Where the packets are. *)
Places ==
  /\ queue \in Seq(Pkts) /\ ch \in Seq(Pkts)
  /\ {loopPkt, sndPkt} \subseteq Pkts \cup {NoPkt}
  /\ loopPc \notin {"recv", "ended"} => loopPkt \in Pkts
  /\ sndPc # "range" => sndPkt \in Pkts
  /\ loopPc \in {"lockAccept", "accept"} => loopPkt \in Unreadable
  /\ fate \in [Pkts -> {"unsent", "held", "dropped", "accepted", "bypassed", "overflow"}]
  /\ carried \in SUBSET Pkts

(* Every step leaves packets in known places. *)
LEMMA PlacesStep == Places /\ [Next]_vars => Places'
  <1> SUFFICES ASSUME Places, [Next]_vars
               PROVE  Places'
    OBVIOUS
  <1> USE NfqueueAssumption
      DEF Places, bufVars, loopVars, sndVars, writeVars, LoopStep, SndStep, nfqSetVerdict, Unbinds
  <1>1. ASSUME NEW p \in Pkts, NFSends(p) PROVE Places'
    <2>1. fate' \in [Pkts -> {"unsent", "held", "dropped", "accepted", "bypassed", "overflow"}]
      BY <1>1 DEF NFSends
    <2>2. queue' \in Seq(Pkts)
      BY <1>1 DEF NFSends
    <2> QED
      BY <1>1, <2>1, <2>2 DEF NFSends
  <1>2. CASE nfqStart                    BY <1>2 DEF nfqStart
  <1>3. CASE nfqStop                     BY <1>3 DEF nfqStop
  <1>4. CASE Exits                       BY <1>4 DEF Exits
  <1>5. CASE SessionChanges              BY <1>5 DEF SessionChanges
  <1>6. CASE Tick                        BY <1>6 DEF Tick
  <1>7. CASE LoopRecv                    BY <1>7 DEF LoopRecv
  <1>8. CASE LoopEnds                    BY <1>8 DEF LoopEnds
  <1>9. CASE CallbackCopies              BY <1>9 DEF CallbackCopies
  <1>10. CASE CallbackEnqueues           BY <1>10 DEF CallbackEnqueues
  <1>11. CASE CallbackBackpressured      BY <1>11 DEF CallbackBackpressured
  <1>12. CASE CallbackUnreadable         BY <1>12 DEF CallbackUnreadable
  <1>13. CASE LoopLock                   BY <1>13 DEF LoopLock
  <1>14. CASE LoopVerdict                BY <1>14 DEF LoopVerdict
  <1>15. CASE SndTake                    BY <1>15 DEF SndTake
  <1>16. CASE SndWrite                   BY <1>16 DEF SndWrite
  <1>17. CASE SndLock                    BY <1>17 DEF SndLock
  <1>18. CASE SndVerdict                 BY <1>18 DEF SndVerdict
  <1>19. CASE Gone \/ UNCHANGED vars     BY <1>19 DEF Gone, vars
  <1> QED
    BY <1>1, <1>2, <1>3, <1>4, <1>5, <1>6, <1>7, <1>8, <1>9, <1>10, <1>11, <1>12,
       <1>13, <1>14, <1>15, <1>16, <1>17, <1>18, <1>19 DEF Next, Loop, Sender

(* What a step may do to a packet the callback can read. *)
Settles(p) ==
  /\ \/ fate'[p] = fate[p]
     \/ fate[p] = "unsent" /\ fate'[p] \in {"bypassed", "held", "overflow"}
     \/ fate[p] = "held" /\ fate'[p] = "dropped"
  /\ p \in carried => p \in carried'
  /\ p \in carried' => p \in carried \cup InProcess
  /\ p \in InProcess' => p \in InProcess \/ (fate[p] = "unsent" /\ fate'[p] = "held")

(* Every step settles packets as the abstract channel allows. *)
LEMMA SettlesStep ==
  ASSUME Places, [Next]_vars, NEW p \in Readable
  PROVE  Settles(p)
  <1> USE NfqueueAssumption
      DEF Places, Readable, Settles, InProcess, bufVars, loopVars, sndVars, writeVars,
          LoopStep, SndStep, nfqSetVerdict, Unbinds
  <1>0. Elems(<<>>) = {}
    BY DEF Elems
  <1>1. ASSUME NEW q \in Pkts, NFSends(q) PROVE Settles(p)
    <2>1. Elems(queue') = Elems(queue)
            \/ (Elems(queue') = Elems(queue) \cup {q} /\ fate[q] = "unsent" /\ fate'[q] = "held")
      BY <1>1, ElemsAppend DEF NFSends
    <2>2. \/ fate'[p] = fate[p]
          \/ fate[p] = "unsent" /\ fate'[p] \in {"bypassed", "held", "overflow"}
      BY <1>1 DEF NFSends
    <2> QED
      BY <1>1, <2>1, <2>2 DEF NFSends
  <1>2. CASE nfqStart                    BY <1>2 DEF nfqStart
  <1>3. CASE nfqStop                     BY <1>3, <1>0 DEF nfqStop
  <1>4. CASE Exits                       BY <1>4, <1>0 DEF Exits
  <1>5. CASE SessionChanges              BY <1>5 DEF SessionChanges
  <1>6. CASE Tick                        BY <1>6 DEF Tick
  <1>7. CASE LoopRecv                    BY <1>7, ElemsTail DEF LoopRecv
  <1>8. CASE LoopEnds                    BY <1>8 DEF LoopEnds
  <1>9. CASE CallbackCopies              BY <1>9 DEF CallbackCopies
  <1>10. CASE CallbackEnqueues           BY <1>10, ElemsAppend DEF CallbackEnqueues
  <1>11. CASE CallbackBackpressured      BY <1>11 DEF CallbackBackpressured
  <1>12. CASE CallbackUnreadable         BY <1>12 DEF CallbackUnreadable
  <1>13. CASE LoopLock                   BY <1>13 DEF LoopLock
  <1>14. CASE LoopVerdict                BY <1>14 DEF LoopVerdict
  <1>15. CASE SndTake                    BY <1>15, ElemsTail DEF SndTake
  <1>16. CASE SndWrite                   BY <1>16 DEF SndWrite
  <1>17. CASE SndLock                    BY <1>17 DEF SndLock
  <1>18. CASE SndVerdict                 BY <1>18 DEF SndVerdict, accept
  <1>19. CASE Gone \/ UNCHANGED vars     BY <1>19 DEF Gone, vars
  <1> QED
    BY <1>1, <1>2, <1>3, <1>4, <1>5, <1>6, <1>7, <1>8, <1>9, <1>10, <1>11, <1>12,
       <1>13, <1>14, <1>15, <1>16, <1>17, <1>18, <1>19 DEF Next, Loop, Sender

(* A readable packet that is anywhere in the process, or in a record, was  *)
(* captured and has not been let go.                                       *)
Captured ==
  \A p \in Readable : p \in InProcess \cup carried => fate[p] \in {"held", "dropped"}

Inv == Places /\ Captured

(* The invariant holds at first. *)
LEMMA InitInv == Init => Inv
  <1> SUFFICES ASSUME Init PROVE Inv
    OBVIOUS
  <1>1. Places
    BY NfqueueAssumption DEF Init, Places
  <1>2. Captured
    BY NfqueueAssumption DEF Init, Captured, InProcess, Elems, Readable
  <1> QED
    BY <1>1, <1>2 DEF Inv

(* Every step keeps the invariant. *)
LEMMA InvStep == Inv /\ [Next]_vars => Inv'
  <1> SUFFICES ASSUME Inv, [Next]_vars
               PROVE  Captured'
    BY PlacesStep DEF Inv
  <1>1. \A p \in Readable : Settles(p)
    BY SettlesStep DEF Inv
  <1>2. Readable' = Readable
    BY DEF Readable
  <1> QED
    BY <1>1, <1>2 DEF Inv, Captured, Settles

(* The invariant holds in every state. *)
LEMMA Invariance == Spec => []Inv
  BY InitInv, InvStep, PTL DEF Spec

(* The capture datapath fails closed: it implements N4Channel for every    *)
(* packet whose payload the callback can read (nfq.go goNfqCB, main.go     *)
(* senderLoop, docs/design.md).                                            *)
THEOREM ChannelImplemented == Spec => FailsClosed
  <1>1. Init => Channel!ChInit
    <2> SUFFICES ASSUME Init, NEW p \in Pkts
                 PROVE  StateOf(p) = "unsent"
      BY DEF Channel!ChInit
    <2> QED
      BY DEF Init, StateOf
  <1>2. Inv /\ Inv' /\ [Next]_vars => [Channel!ChNext]_([p \in Pkts \ Unreadable |-> StateOf(p)])
    <2> SUFFICES ASSUME Inv, Inv', [Next]_vars, NEW p \in Readable
                 PROVE  \/ StateOf(p)' = StateOf(p)
                        \/ <<StateOf(p), StateOf(p)'>> \in Channel!Steps
      BY DEF Channel!ChNext, Readable
    <2>1. Settles(p)
      BY SettlesStep DEF Inv
    <2>2. fate[p] \in {"unsent", "held", "dropped", "accepted", "bypassed", "overflow"}
      BY DEF Inv, Places, Readable
    <2>3. (p \in InProcess \cup carried => fate[p] \in {"held", "dropped"})
          /\ (p \in InProcess' \cup carried' => fate'[p] \in {"held", "dropped"})
      BY DEF Inv, Captured, Readable
    <2> QED
      BY <2>1, <2>2, <2>3 DEF Settles, StateOf, Channel!Steps, Alive
  <1> QED
    BY <1>1, <1>2, Invariance, PTL DEF Spec, FailsClosed, Channel!ChSpec

-----------------------------------------------------------------------------
(* Who sets a verdict holds the mutex. *)
MutexInv ==
  /\ loopPc \in {"drop", "accept"} => mutex = "loop"
  /\ sndPc \in {"verdict", "refuse"} => mutex = "sender"

(* Every step keeps the mutex to its owner. *)
LEMMA MutexStep == MutexInv /\ [Next]_vars => MutexInv'
  <1> SUFFICES ASSUME MutexInv, [Next]_vars
               PROVE  MutexInv'
    OBVIOUS
  <1> USE DEF MutexInv, bufVars, loopVars, sndVars, LoopStep, SndStep, nfqSetVerdict, Lock
  <1>1. CASE \E p \in Pkts : NFSends(p)  BY <1>1 DEF NFSends
  <1>2. CASE nfqStart                   BY <1>2 DEF nfqStart
  <1>3. CASE nfqStop                    BY <1>3 DEF nfqStop
  <1>4. CASE Exits                      BY <1>4 DEF Exits
  <1>5. CASE SessionChanges             BY <1>5 DEF SessionChanges
  <1>6. CASE Tick                       BY <1>6 DEF Tick
  <1>7. CASE LoopRecv                   BY <1>7 DEF LoopRecv
  <1>8. CASE LoopEnds                   BY <1>8 DEF LoopEnds
  <1>9. CASE CallbackCopies             BY <1>9 DEF CallbackCopies
  <1>10. CASE CallbackEnqueues          BY <1>10 DEF CallbackEnqueues
  <1>11. CASE CallbackBackpressured     BY <1>11 DEF CallbackBackpressured
  <1>12. CASE CallbackUnreadable        BY <1>12 DEF CallbackUnreadable
  <1>13. CASE LoopLock                  BY <1>13 DEF LoopLock
  <1>14. CASE LoopVerdict               BY <1>14 DEF LoopVerdict
  <1>15. CASE SndTake                   BY <1>15 DEF SndTake
  <1>16. CASE SndWrite                  BY <1>16 DEF SndWrite
  <1>17. CASE SndLock                   BY <1>17 DEF SndLock
  <1>18. CASE SndVerdict                BY <1>18 DEF SndVerdict
  <1>19. CASE Gone \/ UNCHANGED vars     BY <1>19 DEF Gone, vars
  <1> QED
    BY <1>1, <1>2, <1>3, <1>4, <1>5, <1>6, <1>7, <1>8, <1>9, <1>10, <1>11, <1>12,
       <1>13, <1>14, <1>15, <1>16, <1>17, <1>18, <1>19 DEF Next, Loop, Sender

(* The two threads never set a verdict at the same time (nfq.go            *)
(* verdictMu).                                                             *)
THEOREM Serialised == Spec => []VerdictsSerialised
  <1>1. Init => MutexInv
    BY DEF Init, MutexInv
  <1>2. MutexInv => VerdictsSerialised
    BY DEF MutexInv, VerdictsSerialised
  <1> QED
    BY <1>1, <1>2, MutexStep, PTL DEF Spec

-----------------------------------------------------------------------------
(* Every packet is in one place. *)
Distinct ==
  /\ OnePlace
  /\ loopPc \in {"recv", "ended"} => loopPkt = NoPkt
  /\ sndPc = "range" => sndPkt = NoPkt
  /\ \A p \in Pkts : p \in InProcess => fate[p] # "unsent"

(* A sequence without repetitions keeps none when its head is taken. *)
LEMMA DistinctTail ==
  ASSUME NEW S, NEW s \in Seq(S), s # <<>>, \A i, j \in DOMAIN s : s[i] = s[j] => i = j
  PROVE  /\ Head(s) \notin Elems(Tail(s))
         /\ \A i, j \in DOMAIN Tail(s) : Tail(s)[i] = Tail(s)[j] => i = j
  <1>1. DOMAIN Tail(s) = 1..(Len(s) - 1) /\ \A i \in DOMAIN Tail(s) : Tail(s)[i] = s[i + 1]
    OBVIOUS
  <1> QED
    BY <1>1 DEF Elems

(* Nor when something new is appended. *)
LEMMA DistinctAppend ==
  ASSUME NEW S, NEW s \in Seq(S), NEW x \in S, x \notin Elems(s),
         \A i, j \in DOMAIN s : s[i] = s[j] => i = j
  PROVE  \A i, j \in DOMAIN Append(s, x) : Append(s, x)[i] = Append(s, x)[j] => i = j
  BY DEF Elems

(* No packet is in two places, after any step. *)
LEMMA DistinctStep == Places /\ Distinct /\ [Next]_vars => Distinct'
  <1> SUFFICES ASSUME Places, Distinct, [Next]_vars
               PROVE  Distinct'
    OBVIOUS
  <1> USE NfqueueAssumption
      DEF Places, Distinct, OnePlace, InProcess, bufVars, loopVars, sndVars, writeVars,
          LoopStep, SndStep, nfqSetVerdict, Unbinds
  <1>0. Elems(<<>>) = {}
    BY DEF Elems
  <1>a. NoPkt \notin Elems(queue) \cup Elems(ch)
    BY ElemsType
  <1>1. ASSUME NEW p \in Pkts, NFSends(p) PROVE Distinct'
    <2>1. p \notin InProcess
      BY <1>1 DEF NFSends
    <2>2. CASE queue' = Append(queue, p) /\ fate'[p] = "held"
      <3>1. Elems(queue') = Elems(queue) \cup {p}
        BY <2>2, ElemsAppend
      <3>2. \A i, j \in DOMAIN queue' : queue'[i] = queue'[j] => i = j
        <4>1. queue \in Seq(Pkts) /\ p \notin Elems(queue)
          BY <2>1
        <4>2. \A i, j \in DOMAIN queue : queue[i] = queue[j] => i = j
          OBVIOUS
        <4> HIDE DEF Places, Distinct, OnePlace, InProcess
        <4>3. \A i, j \in DOMAIN Append(queue, p) :
                Append(queue, p)[i] = Append(queue, p)[j] => i = j
          BY <4>1, <4>2, DistinctAppend, Zenon
        <4> QED
          BY <2>2, <4>3, Zenon
      <3>3. \A q \in Pkts : q # p => fate'[q] = fate[q]
        BY <1>1 DEF NFSends
      <3> QED
        BY <1>1, <2>1, <2>2, <3>1, <3>2, <3>3 DEF NFSends
    <2>3. CASE queue' = queue
      BY <1>1, <2>3 DEF NFSends
    <2> QED
      BY <1>1, <2>2, <2>3 DEF NFSends
  <1>2. CASE nfqStart                   BY <1>2 DEF nfqStart
  <1>3. CASE nfqStop                    BY <1>3, <1>0 DEF nfqStop
  <1>4. CASE Exits                      BY <1>4, <1>0 DEF Exits
  <1>5. CASE SessionChanges             BY <1>5 DEF SessionChanges
  <1>6. CASE Tick                       BY <1>6 DEF Tick
  <1>7. CASE LoopRecv
    <2>1. /\ Head(queue) \in Elems(queue) /\ Elems(Tail(queue)) \subseteq Elems(queue)
          /\ Head(queue) \notin Elems(Tail(queue)) /\ Head(queue) \in Pkts
          /\ \A i, j \in DOMAIN Tail(queue) : Tail(queue)[i] = Tail(queue)[j] => i = j
      BY <1>7, ElemsTail, DistinctTail DEF LoopRecv
    <2> QED
      BY <1>7, <2>1 DEF LoopRecv
  <1>8. CASE LoopEnds                   BY <1>8 DEF LoopEnds
  <1>9. CASE CallbackCopies             BY <1>9 DEF CallbackCopies
  <1>10. CASE CallbackEnqueues
    <2>1. loopPkt \in Pkts /\ loopPkt \notin Elems(ch)
      BY <1>10 DEF CallbackEnqueues
    <2>2. /\ Elems(ch') = Elems(ch) \cup {loopPkt}
          /\ \A i, j \in DOMAIN ch' : ch'[i] = ch'[j] => i = j
      BY <1>10, <2>1, ElemsAppend, DistinctAppend DEF CallbackEnqueues
    <2>3. UNCHANGED <<queue, fate, sndPc, sndPkt>> /\ loopPkt' = NoPkt
      BY <1>10 DEF CallbackEnqueues
    <2>4. loopPkt # sndPkt /\ loopPkt \notin Elems(queue) /\ NoPkt \notin Elems(queue) \cup Elems(ch')
      BY <1>a, <2>1, <2>2
    <2> QED
      BY <2>1, <2>2, <2>3, <2>4
  <1>11. CASE CallbackBackpressured     BY <1>11 DEF CallbackBackpressured
  <1>12. CASE CallbackUnreadable        BY <1>12 DEF CallbackUnreadable
  <1>13. CASE LoopLock                  BY <1>13 DEF LoopLock
  <1>14. CASE LoopVerdict
    <2>1. \A p \in Pkts : fate[p] # "unsent" => fate'[p] # "unsent"
      BY <1>14 DEF LoopVerdict
    <2>2. UNCHANGED <<queue, ch>>
      BY <1>14 DEF LoopVerdict
    <2> QED
      BY <1>14, <1>a, <2>1, <2>2 DEF LoopVerdict
  <1>15. CASE SndTake
    <2>1. /\ Head(ch) \in Elems(ch) /\ Elems(Tail(ch)) \subseteq Elems(ch)
          /\ Head(ch) \notin Elems(Tail(ch)) /\ Head(ch) \in Pkts
          /\ \A i, j \in DOMAIN Tail(ch) : Tail(ch)[i] = Tail(ch)[j] => i = j
      BY <1>15, ElemsTail, DistinctTail DEF SndTake
    <2> QED
      BY <1>15, <2>1 DEF SndTake
  <1>16. CASE SndWrite                  BY <1>16 DEF SndWrite
  <1>17. CASE SndLock                   BY <1>17 DEF SndLock
  <1>18. CASE SndVerdict
    <2>1. \A p \in Pkts : fate[p] # "unsent" => fate'[p] # "unsent"
      BY <1>18 DEF SndVerdict
    <2>2. UNCHANGED <<queue, ch>>
      BY <1>18 DEF SndVerdict
    <2> QED
      BY <1>18, <1>a, <2>1, <2>2 DEF SndVerdict
  <1>19. CASE Gone \/ UNCHANGED vars     BY <1>19 DEF Gone, vars
  <1> QED
    BY <1>1, <1>2, <1>3, <1>4, <1>5, <1>6, <1>7, <1>8, <1>9, <1>10, <1>11, <1>12,
       <1>13, <1>14, <1>15, <1>16, <1>17, <1>18, <1>19 DEF Next, Loop, Sender

(* While the queue is bound, the kernel holds what is in the process, and  *)
(* nothing otherwise; a process that has yet to bind it has nothing.       *)
HeldInv ==
  /\ Bound => Held = InProcess \ {NoPkt}
  /\ ~Bound => Held = {}
  /\ proc = "starting" => InProcess = {NoPkt}

(* A sequence is its head and its tail. *)
LEMMA HeadTail ==
  ASSUME NEW S, NEW s \in Seq(S), s # <<>>
  PROVE  Elems(s) = {Head(s)} \cup Elems(Tail(s))
  <1>1. /\ DOMAIN s = 1..Len(s) /\ DOMAIN Tail(s) = 1..(Len(s) - 1) /\ Head(s) = s[1]
        /\ \A i \in DOMAIN Tail(s) : Tail(s)[i] = s[i + 1]
    OBVIOUS
  <1>2. \A i \in DOMAIN s : i = 1 \/ (i - 1 \in DOMAIN Tail(s) /\ s[i] = Tail(s)[i - 1])
    BY <1>1
  <1>3. Elems(s) \subseteq {Head(s)} \cup Elems(Tail(s))
    BY <1>1, <1>2 DEF Elems
  <1> QED
    BY <1>3, ElemsTail

(* Every step accounts for each packet the kernel holds. *)
LEMMA HeldStep == Places /\ Distinct /\ HeldInv /\ [Next]_vars => HeldInv'
  <1> SUFFICES ASSUME Places, Distinct, HeldInv, [Next]_vars
               PROVE  HeldInv'
    OBVIOUS
  <1> USE NfqueueAssumption
      DEF Places, Distinct, OnePlace, HeldInv, Held, InProcess, bufVars, loopVars,
          sndVars, writeVars, LoopStep, SndStep, nfqSetVerdict, Unbinds, Bound, Alive
  <1>1. ASSUME NEW p \in Pkts, NFSends(p) PROVE HeldInv'
    <2>1. UNCHANGED <<proc, ch, loopPkt, sndPkt>>
      BY <1>1 DEF NFSends
    <2>2. CASE Bound /\ queue' = Append(queue, p) /\ fate' = [fate EXCEPT ![p] = "held"]
      <3>1. Elems(queue') = Elems(queue) \cup {p}
        BY <2>2, ElemsAppend
      <3>2. Held' = Held \cup {p}
        BY <2>2
      <3>3. InProcess' = InProcess \cup {p} /\ p # NoPkt
        BY <2>1, <3>1
      <3>4. Bound' /\ proc' # "starting"
        BY <2>1, <2>2
      <3>5. Held = InProcess \ {NoPkt}
        BY <2>2
      <3> HIDE DEF Held, InProcess
      <3> QED
        BY <3>2, <3>3, <3>4, <3>5
    <2>3. CASE /\ queue' = queue
               /\ \E f \in {"overflow", "bypassed"} : fate' = [fate EXCEPT ![p] = f]
      <3>1. Held' = Held
        BY <1>1, <2>3 DEF NFSends
      <3>2. UNCHANGED <<proc, queue, ch, loopPkt, sndPkt>>
        BY <2>1, <2>3
      <3> HIDE DEF Held
      <3> QED
        BY <3>1, <3>2
    <2> QED
      BY <1>1, <2>2, <2>3 DEF NFSends
  <1>2. CASE nfqStart                    BY <1>2 DEF nfqStart
  <1>3. CASE nfqStop                     BY <1>3 DEF nfqStop
  <1>4. CASE Exits                       BY <1>4 DEF Exits
  <1>5. CASE SessionChanges             BY <1>5 DEF SessionChanges
  <1>6. CASE Tick                       BY <1>6 DEF Tick
  <1>7. CASE LoopRecv
    <2>1. Elems(queue) = {loopPkt'} \cup Elems(queue') /\ loopPkt = NoPkt
      BY <1>7, HeadTail DEF LoopRecv
    <2> QED
      BY <1>7, <2>1 DEF LoopRecv
  <1>8. CASE LoopEnds                   BY <1>8 DEF LoopEnds
  <1>9. CASE CallbackCopies             BY <1>9 DEF CallbackCopies, Crash
  <1>10. CASE CallbackEnqueues
    <2>1. Elems(ch') = Elems(ch) \cup {loopPkt} /\ loopPkt' = NoPkt
      BY <1>10, ElemsAppend DEF CallbackEnqueues
    <2> QED
      BY <1>10, <2>1 DEF CallbackEnqueues
  <1>11. CASE CallbackBackpressured     BY <1>11 DEF CallbackBackpressured
  <1>12. CASE CallbackUnreadable        BY <1>12 DEF CallbackUnreadable
  <1>13. CASE LoopLock                  BY <1>13 DEF LoopLock
  <1>14. CASE LoopVerdict               BY <1>14 DEF LoopVerdict
  <1>15. CASE SndTake                   BY <1>15, HeadTail DEF SndTake
  <1>16. CASE SndWrite                  BY <1>16 DEF SndWrite
  <1>17. CASE SndLock                   BY <1>17 DEF SndLock
  <1>18. CASE SndVerdict                BY <1>18 DEF SndVerdict
  <1>19. CASE Gone \/ UNCHANGED vars     BY <1>19 DEF Gone, vars
  <1> QED
    BY <1>1, <1>2, <1>3, <1>4, <1>5, <1>6, <1>7, <1>8, <1>9, <1>10, <1>11, <1>12,
       <1>13, <1>14, <1>15, <1>16, <1>17, <1>18, <1>19 DEF Next, Loop, Sender

(* Who owns which buffer. *)
BufInv ==
  /\ bufOf \in [Pkts -> Bufs \cup {NilBuf, NoBuf}]
  /\ \A p, q \in Pkts : bufOf[p] = bufOf[q] /\ bufOf[p] \in Bufs => p = q
  /\ \A p \in Pkts : bufOf[p] \in Bufs => bufOf[p] \notin pool
  /\ pool \subseteq Bufs \cup {NilBuf}
  /\ \A p \in Elems(ch) : bufOf[p] # NoBuf
  /\ loopPc = "offer" => bufOf[loopPkt] # NoBuf
  /\ sndPc \in {"write", "lockRefuse", "refuse"} => bufOf[sndPkt] # NoBuf

(* Every step keeps buffers private to their packet. *)
LEMMA BufStep == Places /\ Distinct /\ BufInv /\ [Next]_vars => BufInv'
  <1> SUFFICES ASSUME Places, Distinct, BufInv, [Next]_vars
               PROVE  BufInv'
    OBVIOUS
  <1> USE NfqueueAssumption
      DEF Places, Distinct, OnePlace, BufInv, bufVars, loopVars, sndVars, writeVars, LoopStep, SndStep
  <1>0. Elems(<<>>) = {}
    BY DEF Elems
  <1>1. CASE \E p \in Pkts : NFSends(p)  BY <1>1 DEF NFSends
  <1>2. CASE nfqStart                   BY <1>2 DEF nfqStart
  <1>3. CASE nfqStop                    BY <1>3 DEF nfqStop
  <1>4. CASE Exits                      BY <1>4, <1>0 DEF Exits
  <1>5. CASE SessionChanges             BY <1>5 DEF SessionChanges
  <1>6. CASE Tick                       BY <1>6 DEF Tick
  <1>7. CASE LoopRecv                   BY <1>7 DEF LoopRecv
  <1>8. CASE LoopEnds                   BY <1>8 DEF LoopEnds
  <1>9. CASE CallbackCopies             BY <1>9 DEF CallbackCopies, getPktBuf
  <1>10. CASE CallbackEnqueues          BY <1>10, ElemsAppend DEF CallbackEnqueues
  <1>11. CASE CallbackBackpressured     BY <1>11 DEF CallbackBackpressured
  <1>12. CASE CallbackUnreadable        BY <1>12 DEF CallbackUnreadable
  <1>13. CASE LoopLock                  BY <1>13 DEF LoopLock
  <1>14. CASE LoopVerdict               BY <1>14 DEF LoopVerdict
  <1>15. CASE SndTake                   BY <1>15, ElemsTail DEF SndTake
  <1>16. CASE SndWrite                  BY <1>16 DEF SndWrite, releasePkt
  <1>17. CASE SndLock                   BY <1>17 DEF SndLock
  <1>18. CASE SndVerdict
    <2>1. CASE sndPc = "verdict"
      BY <1>18, <2>1 DEF SndVerdict
    <2>2. CASE sndPc = "refuse"
      <3>1. sndPkt \in Pkts \ Elems(ch) /\ (loopPc = "offer" => loopPkt # sndPkt)
        BY <2>2
      <3>2. releasePkt(sndPkt)
        BY <1>18, <2>2 DEF SndVerdict
      <3> QED
        BY <1>18, <2>2, <3>1, <3>2 DEF SndVerdict, releasePkt
    <2> QED
      BY <1>18, <2>1, <2>2 DEF SndVerdict
  <1>19. CASE Gone \/ UNCHANGED vars     BY <1>19 DEF Gone, vars
  <1> QED
    BY <1>1, <1>2, <1>3, <1>4, <1>5, <1>6, <1>7, <1>8, <1>9, <1>10, <1>11, <1>12,
       <1>13, <1>14, <1>15, <1>16, <1>17, <1>18, <1>19 DEF Next, Loop, Sender

-----------------------------------------------------------------------------
(* Counting: the kernel admits no more packets than its queue is long, and *)
(* every packet in the process is one of these.                            *)
Waiting == InProcess \ {NoPkt}

RoomInv ==
  klen \in KernelLens /\ IsFiniteSet(Waiting) /\ Cardinality(Waiting) <= klen

(* A sequence without repetitions has as many elements as it is long. *)
LEMMA CountedOnce ==
  ASSUME NEW S, NEW s \in Seq(S), \A i, j \in DOMAIN s : s[i] = s[j] => i = j
  PROVE  IsFiniteSet(Elems(s)) /\ Cardinality(Elems(s)) = Len(s)
  <1>1. s \in [1..Len(s) -> Elems(s)] /\ DOMAIN s = 1..Len(s) /\ Len(s) \in Nat
    BY DEF Elems
  <1>2. s \in Bijection(1..Len(s), Elems(s))
    BY <1>1 DEF Bijection, Injection, IsInjective, Surjection, Elems
  <1>3. ExistsBijection(1..Len(s), Elems(s))
    BY <1>2 DEF ExistsBijection
  <1> QED
    BY <1>1, <1>3, FS_CountingElements, FS_NatBijection

(* A step adds a packet to those that wait only where the kernel has room  *)
(* for it.                                                                 *)
LEMMA WaitingStep ==
  ASSUME Places, Distinct, HeldInv, [Next]_vars
  PROVE  /\ klen' = klen
         /\ \/ Waiting' \subseteq Waiting
            \/ \E p \in Pkts : Waiting' = Waiting \cup {p} /\ Cardinality(Waiting) < klen
  <1> DEFINE Goal == /\ klen' = klen
                     /\ \/ Waiting' \subseteq Waiting
                        \/ \E p \in Pkts : Waiting' = Waiting \cup {p} /\ Cardinality(Waiting) < klen
  <1> USE DEF Places, bufVars, loopVars, sndVars, LoopStep, SndStep, Unbinds, Waiting, InProcess
  <1>0. Elems(<<>>) = {}
    BY DEF Elems
  <1>1. ASSUME NEW p \in Pkts, NFSends(p) PROVE Goal
    <2>1. UNCHANGED <<klen, ch, loopPkt, sndPkt>>
      BY <1>1 DEF NFSends
    <2>2. CASE queue' = queue
      BY <2>1, <2>2
    <2>3. CASE queue' = Append(queue, p) /\ Bound /\ Cardinality(Held) < klen
      <3>1. Elems(queue') = Elems(queue) \cup {p} /\ p # NoPkt
        BY <2>3, ElemsAppend, NfqueueAssumption
      <3>2. Cardinality(Waiting) < klen
        BY <2>3 DEF HeldInv
      <3>3. Waiting' = Waiting \cup {p}
        BY <2>1, <3>1
      <3> QED
        BY <2>1, <3>2, <3>3
    <2> QED
      BY <1>1, <2>2, <2>3 DEF NFSends
  <1>2. CASE nfqStart                    BY <1>2 DEF nfqStart
  <1>3. CASE nfqStop                     BY <1>3, <1>0 DEF nfqStop
  <1>4. CASE Exits                       BY <1>4, <1>0 DEF Exits
  <1>5. CASE SessionChanges              BY <1>5 DEF SessionChanges
  <1>6. CASE Tick                        BY <1>6 DEF Tick
  <1>7. CASE LoopRecv                    BY <1>7, ElemsTail DEF LoopRecv
  <1>8. CASE LoopEnds                    BY <1>8 DEF LoopEnds
  <1>9. CASE CallbackCopies              BY <1>9 DEF CallbackCopies
  <1>10. CASE CallbackEnqueues
    <2>1. Elems(ch') = Elems(ch) \cup {loopPkt}
      BY <1>10, ElemsAppend DEF CallbackEnqueues
    <2> QED
      BY <1>10, <2>1 DEF CallbackEnqueues
  <1>11. CASE CallbackBackpressured      BY <1>11 DEF CallbackBackpressured
  <1>12. CASE CallbackUnreadable         BY <1>12 DEF CallbackUnreadable
  <1>13. CASE LoopLock                   BY <1>13 DEF LoopLock
  <1>14. CASE LoopVerdict                BY <1>14 DEF LoopVerdict
  <1>15. CASE SndTake                    BY <1>15, ElemsTail DEF SndTake
  <1>16. CASE SndWrite                   BY <1>16 DEF SndWrite
  <1>17. CASE SndLock                    BY <1>17 DEF SndLock
  <1>18. CASE SndVerdict                 BY <1>18 DEF SndVerdict
  <1>19. CASE Gone \/ UNCHANGED vars     BY <1>19 DEF Gone, vars
  <1> QED
    BY <1>1, <1>2, <1>3, <1>4, <1>5, <1>6, <1>7, <1>8, <1>9, <1>10, <1>11, <1>12,
       <1>13, <1>14, <1>15, <1>16, <1>17, <1>18, <1>19 DEF Next, Loop, Sender

(* No step lets more packets wait than the kernel's queue is long. *)
LEMMA RoomStep == Places /\ Distinct /\ HeldInv /\ RoomInv /\ [Next]_vars => RoomInv'
  <1> SUFFICES ASSUME Places, Distinct, HeldInv, RoomInv, [Next]_vars
               PROVE  RoomInv'
    OBVIOUS
  <1>1. klen' = klen /\ klen \in KernelLens /\ klen \in Nat
    BY WaitingStep, NfqueueAssumption DEF RoomInv
  <1>2. Cardinality(Waiting) \in Nat
    BY FS_CardinalityType DEF RoomInv
  <1>3. CASE Waiting' \subseteq Waiting
    <2>1. /\ IsFiniteSet(Waiting') /\ Cardinality(Waiting') <= Cardinality(Waiting)
          /\ Cardinality(Waiting') \in Nat
      BY <1>3, FS_Subset, FS_CardinalityType DEF RoomInv
    <2> QED
      BY <1>1, <1>2, <2>1 DEF RoomInv
  <1>4. ASSUME NEW p \in Pkts, Waiting' = Waiting \cup {p}, Cardinality(Waiting) < klen
        PROVE  RoomInv'
    <2>1. /\ IsFiniteSet(Waiting')
          /\ Cardinality(Waiting') = IF p \in Waiting THEN Cardinality(Waiting)
                                     ELSE Cardinality(Waiting) + 1
      BY <1>4, FS_AddElement DEF RoomInv
    <2> QED
      BY <1>1, <1>2, <1>4, <2>1 DEF RoomInv
  <1> QED
    BY <1>3, <1>4, WaitingStep

(* When the callback offers a packet, the channel has room for it if the   *)
(* kernel's queue is no longer than the channel.                           *)
LEMMA RoomForOffer ==
  ASSUME Places, Distinct, RoomInv, loopPc = "offer", klen <= Depth
  PROVE  ~Full
  <1>1. loopPkt \in Pkts /\ loopPkt # NoPkt /\ loopPkt \notin Elems(ch) /\ ch \in Seq(Pkts)
    BY NfqueueAssumption DEF Places, Distinct, OnePlace
  <1>2. IsFiniteSet(Elems(ch)) /\ Cardinality(Elems(ch)) = Len(ch) /\ Len(ch) \in Nat
    BY <1>1, CountedOnce DEF Distinct, OnePlace
  <1>3. Cardinality(Elems(ch) \cup {loopPkt}) = Len(ch) + 1
    BY <1>1, <1>2, FS_AddElement
  <1>4. Elems(ch) \cup {loopPkt} \subseteq Waiting
    BY <1>1, ElemsType, NfqueueAssumption DEF Waiting, InProcess
  <1>5. Cardinality(Elems(ch) \cup {loopPkt}) <= Cardinality(Waiting)
    BY <1>4, FS_Subset DEF RoomInv
  <1>6. Cardinality(Waiting) \in Nat /\ klen \in Nat /\ Cardinality(Waiting) <= klen /\ Depth \in Nat
    BY FS_CardinalityType, NfqueueAssumption DEF RoomInv
  <1> QED
    BY <1>2, <1>3, <1>5, <1>6 DEF Full

(* While the kernel's queue is no longer than the channel, no step finds   *)
(* the channel full.                                                       *)
LEMMA QuietStep ==
  Places /\ Distinct /\ RoomInv /\ NoBackpressure /\ [Next]_vars => NoBackpressure'
  <1> SUFFICES ASSUME Places, Distinct, RoomInv, NoBackpressure, [Next]_vars, klen' <= Depth
               PROVE  loopPc' \notin {"lockDrop", "drop"} /\ NilBuf \notin pool'
    BY DEF NoBackpressure
  <1> DEFINE Goal == loopPc' \notin {"lockDrop", "drop"} /\ NilBuf \notin pool'
  <1> USE NfqueueAssumption DEF NoBackpressure, bufVars, loopVars, LoopStep, SndStep, releasePkt
  <1>1. CASE \E p \in Pkts : NFSends(p)  BY <1>1 DEF NFSends
  <1>2. CASE nfqStart                    BY <1>2 DEF nfqStart
  <1>3. CASE nfqStop                     BY <1>3 DEF nfqStop
  <1>4. CASE Exits                       BY <1>4 DEF Exits
  <1>5. CASE SessionChanges              BY <1>5 DEF SessionChanges
  <1>6. CASE Tick                        BY <1>6 DEF Tick
  <1>7. CASE LoopRecv                    BY <1>7 DEF LoopRecv
  <1>8. CASE LoopEnds                    BY <1>8 DEF LoopEnds
  <1>9. CASE CallbackCopies              BY <1>9 DEF CallbackCopies
  <1>10. CASE CallbackEnqueues           BY <1>10 DEF CallbackEnqueues
  <1>11. CASE CallbackBackpressured      BY <1>11, RoomForOffer DEF CallbackBackpressured
  <1>12. CASE CallbackUnreadable         BY <1>12 DEF CallbackUnreadable
  <1>13. CASE LoopLock                   BY <1>13 DEF LoopLock
  <1>14. CASE LoopVerdict                BY <1>14 DEF LoopVerdict
  <1>15. CASE SndTake                    BY <1>15 DEF SndTake
  <1>16. CASE SndWrite                   BY <1>16 DEF SndWrite
  <1>17. CASE SndLock                    BY <1>17 DEF SndLock
  <1>18. CASE SndVerdict                 BY <1>18 DEF SndVerdict
  <1>19. CASE Gone \/ UNCHANGED vars     BY <1>19 DEF Gone, vars
  <1> QED
    BY <1>1, <1>2, <1>3, <1>4, <1>5, <1>6, <1>7, <1>8, <1>9, <1>10, <1>11, <1>12,
       <1>13, <1>14, <1>15, <1>16, <1>17, <1>18, <1>19 DEF Next, Loop, Sender

CountInv == Places /\ Distinct /\ HeldInv /\ RoomInv

(* What waits is counted, in every state. *)
LEMMA Counted == Spec => []CountInv
  <1>1. Init => CountInv
    <2> SUFFICES ASSUME Init PROVE CountInv
      OBVIOUS
    <2> USE NfqueueAssumption
    <2>1. Places    BY DEF Init, Places
    <2>2. Distinct  BY DEF Init, Distinct, OnePlace, Elems, InProcess
    <2>3. HeldInv   BY DEF Init, HeldInv, Held, Elems, InProcess, Bound
    <2>4. Waiting = {}
      BY DEF Init, Waiting, InProcess, Elems
    <2>5. RoomInv
      BY <2>4, FS_EmptySet DEF Init, RoomInv
    <2> QED
      BY <2>1, <2>2, <2>3, <2>5 DEF CountInv
  <1>2. CountInv /\ [Next]_vars => CountInv'
    BY PlacesStep, DistinctStep, HeldStep, RoomStep DEF CountInv
  <1> QED
    BY <1>1, <1>2, PTL DEF Spec

(* With a kernel queue no longer than nfqQueueDepth the callback never     *)
(* finds the channel full, so it neither drops a packet for want of room   *)
(* nor puts a nil buffer into the pool (nfq.go nfqQueueDepth, goNfqCB).    *)
THEOREM ChannelNeverFull == Spec => []NoBackpressure
  <1>1. Init => NoBackpressure
    BY DEF Init, NoBackpressure
  <1>2. CountInv /\ NoBackpressure /\ [Next]_vars => NoBackpressure'
    BY QuietStep DEF CountInv
  <1> QED
    BY <1>1, <1>2, Counted, PTL DEF Spec

(* No packet the kernel holds is forgotten, and none gets a second verdict *)
(* (nfq.go goNfqCB and nfqSetVerdict, main.go senderLoop).                 *)
THEOREM VerdictsAccountedFor == Spec => []HeldAccountedFor
  <1>1. CountInv => HeldAccountedFor
    BY DEF CountInv, Distinct, HeldInv, HeldAccountedFor
  <1> QED
    BY <1>1, Counted, PTL

(* Buffers stay private to their packet, in every state. *)
LEMMA Buffered == Spec => []BufInv
  <1>1. Init => BufInv
    BY NfqueueAssumption DEF Init, BufInv, Elems
  <1>2. CountInv /\ BufInv /\ [Next]_vars => BufInv'
    BY BufStep DEF CountInv
  <1> QED
    BY <1>1, <1>2, Counted, PTL DEF Spec

(* A packet's payload is never overwritten between the callback's copy and *)
(* the DTLS write (nfq.go getPktBuf and releasePkt, main.go senderLoop).   *)
THEOREM PayloadsIntact == Spec => []PayloadIntact
  <1>1. BufInv => PayloadIntact
    BY DEF BufInv, PayloadIntact
  <1> QED
    BY <1>1, Buffered, PTL

-----------------------------------------------------------------------------
(* The sender's deadline, and what it knows of the session. *)
WriteInv ==
  session \in {"none", "new", "last"} /\ deadlineAt \in 0..Budget /\ limited \in BOOLEAN

(* Every step keeps the deadline within writeBudget. *)
LEMMA WriteStep == WriteInv /\ [Next]_vars => WriteInv'
  <1> SUFFICES ASSUME WriteInv, [Next]_vars PROVE WriteInv'
    OBVIOUS
  <1> USE NfqueueAssumption DEF WriteInv
  <1>1. CASE (\E p \in Pkts : NFSends(p)) \/ nfqStart \/ nfqStop
    BY <1>1 DEF NFSends, nfqStart, nfqStop, sndVars, writeVars
  <1>2. CASE Exits \/ SessionChanges
    <2>1. session' \in {"none", "new"} /\ deadlineAt' \in {0, deadlineAt}
      BY <1>2 DEF Exits, SessionChanges
    <2>2. limited' \in BOOLEAN
      BY <1>2, Zenon DEF Exits, SessionChanges
    <2> QED
      BY <2>1, <2>2
  <1>3. CASE Tick
    <2>1. deadlineAt' \in 0..Budget
      BY <1>3 DEF Tick
    <2>2. session' = session /\ limited' = limited
      BY <1>3 DEF Tick
    <2> QED
      BY <2>1, <2>2
  <1>4. CASE Loop \/ LoopEnds
    <2>1. UNCHANGED sndVars
      BY <1>4 DEF Loop, LoopRecv, LoopEnds, CallbackCopies, CallbackEnqueues,
                  CallbackBackpressured, CallbackUnreadable, LoopLock, LoopVerdict, LoopStep
    <2> QED
      BY <2>1 DEF sndVars, writeVars
  <1>5. CASE SndTake
    <2>1. session' \in {session, "last"} /\ deadlineAt' \in {deadlineAt, Budget}
      BY <1>5 DEF SndTake, writeVars
    <2>2. limited' \in BOOLEAN
      BY <1>5 DEF SndTake, writeVars
    <2> QED
      BY <2>1, <2>2
  <1>6. CASE SndWrite \/ SndLock \/ SndVerdict
    BY <1>6 DEF SndWrite, SndLock, SndVerdict, writeVars
  <1>7. CASE Gone \/ UNCHANGED vars
    BY <1>7 DEF Gone, vars, sndVars, writeVars
  <1> QED
    BY <1>1, <1>2, <1>3, <1>4, <1>5, <1>6, <1>7 DEF Next, Sender

(* The deadline stays within writeBudget, in every state. *)
LEMMA Deadlines == Spec => []WriteInv
  <1>1. Init => WriteInv
    <2>1. 0 \in 0..Budget
      BY NfqueueAssumption
    <2> QED
      BY <2>1, Zenon DEF Init, WriteInv
  <1> QED
    BY <1>1, WriteStep, PTL DEF Spec

(* Every write starts on a connection whose deadline is set, with at least *)
(* half of writeBudget left (main.go senderLoop).                          *)
THEOREM WritesBudgeted == Spec => WriteBudgeted
  <1> DEFINE Budgeted == sndPc = "range" /\ sndPc' = "write"
                           => limited' /\ 2 * deadlineAt' >= Budget
  <1> USE NfqueueAssumption DEF WriteInv
  <1>1. WriteInv /\ [Next]_vars => [Budgeted]_vars
    <2> SUFFICES ASSUME WriteInv, [Next]_vars, sndPc = "range", sndPc' = "write"
                 PROVE  limited' /\ 2 * deadlineAt' >= Budget
      OBVIOUS
    <2>1. SndTake
      <3>1. ~(Gone \/ UNCHANGED vars \/ \E p \in Pkts : NFSends(p))
        BY DEF Gone, vars, NFSends, sndVars
      <3>2. ~(nfqStart \/ nfqStop \/ Exits \/ SessionChanges \/ Tick)
        BY DEF nfqStart, nfqStop, Exits, SessionChanges, Tick, sndVars
      <3>3. ~(Loop \/ LoopEnds)
        BY DEF Loop, LoopRecv, LoopEnds, CallbackCopies, CallbackEnqueues,
               CallbackBackpressured, CallbackUnreadable, LoopLock, LoopVerdict, LoopStep, sndVars
      <3>4. ~(SndWrite \/ SndLock \/ SndVerdict)
        BY DEF SndWrite, SndLock, SndVerdict, SndStep
      <3> QED
        BY <3>1, <3>2, <3>3, <3>4 DEF Next, Sender
    <2>2. session # "none"
      BY <2>1 DEF SndTake, SndStep
    <2>3. CASE Refresh
      BY <2>1, <2>2, <2>3 DEF SndTake
    <2>4. CASE ~Refresh
      <3>1. session = "last" /\ 2 * deadlineAt >= Budget
        BY <2>2, <2>4 DEF Refresh
      <3>2. deadlineAt' = deadlineAt /\ limited' = (session = "last")
        BY <2>1, <2>4 DEF SndTake
      <3>3. limited'
        BY <3>1, <3>2
      <3> QED
        BY <3>1, <3>2, <3>3
    <2> QED
      BY <2>3, <2>4
  <1> QED
    BY <1>1, Deadlines, PTL DEF Spec, WriteBudgeted

-----------------------------------------------------------------------------
(* Where the process, the threads and the mutex can be, and how full the   *)
(* channel.                                                                *)
ControlInv ==
  /\ proc \in {"starting", "running", "stopping", "crashed", "aborted", "gone"}
  /\ mutex \in {"free", "loop", "sender"}
  /\ loopPc \in {"recv", "callback", "offer", "lockDrop", "lockAccept", "drop",
                 "accept", "ended"}
  /\ sndPc \in {"range", "write", "lock", "lockRefuse", "verdict", "refuse"}
  /\ Len(ch) <= Depth

(* Every step keeps to these. *)
LEMMA ControlStep == Places /\ ControlInv /\ [Next]_vars => ControlInv'
  <1> SUFFICES ASSUME Places, ControlInv, [Next]_vars
               PROVE  ControlInv'
    OBVIOUS
  <1> USE NfqueueAssumption
      DEF ControlInv, loopVars, sndVars, LoopStep, SndStep, nfqSetVerdict, Lock
  <1>0. ch \in Seq(Pkts) /\ Len(ch) \in Nat /\ Depth \in Nat
    <2>1. ch \in Seq(Pkts)
      BY DEF Places
    <2> QED
      BY <2>1
  <1>1. CASE \E p \in Pkts : NFSends(p)  BY <1>1 DEF NFSends
  <1>2. CASE nfqStart                    BY <1>2 DEF nfqStart
  <1>3. CASE nfqStop                     BY <1>3 DEF nfqStop
  <1>4. CASE Exits                       BY <1>4 DEF Exits
  <1>5. CASE SessionChanges              BY <1>5 DEF SessionChanges
  <1>6. CASE Tick                        BY <1>6 DEF Tick
  <1>7. CASE LoopRecv                    BY <1>7 DEF LoopRecv
  <1>8. CASE LoopEnds                    BY <1>8 DEF LoopEnds
  <1>9. CASE CallbackCopies              BY <1>9 DEF CallbackCopies, Crash
  <1>10. CASE CallbackEnqueues
    <2>1. Len(ch') = Len(ch) + 1 /\ ~(Len(ch) >= Depth)
      BY <1>10, <1>0 DEF CallbackEnqueues, Places, Full
    <2>2. Len(ch') <= Depth
      BY <2>1, <1>0
    <2> QED
      BY <1>10, <2>2 DEF CallbackEnqueues
  <1>11. CASE CallbackBackpressured      BY <1>11 DEF CallbackBackpressured
  <1>12. CASE CallbackUnreadable         BY <1>12 DEF CallbackUnreadable
  <1>13. CASE LoopLock                   BY <1>13 DEF LoopLock
  <1>14. CASE LoopVerdict                BY <1>14 DEF LoopVerdict
  <1>15. CASE SndTake
    <2>1. Len(ch') = Len(ch) - 1
      BY <1>15, <1>0 DEF SndTake
    <2>2. Len(ch') <= Depth
      BY <2>1, <1>0
    <2> QED
      BY <1>15, <2>2 DEF SndTake
  <1>16. CASE SndWrite                   BY <1>16 DEF SndWrite
  <1>17. CASE SndLock                    BY <1>17 DEF SndLock
  <1>18. CASE SndVerdict                 BY <1>18 DEF SndVerdict
  <1>19. CASE Gone \/ UNCHANGED vars     BY <1>19 DEF Gone, vars
  <1> QED
    BY <1>1, <1>2, <1>3, <1>4, <1>5, <1>6, <1>7, <1>8, <1>9, <1>10, <1>11, <1>12,
       <1>13, <1>14, <1>15, <1>16, <1>17, <1>18, <1>19 DEF Next, Loop, Sender

(* Every variable keeps its type, the channel its depth and the kernel its *)
(* queue length (nfq.go).                                                  *)
THEOREM Typing == Spec => []TypeOK
  <1>1. Init => ControlInv
    <2>1. Len(<<>>) = 0 /\ 0 <= Depth
      BY NfqueueAssumption
    <2> QED
      BY <2>1 DEF Init, ControlInv
  <1>2. CountInv /\ ControlInv /\ [Next]_vars => ControlInv'
    BY ControlStep DEF CountInv
  <1>3. CountInv /\ ControlInv /\ BufInv /\ WriteInv => TypeOK
    <2> SUFFICES ASSUME CountInv, ControlInv, BufInv, WriteInv PROVE TypeOK
      OBVIOUS
    <2>1. klen \in KernelLens /\ klen \in Nat /\ Cardinality(Waiting) <= klen
      BY NfqueueAssumption DEF CountInv, RoomInv
    <2>2. Cardinality(Held) <= klen
      <3>1. CASE Bound
        BY <2>1, <3>1 DEF CountInv, HeldInv, Waiting
      <3>2. CASE ~Bound
        BY <2>1, <3>2, FS_EmptySet DEF CountInv, HeldInv
      <3> QED
        BY <3>1, <3>2
    <2> QED
      BY <2>1, <2>2 DEF TypeOK, CountInv, Places, ControlInv, BufInv, WriteInv
  <1> QED
    BY <1>1, <1>2, <1>3, Counted, Buffered, Deadlines, PTL DEF Spec
=============================================================================
