---------------------------- MODULE ProxyProofs ----------------------------
(* Proofs about Proxy, for every set of endpoints and payloads, with or    *)
(* without faults, and whether or not -peer-n4 is set.                     *)
EXTENDS Proxy, FrameProofs

(* A function of side s sends to its peer: the user plane only to control- *)
(* plane endpoints it has heard of.                                        *)
Addressed(s, src, dst) ==
  IF s = "cp" THEN src \in CpEps /\ dst = Up
  ELSE src = Up /\ dst \in CpEps /\ \E e \in sent : e.src = dst

Source(s, src) == IF s = "cp" THEN src \in CpEps ELSE src = Up

HasSent(src, msg) == \E d \in sent : d.src = src /\ d.msg = msg

(* What side s may have put on the session. *)
Genuine(s, x) ==
  x \in Datagrams /\ HasSent(x.src, x.msg) /\ Addressed(s, x.src, x.dst)

SentInv == \A d \in sent : \E s \in Sides : Addressed(s, d.src, d.dst)

CapturedInv ==
  \A s \in Sides : \A c \in captured[s] : HasSent(c.src, c.msg) /\ Source(s, c.src)

WireInv == \A s \in Sides : \A f \in wire[s] : Genuine(s, decodeFrame(f))

LastFromInv ==
  \A s \in Sides : lastFrom[s] # None =>
    Source(Other(s), lastFrom[s]) /\ \E d \in sent : d.src = lastFrom[s]

GotInv == \A g \in got : \E s \in Sides : Genuine(s, g)

Inv == TypeOK /\ SentInv /\ CapturedInv /\ WireInv /\ LastFromInv /\ GotInv

(* Endpoints, payloads and the zero endpoint. *)
LEMMA Constants ==
  /\ Sides = {"cp", "up"} /\ Other("cp") = "up" /\ Other("up") = "cp"
  /\ None \notin Endpoints /\ Endpoints \subseteq AddrPort /\ Up \notin CpEps
  /\ CpEps \subseteq Endpoints /\ Up \in Endpoints /\ Msgs \subseteq Seq(Byte)
  BY ProxyAssumption DEF Sides, Other, Endpoints

(* The invariant holds at first. *)
LEMMA InitInv == Init => Inv
  BY DEF Init, Inv, TypeOK, SentInv, CapturedInv, WireInv, LastFromInv, GotInv

(* What was sent stays sent. *)
LEMMA Monotone ==
  ASSUME sent \subseteq sent'
  PROVE  /\ \A s, src, dst : Addressed(s, src, dst) => Addressed(s, src, dst)'
         /\ \A src, msg : HasSent(src, msg) => HasSent(src, msg)'
         /\ \A s, x : Genuine(s, x) => Genuine(s, x)'
  BY DEF Addressed, HasSent, Genuine

(* A datagram that is captured keeps the invariant. *)
LEMMA RedirectedInv ==
  ASSUME Inv, NEW s \in Sides, NEW d \in Datagrams,
         Addressed(s, d.src, d.dst), Redirected(s, d)
  PROVE  Inv'
  <1>1. /\ sent' = sent \cup {d} /\ sent \subseteq sent'
        /\ captured' = [captured EXCEPT ![s] = @ \cup {[src |-> d.src, msg |-> d.msg]}]
        /\ UNCHANGED <<wire, lastFrom, got, restarted, lost>>
    BY DEF Redirected, history
  <1>2. d.src \in Endpoints /\ d.msg \in Msgs
    BY DEF Datagrams
  <1>3. TypeOK'
    BY <1>1, <1>2 DEF Inv, TypeOK
  <1>4. SentInv'
    BY <1>1, Monotone DEF Inv, SentInv
  <1>5. CapturedInv'
    <2> SUFFICES ASSUME NEW t \in Sides, NEW c \in captured'[t]
                 PROVE  HasSent(c.src, c.msg)' /\ Source(t, c.src)
      BY DEF CapturedInv, Source
    <2>1. CASE c \in captured[t]
      BY <2>1, <1>1, Monotone DEF Inv, CapturedInv
    <2>2. CASE c \notin captured[t]
      <3>1. t = s /\ c = [src |-> d.src, msg |-> d.msg]
        BY <2>2, <1>1 DEF Inv, TypeOK
      <3> QED
        BY <3>1, <1>1 DEF HasSent, Source, Addressed
    <2> QED
      BY <2>1, <2>2
  <1>6. WireInv' /\ GotInv'
    BY <1>1, Monotone DEF Inv, WireInv, GotInv
  <1>7. LastFromInv'
    BY <1>1 DEF Inv, LastFromInv, Source
  <1> QED
    BY <1>3, <1>4, <1>5, <1>6, <1>7 DEF Inv

(* The functions' sends keep it. *)
LEMMA SendsInv ==
  ASSUME Inv, NEW m \in Msgs,
         \/ \E e \in CpEps : CPSends(m, e)
         \/ \E g \in got : UPAnswers(m, g)
  PROVE  Inv'
  <1>1. ASSUME NEW e \in CpEps, CPSends(m, e) PROVE Inv'
    <2> DEFINE d == [src |-> e, dst |-> Up, msg |-> m]
    <2>1. "cp" \in Sides /\ d \in Datagrams /\ Addressed("cp", d.src, d.dst)
      BY Constants DEF Datagrams, Addressed
    <2> QED
      BY <1>1, <2>1, RedirectedInv DEF CPSends
  <1>2. ASSUME NEW g \in got, UPAnswers(m, g) PROVE Inv'
    <2> DEFINE d == [src |-> Up, dst |-> g.src, msg |-> m]
    <2>1. PICK s \in Sides : Genuine(s, g)
      BY DEF Inv, GotInv
    <2>2. g.src \in CpEps /\ \E e \in sent : e.src = g.src
      BY <1>2, <2>1, Constants DEF UPAnswers, Genuine, Addressed, HasSent
    <2>3. "up" \in Sides /\ d \in Datagrams /\ Addressed("up", d.src, d.dst)
      BY <2>2, Constants DEF Datagrams, Addressed
    <2> QED
      BY <1>2, <2>3, RedirectedInv DEF UPAnswers
  <1> QED
    BY <1>1, <1>2

(* The endpoint capture names is one the frame may be addressed to. *)
LEMMA CaptureAddressed ==
  ASSUME Inv, NEW s \in Sides, NEW c \in captured[s], capture(s, c) # None
  PROVE  Addressed(s, c.src, capture(s, c)) /\ capture(s, c) \in Endpoints
  <1>1. Source(s, c.src)
    BY DEF Inv, CapturedInv
  <1>2. CASE s = "cp"
    BY <1>1, <1>2, Constants, ProxyAssumption
       DEF capture, peerN4, Addressed, Source, Inv, LastFromInv, Endpoints
  <1>3. CASE s = "up"
    BY <1>1, <1>3, Constants DEF capture, peerN4, Addressed, Source, Inv, LastFromInv
  <1> QED
    BY <1>2, <1>3, Constants

(* proxySender keeps it. *)
LEMMA SenderInv ==
  ASSUME Inv, NEW s \in Sides, proxySender(s)
  PROVE  Inv'
  <1>1. PICK c \in captured[s] :
          /\ captured' = [captured EXCEPT ![s] = @ \ {c}]
          /\ \/ /\ capture(s, c) # None
                /\ wire' = [wire EXCEPT ![s] =
                              @ \cup {encodeFrame(c.src, capture(s, c), c.msg)}]
                /\ lost' = lost
             \/ wire' = wire /\ lost' \in {lost, lost \cup {c.msg}}
          /\ UNCHANGED <<sent, lastFrom, got, restarted>>
    BY DEF proxySender
  <1>2. c \in [src : Endpoints, msg : Msgs] /\ HasSent(c.src, c.msg)
    BY DEF Inv, TypeOK, CapturedInv
  <1>3. CapturedInv'
    BY <1>1 DEF Inv, TypeOK, CapturedInv, HasSent, Source
  <1>4. SentInv' /\ LastFromInv' /\ GotInv'
    BY <1>1 DEF Inv, SentInv, LastFromInv, GotInv, Genuine, HasSent, Addressed, Source
  <1>5. ASSUME NEW t \in Sides, NEW f \in wire'[t]
        PROVE  f \in Seq(Byte) /\ ~short(f) /\ Genuine(t, decodeFrame(f))
    <2>1. CASE f \in wire[t]
      BY <2>1 DEF Inv, TypeOK, WireInv
    <2>2. CASE f \notin wire[t]
      <3>1. t = s /\ capture(s, c) # None /\ f = encodeFrame(c.src, capture(s, c), c.msg)
        BY <2>2, <1>1, <1>5 DEF Inv, TypeOK
      <3>2. Addressed(s, c.src, capture(s, c)) /\ capture(s, c) \in Endpoints
        BY <3>1, CaptureAddressed
      <3>3. c.src \in AddrPort /\ capture(s, c) \in AddrPort /\ c.msg \in Seq(Byte)
        BY <1>2, <3>2, Constants
      <3>4. /\ f \in Seq(Byte) /\ ~short(f)
            /\ decodeFrame(f) = [src |-> c.src, dst |-> capture(s, c), msg |-> c.msg]
        BY <3>1, <3>3, RoundTrip
      <3> QED
        BY <1>2, <3>1, <3>2, <3>4 DEF Genuine, Datagrams
    <2> QED
      BY <2>1, <2>2
  <1>6. WireInv'
    BY <1>1, <1>5 DEF WireInv, Genuine, HasSent, Addressed
  <1>7. TypeOK'
    <2>1. wire' \in [Sides -> SUBSET Seq(Byte)]
      <3>1. wire' = [t \in Sides |-> wire'[t]]
        BY <1>1 DEF Inv, TypeOK
      <3> QED
        BY <3>1, <1>5
    <2>2. \A t \in Sides : \A f \in wire'[t] : ~short(f) /\ decodeFrame(f) \in Datagrams
      BY <1>5 DEF Genuine
    <2>3. captured' \in [Sides -> SUBSET [src : Endpoints, msg : Msgs]]
      BY <1>1 DEF Inv, TypeOK
    <2>4. lost' \in SUBSET Msgs
      BY <1>1, <1>2 DEF Inv, TypeOK
    <2> QED
      BY <1>1, <2>1, <2>2, <2>3, <2>4 DEF Inv, TypeOK
  <1> QED
    BY <1>3, <1>4, <1>6, <1>7 DEF Inv

(* A step that takes frames or captured datagrams away, and notes their    *)
(* payloads as lost at most.                                               *)
LEMMA RemovalInv ==
  ASSUME Inv, UNCHANGED sent,
         captured' \in [Sides -> SUBSET [src : Endpoints, msg : Msgs]],
         \A t \in Sides : captured'[t] \subseteq captured[t],
         wire' \in [Sides -> SUBSET Seq(Byte)],
         \A t \in Sides : wire'[t] \subseteq wire[t],
         lastFrom' \in [Sides -> Endpoints \cup {None}], LastFromInv',
         got' \in SUBSET Datagrams, GotInv',
         restarted' \in SUBSET Sides, lost' \in SUBSET Msgs
  PROVE  Inv'
  <1>1. TypeOK'
    BY DEF Inv, TypeOK
  <1>2. SentInv' /\ CapturedInv'
    BY DEF Inv, SentInv, CapturedInv, HasSent, Source, Addressed
  <1>3. WireInv'
    BY DEF Inv, WireInv, Genuine, HasSent, Addressed
  <1> QED
    BY <1>1, <1>2, <1>3 DEF Inv

(* proxyReceiver keeps it. *)
LEMMA ReceiverInv ==
  ASSUME Inv, NEW s \in Sides, proxyReceiver(s)
  PROVE  Inv'
  <1> DEFINE o == Other(s)
  <1>1. o \in Sides /\ Other(o) = s
    BY Constants
  <1>2. PICK f \in wire[o] :
          /\ wire' = [wire EXCEPT ![o] = @ \ {f}]
          /\ IF short(f) THEN UNCHANGED <<lastFrom, got, lost>>
             ELSE deliver(s, decodeFrame(f))
          /\ UNCHANGED <<sent, captured, restarted>>
    BY DEF proxyReceiver
  <1> DEFINE x == decodeFrame(f)
  <1>3. ~short(f) /\ Genuine(o, x) /\ x \in Datagrams
    BY <1>1 DEF Inv, TypeOK, WireInv
  <1> HIDE DEF o, x
  <1>4. /\ lastFrom' = [lastFrom EXCEPT ![s] = x.src]
        /\ got' \in {got, got \cup {x}} /\ lost' \in {lost, lost \cup {x.msg}}
    BY <1>2, <1>3 DEF deliver, x
  <1>5. x.src \in Endpoints /\ x.msg \in Msgs /\ Source(o, x.src)
        /\ \E d \in sent : d.src = x.src
    BY <1>3 DEF Datagrams, Genuine, Addressed, Source, HasSent
  <1>6. LastFromInv'
    <2> SUFFICES ASSUME NEW t \in Sides, lastFrom'[t] # None
                 PROVE  Source(Other(t), lastFrom'[t]) /\ \E d \in sent : d.src = lastFrom'[t]
      BY <1>2 DEF LastFromInv, Source
    <2>1. CASE t = s
      BY <2>1, <1>4, <1>5 DEF Inv, TypeOK, o
    <2>2. CASE t # s
      BY <2>2, <1>4 DEF Inv, TypeOK, LastFromInv
    <2> QED
      BY <2>1, <2>2
  <1>7. GotInv'
    BY <1>1, <1>2, <1>3, <1>4 DEF Inv, GotInv, Genuine, HasSent, Addressed
  <1>8. /\ lastFrom' \in [Sides -> Endpoints \cup {None}]
        /\ got' \in SUBSET Datagrams /\ lost' \in SUBSET Msgs
    BY <1>3, <1>4, <1>5 DEF Inv, TypeOK
  <1>9. /\ wire' \in [Sides -> SUBSET Seq(Byte)]
        /\ \A t \in Sides : wire'[t] \subseteq wire[t]
    BY <1>1, <1>2 DEF Inv, TypeOK
  <1> QED
    BY <1>2, <1>6, <1>7, <1>8, <1>9, RemovalInv DEF Inv, TypeOK

(* Losses and restarts keep it. *)
LEMMA FaultInv ==
  ASSUME Inv, NEW s \in Sides, Lose(s) \/ Restart(s)
  PROVE  Inv'
  <1>1. \A t \in Sides : \A f \in wire[t] : decodeFrame(f).msg \in Msgs
    BY DEF Inv, TypeOK, Datagrams
  <1>2. CASE Lose(s)
    <2>1. PICK f \in wire[s] : /\ wire' = [wire EXCEPT ![s] = @ \ {f}]
                               /\ lost' = lost \cup {decodeFrame(f).msg}
      BY <1>2 DEF Lose
    <2>2. UNCHANGED <<sent, captured, lastFrom, got, restarted>>
      BY <1>2 DEF Lose
    <2>3. LastFromInv' /\ GotInv'
      BY <2>2 DEF Inv, LastFromInv, GotInv, Genuine, HasSent, Addressed, Source
    <2>4. /\ wire' \in [Sides -> SUBSET Seq(Byte)]
          /\ \A t \in Sides : wire'[t] \subseteq wire[t]
      BY <2>1 DEF Inv, TypeOK
    <2>5. lost' \in SUBSET Msgs
      BY <1>1, <2>1 DEF Inv, TypeOK
    <2> QED
      BY <2>2, <2>3, <2>4, <2>5, RemovalInv DEF Inv, TypeOK
  <1>3. CASE Restart(s)
    <2>1. /\ captured' = [captured EXCEPT ![s] = {}]
          /\ wire' = [t \in Sides |-> {}]
          /\ lastFrom' = [lastFrom EXCEPT ![s] = None]
          /\ restarted' = restarted \cup {s} /\ UNCHANGED <<sent, got>>
      BY <1>3 DEF Restart
    <2>2. lost' \in SUBSET Msgs
      <3>1. \A c \in captured[s] : c.msg \in Msgs
        BY DEF Inv, TypeOK
      <3> QED
        BY <1>1, <1>3, <3>1 DEF Restart, Inv, TypeOK
    <2>3. LastFromInv'
      BY <2>1 DEF Inv, TypeOK, LastFromInv, Source
    <2>4. GotInv'
      BY <2>1 DEF Inv, GotInv, Genuine, HasSent, Addressed
    <2> QED
      BY <2>1, <2>2, <2>3, <2>4, RemovalInv DEF Inv, TypeOK
  <1> QED
    BY <1>2, <1>3

(* So does a step that changes nothing. *)
LEMMA StutterInv ==
  ASSUME Inv, UNCHANGED vars
  PROVE  Inv'
  BY DEF vars, history, Inv, TypeOK, SentInv, CapturedInv, WireInv, LastFromInv, GotInv,
         Genuine, HasSent, Addressed, Source

(* The invariant the two theorems rest on: what is captured, on the session *)
(* and delivered stems from what was sent (proxy.go).                      *)
THEOREM Invariance == Spec => []Inv
  <1>1. Inv /\ [Next]_vars => Inv'
    BY SendsInv, SenderInv, ReceiverInv, FaultInv, StutterInv DEF Next, Done
  <1> QED
    BY InitInv, <1>1, PTL DEF Spec

(* Every variable keeps its type: no frame, datagram or learnt endpoint is *)
(* ever malformed (proxy.go).                                              *)
THEOREM Typing == Spec => []TypeOK
  <1>1. Inv => TypeOK
    BY DEF Inv
  <1> QED
    BY <1>1, Invariance, PTL

(* Whatever a network function receives, its peer did send, with that      *)
(* payload and from that very source; and the endpoint replies go to is    *)
(* one its owner sent from: for any endpoints, payloads, losses, failed    *)
(* deliveries and restarts (proxy.go encodeFrame, decodeFrame, deliver).   *)
THEOREM SourcesTrue == Spec => [](TrueSource /\ LearntEndpointReal)
  <1>1. Inv => TrueSource /\ LearntEndpointReal
    BY DEF Inv, GotInv, LastFromInv, Genuine, HasSent, TrueSource, LearntEndpointReal
  <1> QED
    BY <1>1, Invariance, PTL

(* As long as the control plane has used one endpoint, what a function     *)
(* gets was addressed to it by its peer (proxy.go capture).                *)
THEOREM AddressingExact == Spec => []ExactWithOneEndpoint
  <1>1. ASSUME Inv, \A d, e \in sent : {d.src, e.src} \subseteq CpEps => d.src = e.src,
               NEW g \in got
        PROVE  g \in sent
    <2>1. PICK s \in Sides : Genuine(s, g)
      BY <1>1 DEF Inv, GotInv
    <2>2. PICK d \in sent : d.src = g.src /\ d.msg = g.msg
      BY <2>1 DEF Genuine, HasSent
    <2>3. PICK t \in Sides : Addressed(t, d.src, d.dst)
      BY <1>1 DEF Inv, SentInv
    <2>4. d.dst = g.dst
      BY <1>1, <2>1, <2>2, <2>3, Constants DEF Genuine, Addressed
    <2>5. d \in Datagrams /\ g \in Datagrams
      BY <1>1, <2>1 DEF Inv, TypeOK, Genuine
    <2>6. d = g
      BY <2>2, <2>4, <2>5 DEF Datagrams
    <2> QED
      BY <2>6
  <1>2. Inv => ExactWithOneEndpoint
    BY <1>1 DEF ExactWithOneEndpoint
  <1> QED
    BY <1>2, Invariance, PTL
=============================================================================
