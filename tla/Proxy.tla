------------------------------- MODULE Proxy -------------------------------
(***************************************************************************)
(* The socket datapath (proxy.go) of the two sidecars: capture of what     *)
(* REDIRECT hands over, the frame on the DTLS session, and transparent     *)
(* delivery to the local network function.                                 *)
(*                                                                         *)
(* REDIRECT rewrites the destination, so the socket sees a datagram's      *)
(* source and payload only; where it was going is decided by capture.      *)
(* The session carries frames, byte for byte, in any order and may lose    *)
(* them.                                                                   *)
(***************************************************************************)
EXTENDS Frame

CONSTANTS
  CpEps,     \* N4 endpoints the control-plane function sends from
  Up,        \* the user-plane function's N4 endpoint
  None,      \* the zero netip.AddrPort
  CpPeerN4,  \* -peer-n4 of the control-plane sidecar
  Msgs,      \* payloads, sequences of bytes; each is sent once
  Faults     \* TRUE: frames get lost, deliveries fail, sidecars restart

ASSUME ProxyAssumption ==
  /\ CpEps \subseteq AddrPort /\ Up \in AddrPort \ CpEps
  /\ None \notin AddrPort
  /\ Msgs \subseteq Seq(Byte)
  /\ CpPeerN4 \in {Up, None}
  /\ Faults \in BOOLEAN

Sides == {"cp", "up"}
Other(s) == IF s = "cp" THEN "up" ELSE "cp"
Endpoints == CpEps \cup {Up}
Datagrams == [src : Endpoints, dst : Endpoints, msg : Msgs]

VARIABLES
  sent,      \* datagrams the functions have sent, as they addressed them
  captured,  \* per side: what waits in the sidecar's socket
  wire,      \* per side: frames it has put on the session
  lastFrom,  \* per side: proxy.lastFrom
  got,       \* datagrams the functions have received
  restarted, \* sides that have restarted (history)
  lost       \* payloads a fault has taken (history)

history == <<restarted, lost>>
vars == <<sent, captured, wire, lastFrom, got, history>>

Init ==
  /\ sent = {}
  /\ captured = [s \in Sides |-> {}]
  /\ wire = [s \in Sides |-> {}]
  /\ lastFrom = [s \in Sides |-> None]
  /\ got = {}
  /\ restarted = {} /\ lost = {}

-----------------------------------------------------------------------------
(* The network functions: a request to the user plane, and an answer to    *)
(* the endpoint a received datagram came from.                             *)

Redirected(s, d) ==
  /\ \A x \in sent : x.msg # d.msg
  /\ sent' = sent \cup {d}
  /\ captured' = [captured EXCEPT ![s] = @ \cup {[src |-> d.src, msg |-> d.msg]}]
  /\ UNCHANGED <<wire, lastFrom, got, history>>

CPSends(m, e) == Redirected("cp", [src |-> e, dst |-> Up, msg |-> m])

UPAnswers(m, g) ==
  /\ g.dst = Up
  /\ Redirected("up", [src |-> Up, dst |-> g.src, msg |-> m])

-----------------------------------------------------------------------------
peerN4(s) == IF s = "cp" THEN CpPeerN4 ELSE None

capture_Source(s, d) == d.src

(* Where capture says a datagram was going. *)
capture(s, d) == IF peerN4(s) # None THEN peerN4(s) ELSE lastFrom[s]

(* proxySender: without an endpoint, without a session or after a failed   *)
(* write the datagram is dropped.                                          *)
proxySender(s) ==
  \E d \in captured[s] :
    /\ captured' = [captured EXCEPT ![s] = @ \ {d}]
    /\ \/ /\ capture(s, d) # None
          /\ wire' = [wire EXCEPT ![s] = @ \cup {encodeFrame(d.src, capture(s, d), d.msg)}]
          /\ lost' = lost
       \/ /\ capture(s, d) = None
          /\ wire' = wire
          /\ lost' = IF s \in restarted THEN lost \cup {d.msg} ELSE lost
       \/ /\ capture(s, d) # None /\ Faults
          /\ wire' = wire
          /\ lost' = lost \cup {d.msg}
    /\ UNCHANGED <<sent, lastFrom, got, restarted>>

(* deliver notes the source before it does anything that can fail.         *)
deliver(s, f) ==
  /\ lastFrom' = [lastFrom EXCEPT ![s] = f.src]
  /\ \/ got' = got \cup {f} /\ lost' = lost
     \/ Faults /\ got' = got /\ lost' = lost \cup {f.msg}

(* A frame that does not decode is skipped. *)
proxyReceiver(s) ==
  \E f \in wire[Other(s)] :
    /\ wire' = [wire EXCEPT ![Other(s)] = @ \ {f}]
    /\ IF short(f) THEN UNCHANGED <<lastFrom, got, lost>> ELSE deliver(s, decodeFrame(f))
    /\ UNCHANGED <<sent, captured, restarted>>

(* A frame is lost on the way. *)
Lose(s) ==
  /\ Faults
  /\ \E f \in wire[s] : /\ wire' = [wire EXCEPT ![s] = @ \ {f}]
                        /\ lost' = lost \cup {decodeFrame(f).msg}
  /\ UNCHANGED <<sent, captured, lastFrom, got, restarted>>

(* A sidecar restarts: what waited in its socket, what was on its session  *)
(* and the endpoint it had learnt are gone.                                *)
Restart(s) ==
  /\ Faults
  /\ captured' = [captured EXCEPT ![s] = {}]
  /\ wire' = [t \in Sides |-> {}]
  /\ lastFrom' = [lastFrom EXCEPT ![s] = None]
  /\ restarted' = restarted \cup {s}
  /\ lost' = lost \cup {c.msg : c \in captured[s]}
                  \cup {decodeFrame(f).msg : f \in UNION {wire[t] : t \in Sides}}
  /\ UNCHANGED <<sent, got>>

Done == (\A s \in Sides : captured[s] = {} /\ wire[s] = {}) /\ UNCHANGED vars

Next ==
  \/ \E m \in Msgs, e \in CpEps : CPSends(m, e)
  \/ \E m \in Msgs, g \in got : UPAnswers(m, g)
  \/ \E s \in Sides : proxySender(s) \/ proxyReceiver(s) \/ Lose(s) \/ Restart(s)
  \/ Done

Spec == Init /\ [][Next]_vars

(* Both loops of both sidecars run. *)
FairSpec == Spec /\ \A s \in Sides : WF_vars(proxySender(s)) /\ WF_vars(proxyReceiver(s))

-----------------------------------------------------------------------------
(* Every variable keeps its type; what is on the session decodes to a      *)
(* datagram between known endpoints (proxy.go).                            *)
TypeOK ==
  /\ sent \in SUBSET Datagrams
  /\ captured \in [Sides -> SUBSET [src : Endpoints, msg : Msgs]]
  /\ wire \in [Sides -> SUBSET Seq(Byte)]
  /\ \A s \in Sides : \A f \in wire[s] : ~short(f) /\ decodeFrame(f) \in Datagrams
  /\ lastFrom \in [Sides -> Endpoints \cup {None}]
  /\ got \in SUBSET Datagrams
  /\ restarted \in SUBSET Sides /\ lost \in SUBSET Msgs

(* "the network function receives the datagram from its real peer. The     *)
(* PFCP payload is copied verbatim" (proxy.go): whatever a function gets,  *)
(* its peer did send, from that very source.                               *)
TrueSource == \A g \in got : \E d \in sent : d.src = g.src /\ d.msg = g.msg

(* The endpoint replies go to is one its owner really sent from, also      *)
(* after deliveries that failed and after restarts (proxy.go deliver).     *)
LearntEndpointReal ==
  \A s \in Sides : lastFrom[s] # None => \E d \in sent : d.src = lastFrom[s]

(* The user plane's "destination is whoever the CP last sent from", which  *)
(* is "exact rather than a guess" (proxy.go) as long as the control plane  *)
(* has used one endpoint: what a function gets was addressed to it.        *)
ExactWithOneEndpoint ==
  (\A d, e \in sent : {d.src, e.src} \subseteq CpEps => d.src = e.src)
    => got \subseteq sent

(* What a function sends reaches its peer, in either direction, unless a   *)
(* fault took it or a restart the endpoint (proxy.go proxySender,          *)
(* proxyReceiver).                                                         *)
Delivered == \A m \in Msgs :
  (\E d \in sent : d.msg = m) ~> (m \in lost \/ \E g \in got : g.msg = m)
=============================================================================
