------------------------------ MODULE Session ------------------------------
(***************************************************************************)
(* Session supervision of one sidecar (session.go) together with the       *)
(* goroutines that share the connection holder with it: the sender and the *)
(* receiver of either datapath (main.go, proxy.go) and the stream that     *)
(* renews the SVID (delegated.go).                                         *)
(*                                                                         *)
(* A connection is a pointer: Conns is a pool of addresses, and a new      *)
(* connection gets any address nothing refers to, as the Go heap does.     *)
(* The DTLS library and the network are the environment: an open           *)
(* connection may turn silent (the peer is gone, writes still succeed and  *)
(* reads never return) or broken (reads return an error).                  *)
(***************************************************************************)
EXTENDS Naturals, FiniteSets

CONSTANTS
  Conns,          \* addresses a *dtls.Conn can have
  Nil,            \* the nil pointer
  Role,           \* "client" (dials) or "server" (accepts)
  Delegated,      \* TRUE: delegated identity; FALSE: Workload API
  ConnectErrors,  \* TRUE: connect may return an error of its own
  DeadAfter,      \* deadAfter, counted in receiver polls (livenessPoll)
  MaxRenewals     \* bound on SVID renewals

ASSUME SessionAssumption ==
  /\ Nil \notin Conns
  /\ Conns # {}
  /\ Role \in {"client", "server"}
  /\ Delegated \in BOOLEAN
  /\ ConnectErrors \in BOOLEAN
  /\ DeadAfter \in Nat
  /\ MaxRenewals \in Nat

VARIABLES
  holder,      \* connHolder.conn
  bad,         \* connHolder.bad, buffered(1): the set of its elements
  rotated,     \* credSource.rotations(), buffered(1): is a signal pending
  cert,        \* serial of the SVID the source serves now
  watch,       \* applySVID: "idle", or "signal" between its unlock and its send
  svid,        \* serial each open connection presented at its handshake
  link,        \* state of each connection; an address not in use is "closed"
  supPc,       \* superviseSession: where the supervisor is
  supConn,     \* its local old, then its local conn
  sndPc,       \* proxySender / senderLoop: where the sender is
  sndConn,     \* the connection it works on
  rcvPc,       \* proxyReceiver / receiverLoop: where the receiver is
  rcvConn,     \* the connection it works on
  unanswered,  \* nSent > sentAtLastRecv
  silence,     \* polls since lastRecv
  age,         \* polls since the session in the holder was set, or since its
               \* last record (history)
  carried,     \* the clock has run since before a session was withdrawn, and was
               \* not restarted since (history)
  blamed,      \* open connections a goroutine met a failure on (history)
  ctxDone      \* ctx.Err() # nil

idVars == <<rotated, cert, watch>>
connVars == <<svid, link, blamed>>
supVars == <<supPc, supConn>>
sndVars == <<sndPc, sndConn>>
rcvVars == <<rcvPc, rcvConn>>
clockVars == <<unanswered, silence, age, carried>>
vars == <<holder, bad, idVars, connVars, supVars, sndVars, rcvVars, clockVars, ctxDone>>

Opened == {c \in Conns : link[c] # "closed"}

(* What the program still refers to: such an address is not reused. *)
Referenced == {holder, supConn, sndConn, rcvConn} \cup bad

Offer_Unbuffered(x) == bad \cup {x}

(* A non-blocking send on the report channel, of capacity one. *)
Offer(x) == IF bad = {} THEN {x} ELSE bad

(* Time passes in units of one receiver poll, up to the last instant that  *)
(* can change a decision.                                                  *)
Later(t) == IF t > DeadAfter THEN t ELSE t + 1

Init ==
  /\ holder \in Conns /\ bad = {}
  /\ rotated = FALSE /\ cert = 0 /\ watch = "idle"
  /\ svid = [c \in Conns |-> 0]
  /\ link = [c \in Conns |-> IF c = holder THEN "up" ELSE "closed"]
  /\ blamed = {}
  /\ supPc = "select" /\ supConn = Nil
  /\ sndPc = "capture" /\ sndConn = Nil
  /\ rcvPc = "get" /\ rcvConn = Nil
  /\ unanswered = FALSE /\ silence = 0 /\ age = 0 /\ carried = FALSE
  /\ ctxDone = FALSE

-----------------------------------------------------------------------------
(* The SVID stream. applySVID installs the certificate under its lock and  *)
(* signals after releasing it; the Workload API source never signals.      *)

rotations == IF Delegated THEN "signal" ELSE "idle"

RenewSVID ==
  /\ watch = "idle" /\ cert < MaxRenewals
  /\ cert' = cert + 1
  /\ watch' = rotations
  /\ UNCHANGED <<rotated, holder, bad, connVars, supVars, sndVars, rcvVars, clockVars, ctxDone>>

SignalRotation ==
  /\ watch = "signal"
  /\ watch' = "idle" /\ rotated' = TRUE
  /\ UNCHANGED <<cert, holder, bad, connVars, supVars, sndVars, rcvVars, clockVars, ctxDone>>

certificate_Frozen == 0

(* What GetCertificate and GetClientCertificate give a handshake. *)
certificate == cert

-----------------------------------------------------------------------------
(* The supervisor. *)

SupMove(from, to) ==
  /\ supPc = from /\ supPc' = to
  /\ UNCHANGED <<cert, watch, sndVars, rcvVars, unanswered, silence, ctxDone>>

SupStep(from, to) == SupMove(from, to) /\ UNCHANGED <<age, carried>>

SupStop ==
  /\ SupStep("select", "stopped")
  /\ ctxDone
  /\ UNCHANGED <<holder, bad, rotated, connVars, supConn>>

SupRotation ==
  /\ SupStep("select", "clear")
  /\ rotated /\ rotated' = FALSE
  /\ UNCHANGED <<holder, bad, connVars, supConn>>

Stale_Never == FALSE

Stale_Inverted == holder \in bad

(* A report of a connection that is no longer the current one. *)
Stale == holder \notin bad

SupReport ==
  /\ SupStep("select", IF Stale THEN "select" ELSE "clear")
  /\ bad # {} /\ bad' = {}
  /\ UNCHANGED <<holder, rotated, connVars, supConn>>

SupClear_KeepConn ==
  /\ SupStep("clear", "close")
  /\ supConn' = holder
  /\ UNCHANGED <<holder, bad, rotated, connVars>>

SupClear ==
  /\ SupMove("clear", "close")
  /\ supConn' = holder /\ holder' = Nil
  /\ carried' = (carried \/ holder # Nil)
  /\ UNCHANGED <<bad, rotated, connVars, age>>

SupClose_Leak ==
  /\ SupStep("close", "connect")
  /\ supConn' = Nil
  /\ UNCHANGED <<holder, bad, rotated, connVars>>

SupClose ==
  /\ SupStep("close", "connect")
  /\ link' = [c \in Conns |-> IF c = supConn THEN "closed" ELSE link[c]]
  /\ svid' = [c \in Conns |-> IF c = supConn THEN 0 ELSE svid[c]]
  /\ blamed' = blamed \ {supConn}
  /\ supConn' = Nil
  /\ UNCHANGED <<holder, bad, rotated>>

(* connect returns a session whose handshake presented the SVID served at  *)
(* that moment.                                                            *)
SupConnected ==
  /\ SupStep("connect", "set")
  /\ \E c \in Conns \ Referenced :
       /\ link' = [link EXCEPT ![c] = "up"]
       /\ svid' = [svid EXCEPT ![c] = certificate]
       /\ supConn' = c
  /\ UNCHANGED <<holder, bad, rotated, blamed>>

(* Dialling is abandoned when the context ends; Accept does not watch it.  *)
SupDialCancelled ==
  /\ SupStep("connect", "stopped")
  /\ Role = "client" /\ ctxDone
  /\ UNCHANGED <<holder, bad, rotated, connVars, supConn>>

(* An address that does not resolve, or an Accept that fails. *)
SupConnectFails ==
  /\ SupStep("connect", IF ctxDone THEN "stopped" ELSE "backoff")
  /\ ConnectErrors
  /\ UNCHANGED <<holder, bad, rotated, connVars, supConn>>

SupRetry ==
  /\ SupStep("backoff", "select")
  /\ bad' = Offer(Nil)
  /\ UNCHANGED <<holder, rotated, connVars, supConn>>

SupSet_Forgotten ==
  /\ SupStep("set", "select")
  /\ supConn' = Nil
  /\ UNCHANGED <<holder, bad, rotated, connVars>>

SupSet ==
  /\ SupMove("set", "select")
  /\ holder' = supConn /\ supConn' = Nil
  /\ age' = 0
  /\ UNCHANGED <<bad, rotated, connVars, carried>>

Supervisor ==
  \/ SupStop \/ SupRotation \/ SupReport \/ SupClear \/ SupClose
  \/ SupConnected \/ SupDialCancelled \/ SupConnectFails \/ SupRetry \/ SupSet

-----------------------------------------------------------------------------
fail_Current(c) == Offer(holder)

(* fail is two steps: it compares with the current connection under the    *)
(* lock, and offers the report after releasing it. This is the second.     *)
fail(c) == Offer(c)

(* The sender. *)

SndStep(from, to) ==
  /\ sndPc = from /\ sndPc' = to
  /\ UNCHANGED <<holder, idVars, svid, link, supVars, rcvVars, silence, age, carried, ctxDone>>

SndStop ==
  /\ SndStep("capture", "stopped")
  /\ ctxDone
  /\ UNCHANGED <<bad, sndConn, unanswered, blamed>>

(* A datagram is captured. Without a session it is dropped, which leaves   *)
(* no trace in the state.                                                  *)
SndCapture ==
  /\ SndStep("capture", IF holder = Nil THEN "capture" ELSE "write")
  /\ sndConn' = holder
  /\ UNCHANGED <<bad, unanswered, blamed>>

SndWrite ==
  /\ SndStep("write", "capture")
  /\ link[sndConn] # "closed"
  /\ unanswered' = TRUE /\ sndConn' = Nil
  /\ UNCHANGED <<bad, blamed>>

(* A write fails on a closed or broken connection, and may exceed its      *)
(* deadline on any.                                                        *)
SndWriteFails ==
  /\ SndStep("write", IF sndConn = holder THEN "offer" ELSE "capture")
  /\ blamed' = blamed \cup ({sndConn} \cap Opened)
  /\ sndConn' = IF sndConn = holder THEN sndConn ELSE Nil
  /\ UNCHANGED <<bad, unanswered>>

SndFailOffer ==
  /\ SndStep("offer", "capture")
  /\ bad' = fail(sndConn) /\ sndConn' = Nil
  /\ UNCHANGED <<unanswered, blamed>>

Sender == SndStop \/ SndCapture \/ SndWrite \/ SndWriteFails \/ SndFailOffer

-----------------------------------------------------------------------------
(* The receiver. A dead UDP peer produces no error, so a one-way session   *)
(* is inferred: something was sent and nothing came back for deadAfter.    *)

RcvStep(from, to) ==
  /\ rcvPc = from /\ rcvPc' = to
  /\ UNCHANGED <<holder, idVars, svid, link, supVars, sndVars, ctxDone>>

RcvStop ==
  /\ RcvStep("get", "stopped")
  /\ ctxDone
  /\ UNCHANGED <<bad, rcvConn, clockVars, blamed>>

RcvSleep_ClockRuns ==
  /\ RcvStep("get", "get")
  /\ ~ctxDone /\ holder = Nil
  /\ carried' = FALSE
  /\ UNCHANGED <<bad, rcvConn, unanswered, silence, age, blamed>>

(* Without a session the receiver sleeps and restarts its clock. *)
RcvSleep ==
  /\ RcvStep("get", "get")
  /\ ~ctxDone /\ holder = Nil
  /\ unanswered' = FALSE /\ silence' = 0 /\ carried' = FALSE
  /\ UNCHANGED <<bad, rcvConn, age, blamed>>

RcvGet ==
  /\ RcvStep("get", "read")
  /\ ~ctxDone /\ holder # Nil
  /\ rcvConn' = holder
  /\ UNCHANGED <<bad, clockVars, blamed>>

(* A record arrives; whether it decodes and can be delivered is not this   *)
(* module's subject.                                                       *)
RcvData ==
  /\ RcvStep("read", "get")
  /\ link[rcvConn] = "up"
  /\ unanswered' = FALSE /\ silence' = 0 /\ age' = 0 /\ carried' = FALSE
  /\ rcvConn' = Nil
  /\ UNCHANGED <<bad, blamed>>

Dead_Never == FALSE

(* Sent, and nothing back for longer than deadAfter. *)
Dead == unanswered /\ Later(silence) > DeadAfter

(* The read deadline expires: silence is tolerated as long as nothing was  *)
(* sent, or not for long. Once the context is done the loop ends.          *)
RcvTimeout ==
  /\ RcvStep("read", IF ctxDone THEN "stopped" ELSE "get")
  /\ link[rcvConn] \in {"up", "silent"}
  /\ ctxDone \/ ~Dead
  /\ silence' = Later(silence) /\ age' = Later(age)
  /\ rcvConn' = Nil
  /\ UNCHANGED <<bad, unanswered, carried, blamed>>

(* The session is judged lost. fail is a no-op when the connection has     *)
(* been replaced; the clock restarts once it has returned.                 *)
RcvDead ==
  /\ RcvStep("read", IF rcvConn = holder THEN "offerDead" ELSE "get")
  /\ link[rcvConn] \in {"up", "silent"}
  /\ ~ctxDone /\ Dead
  /\ age' = Later(age)
  /\ blamed' = blamed \cup {rcvConn}
  /\ IF rcvConn = holder
       THEN silence' = Later(silence) /\ UNCHANGED <<rcvConn, unanswered, carried>>
       ELSE silence' = 0 /\ unanswered' = FALSE /\ rcvConn' = Nil /\ carried' = FALSE
  /\ UNCHANGED bad

(* Any other read error; up to one poll has passed before it, and the      *)
(* clock is not restarted.                                                 *)
RcvError ==
  LET report == ~ctxDone /\ rcvConn = holder IN
  /\ RcvStep("read", IF ctxDone THEN "stopped" ELSE IF report THEN "offer" ELSE "get")
  /\ link[rcvConn] \in {"broken", "closed"}
  /\ \/ UNCHANGED <<silence, age>>
     \/ silence' = Later(silence) /\ age' = Later(age)
  /\ rcvConn' = IF report THEN rcvConn ELSE Nil
  /\ blamed' = blamed \cup ({rcvConn} \cap Opened)
  /\ UNCHANGED <<bad, unanswered, carried>>

RcvFailOffer ==
  /\ \/ RcvStep("offer", "get") /\ UNCHANGED <<silence, unanswered, carried>>
     \/ RcvStep("offerDead", "get") /\ silence' = 0 /\ unanswered' = FALSE /\ carried' = FALSE
  /\ bad' = fail(rcvConn) /\ rcvConn' = Nil
  /\ UNCHANGED <<age, blamed>>

Receiver == RcvStop \/ RcvSleep \/ RcvGet \/ RcvData \/ RcvTimeout
            \/ RcvDead \/ RcvError \/ RcvFailOffer

-----------------------------------------------------------------------------
(* The environment. *)

(* The peer goes away without a word, or the session is closed under us.   *)
LinkFails(c) ==
  /\ link[c] \in {"up", "silent"}
  /\ \E l \in {"silent", "broken"} : link' = [link EXCEPT ![c] = l]
  /\ UNCHANGED <<holder, bad, idVars, svid, blamed, supVars, sndVars, rcvVars, clockVars, ctxDone>>

(* SIGINT or SIGTERM. *)
Cancel ==
  /\ ~ctxDone /\ ctxDone' = TRUE
  /\ UNCHANGED <<holder, bad, idVars, connVars, supVars, sndVars, rcvVars, clockVars>>

(* main returns once the context is done, wherever the goroutines are. *)
Exit == ctxDone /\ UNCHANGED vars

Next ==
  \/ RenewSVID
  \/ SignalRotation
  \/ Supervisor
  \/ Sender
  \/ Receiver
  \/ \E c \in Conns : LinkFails(c)
  \/ Cancel
  \/ Exit

Spec == Init /\ [][Next]_vars

(* Goroutines are scheduled; the network function keeps sending; a peer    *)
(* that can be reached completes a handshake in the end.                   *)
Fairness ==
  /\ WF_vars(SignalRotation)
  /\ WF_vars(Supervisor)
  /\ SF_vars(SupConnected)
  /\ WF_vars(Sender)
  /\ WF_vars(Receiver)

FairSpec == Spec /\ Fairness

-----------------------------------------------------------------------------
(* Every variable keeps its type; in particular the report channel never   *)
(* holds more than the one element it is made for (session.go buffered(1)). *)
TypeOK ==
  /\ {holder, supConn, sndConn, rcvConn} \cup bad \subseteq Conns \cup {Nil}
  /\ \A c, d \in bad : c = d
  /\ rotated \in BOOLEAN /\ cert \in 0..MaxRenewals /\ watch \in {"idle", "signal"}
  /\ svid \in [Conns -> 0..MaxRenewals]
  /\ link \in [Conns -> {"up", "silent", "broken", "closed"}]
  /\ blamed \in SUBSET Conns
  /\ supPc \in {"select", "clear", "close", "connect", "backoff", "set", "stopped"}
  /\ sndPc \in {"capture", "write", "offer", "stopped"}
  /\ rcvPc \in {"get", "read", "offer", "offerDead", "stopped"}
  /\ unanswered \in BOOLEAN
  /\ silence \in 0..(DeadAfter + 1) /\ age \in 0..(DeadAfter + 1) /\ carried \in BOOLEAN
  /\ ctxDone \in BOOLEAN

(* What the sender and the receiver are written against: whatever the      *)
(* reports, retries, rotations and reused addresses do, sessions are       *)
(* opened, offered, withdrawn and closed one at a time, and given up only  *)
(* for a rotation or a failure of their own (session.go connHolder,        *)
(* superviseSession).                                                      *)
Holder == INSTANCE ConnHolder
            WITH Sessions <- Conns, None <- Nil, offered <- holder, open <- Opened,
                 failed <- blamed, signal <- rotated, replacing <- (supPc = "clear")

HolderPromise == Holder!CHSpec

(* "Keep exactly one live DTLS session": however failures, rotations and   *)
(* retries interleave, no two sessions are open at once (session.go).      *)
OneOpenSession == \A c, d \in Opened : c = d

(* h.get() never hands the sender or the receiver a session the supervisor *)
(* has already closed: the holder is cleared first (session.go).           *)
HolderOpen == holder # Nil => holder \in Opened

(* No rotation is lost: while the supervisor waits, a current session that *)
(* presented a replaced SVID has its rotation signal pending or about to   *)
(* be sent (delegated.go applySVID, session.go superviseSession).          *)
NoLostRotation ==
  /\ Delegated
  /\ supPc = "select"
  /\ holder # Nil
  /\ svid[holder] # cert
  => rotated \/ watch = "signal"

(* Every open session is in the hands of exactly one of the holder and the *)
(* supervisor, as the supervisor's position says; the goroutines hold a    *)
(* connection whenever they work on one. The strengthening that makes      *)
(* OneOpenSession and HolderOpen inductive (session.go).                   *)
Ownership ==
  /\ holder # Nil => link[holder] # "closed"
  /\ \A c \in Conns : link[c] # "closed" => c \in {holder, supConn}
  /\ supPc \notin {"close", "set"} => supConn = Nil
  /\ supPc \in {"close", "connect", "backoff", "set"} => holder = Nil
  /\ supPc = "set" => supConn # Nil /\ link[supConn] # "closed"
  /\ sndPc \in {"write", "offer"} => sndConn # Nil
  /\ rcvPc \in {"read", "offer", "offerDead"} => rcvConn # Nil

(* Every report, in the channel or about to be offered, names a session a  *)
(* goroutine met a failure on, or one that is closed by now: no report     *)
(* survives into a session that is later created (session.go fail).        *)
ReportsJustified ==
  /\ \A c \in bad : c \in Opened => c \in blamed
  /\ sndPc = "offer" /\ sndConn \in Opened => sndConn \in blamed
  /\ rcvPc \in {"offer", "offerDead"} /\ rcvConn \in Opened => rcvConn \in blamed

(* A session is torn down for a report only if a goroutine really met a    *)
(* failure on it; a late report about a replaced session never costs the   *)
(* new one (session.go fail and superviseSession).                         *)
TornDownForCause ==
  [][supPc = "select" /\ supPc' = "clear" /\ rotated' = rotated
       => holder \in blamed \cup {Nil}]_vars

(* A session that is down comes back (session.go superviseSession).        *)
Recovers == holder = Nil ~> (holder # Nil \/ ctxDone)

(* A session whose reads fail is replaced (proxyReceiver, receiverLoop).   *)
BrokenReplaced ==
  (holder # Nil /\ link[holder] = "broken")
     ~> (holder = Nil \/ link[holder] # "broken" \/ ctxDone)

(* A session whose peer has gone silent is replaced although no read and   *)
(* no write ever fails, as long as the network function keeps sending      *)
(* (proxyReceiver, receiverLoop).                                          *)
SilentReplaced ==
  (holder # Nil /\ link[holder] = "silent")
     ~> (holder = Nil \/ link[holder] # "silent" \/ ctxDone)

(* A renewed SVID gets onto the wire: a session on a replaced SVID gives   *)
(* way to one on the current SVID (design.md Rotation, main.go step 5).    *)
RotationTakesEffect ==
  (holder # Nil /\ svid[holder] # cert)
     ~> ((holder # Nil /\ svid[holder] = cert) \/ ctxDone)

(* deadAfter is "how long a one-way session is tolerated" (proxy.go). A    *)
(* session is judged lost after less than that of its own time, counted    *)
(* from when it was set or from its last record, only if the receive clock *)
(* was carried over from the session before: the receiver was in a read or *)
(* on its way to one through the whole replacement, and so never saw the   *)
(* gap that restarts the clock (proxyReceiver, receiverLoop).              *)
FreshSessionTolerated ==
  [][rcvPc = "read" /\ rcvPc' = "offerDead" => age' > DeadAfter \/ carried]_vars

=============================================================================
