# A TLA+ model of the N4 DTLS sidecar

The sidecar (`src/cmd/n4dtls`) sits beside a 5G network function, takes its
PFCP (N4) datagrams away before they leave the host, carries them over a DTLS
session authenticated by SPIFFE identities, and hands them to the peer function
at the other end. This directory holds TLA+ models of its parts and of the two
sidecars together, the TLC configurations that check them on small instances,
and proofs, checked by TLAPS, of their safety properties for every instance.

## 1. The system

| part | code | module | state | steps |
|---|---|---|---|---|
| session supervisor, sender, receiver | `session.go`, loops of `main.go`, `proxy.go` | `Session` | current connection, one-slot report channel, one-slot rotation signal, receive clock | take a rotation or a report, clear, close, connect, set, retry; capture, write, read, infer a dead peer, report |
| two sidecars and their session | `main.go` `connect`, `session.go`, `proxy.go` | `Tunnel` | who holds a session, whether the two are ends of one, who is told of its end | handshake, replace, hear, give up, exit, die, restart |
| delegated identity source | `delegated.go`, `identity.go` | `DelegatedSource` | SVID, bundle per trust domain, "have" latches, rotation signal | subscribe, receive, apply, announce, stream end, start-up wait |
| capture datapath | `nfq.go`, `senderLoop` | `Nfqueue` | kernel queue, channel, buffer pool, verdict mutex, write deadline | C loop with Go callback, sender, verdicts, start, stop, crash |
| socket datapath | `proxy.go` | `Proxy`, `Frame` | proxy socket, `lastFrom`, frames | capture, encode, send, decode, deliver, restart |
| interception | `proxy.go` | `Interception` | iptables rules and conntrack entries of both hosts | install, flush, remove, die, restart, deliver |
| process | `main.go`, `tun.go` | `Lifecycle` | next step of `main`, deferred calls, what is held, rules | take, install, serve, replace the session, return, release, die, signal |

How they interact: `main` loads the identity, connects, starts interception and
then four kinds of goroutines. The identity source signals rotations to the
supervisor. Sender and receiver take the connection from the holder and report
a broken one. The supervisor clears the holder, closes the connection and
connects again. The two sidecars meet through the DTLS session; their hosts
also meet through whatever plaintext still passes between them.

What is hard here: reports that arrive after the connection they are about was
replaced; one-slot channels that drop what does not fit; a certificate visible
before its rotation is signalled; a peer that disappears without an error, and
two sidecars that each wait for the other; verdicts given by another thread
than the one that reads packets; pooled buffers; conntrack, which remembers
decisions older than the rules; a process that dies and starts again on top of
its own leftovers. `PROJECT.json` lists each hazard at its line.

## 2. Modules

**`Session`** has one action per step between two points where another goroutine
can observe the difference: a lock, a channel operation, a call into the DTLS
connection. A connection is an address out of a pool `Conns`; a new connection
takes any address nothing refers to, as the garbage-collected heap does, so the
number of sessions is not bounded. `link` says how a connection behaves: `up`,
`silent` (peer gone, no error), `broken` (reads fail) or `closed`. Time is
counted in receiver polls and capped just past `DeadAfter`. `fail` is two steps,
because it compares under the lock and sends after it. `age`, `carried` and
`blamed` are history variables: the session's own silence, whether the receive
clock is older than the session, and which connections a failure was met on. Both datapaths' loops have the same shape as far as the
session is concerned: the actions are mapped to `proxySender` and
`proxyReceiver`, `Sender` and `Receiver` to `senderLoop` and `receiverLoop`.
`senderLoop` never looks at the context, so it does not take `SndStop`.

**`ConnHolder`** is the abstract specification of session supervision, as its
users see it: one session is open at a time, offered only while open, withdrawn
before it is closed, and given up only for a rotation or a failure met on that
very session. `Session` implements it, with `holder` as what is offered and the
report channel, the goroutines' positions and the clock hidden.

**`Tunnel`** composes two sides, each reduced to what `Session` shows of it: at
most one session, given up on a read error, a rotation or an inferred death,
and replaced by `connect`. A handshake needs both sides in `connect`, because
`Accept` is called only by a server without a session. A side that closes its
session sends a `close_notify` (`told`), which may be lost; a side that dies, or
exits with a session that is not its first one, sends none (`main.go:113`). One
tick is one heartbeat interval. A function in `heartbeats` sends a request every
tick, the other one in the ticks it has one for; an answer follows within the
tick. `lossy`, `carried` and `excused` are history.

**`CredSource`** is the abstract specification of a rotating credential source:
after the first SVID, every change of the SVID served is followed by one signal,
which may merge with a pending one. **`DelegatedSource`** models the two
streams, `pick`, `applySVID` (cut at its unlock), `applyBundles` per trust
domain, `run` with its timeout, and the check in `loadIdentity`; it implements
`CredSource`. `Session` contains a source reduced to that promise: its
`RenewSVID` and `SignalRotation` are the abstract specification's two steps, so
what is assumed there is what is shown here.
`skipped` and `damaged` (history) say what did not parse in the last response.

**`N4Channel`** is the abstract specification of a capturing datapath: a message
that was captured is carried or dropped, once, and never let go. **`Nfqueue`**
implements it. It models the kernel queue, the C loop with the callback inside
it, the pool, the channel, `senderLoop` with its coarse write deadline, the
mutex, `nfqStop` and the end of the process. A packet has a fate; a buffer is an
address; `sync.Pool` may hand out any pooled buffer or a new one. The length of
the kernel's queue, `klen`, is chosen at the start. A process that dies of a nil
buffer while it runs has `crashed`, with the queue still bound; after `nfqStop`
it has `aborted`, and there is no queue left to bind.

**`Frame`** has `encodeFrame` and `decodeFrame` on sequences of bytes, with the
big-endian ports and the length check. **`Proxy`** uses it for both sidecars'
socket datapath and both network functions. REDIRECT hides a datagram's
destination, so `captured` has none and `capture` supplies one. Frames may be
lost or arrive in any order, deliveries may fail, sidecars may restart; `lost`
and `restarted` remember what faults took.

**`Interception`** has the rules of socket mode on both hosts and conntrack. nat
rules decide for the first packet of a flow; the entry then repeats the decision
in both directions. A plaintext datagram makes an entry on both hosts; one a
sidecar delivers makes one too unless the NOTRACK rule exempts it.
`flushConntrack` names the PFCP port only, and may fail, which the code answers
with a warning. `removeRedirectRules` discards the error of a removal, so a rule
may stay. `faults` counts deaths and failed removals; `guarded` and `exposed`
are history.

**`Lifecycle`** is `main` of one sidecar in both modes and both roles: the calls
it makes in order, the clean-up each of them defers, rules that are installed
and removed one at a time, a removal that fails (`failed`), the supervisor that
withdraws and replaces the session (`replacing`), a signal, deaths at every
point and restarts. `Outcome` says what then happens to a PFCP datagram, by the
rule that matches it, whether the callback can read it and what conntrack
remembers of its flow: captured, dropped by a sidecar without a session, lost
where nobody reads, or in the clear. Every datagram is considered in every
state; which entries there can be, and `-redirect-peer`, are the subject of
`Interception`.

The `*Proofs` modules hold the theorems about the module they are named after.
The `MC*` modules instantiate the others; `MCSession` adds the symmetry of
addresses, used where only safety is checked.

### What is external

The kernel (NFQUEUE, netfilter, conntrack), the SPIRE agent, the DTLS library
and the network functions are modelled from how the code uses them. `dtls.Dial`
and `Accept` are taken to return an established session, as `connect`'s retry
loop and log line assume; a handshake done later, at the first read or write,
would present the same or a newer SVID.

## 3. Runs

| run | question | result |
|---|---|---|
| `session_safety` | one session, no rotation lost, no teardown without cause, or before its time on the session's own clock; implements `ConnHolder` | holds |
| `session_liveness` | does a lost, broken or silent session come back? does a renewed SVID reach the wire? | holds with the delegated source, when `connect` does not fail by itself |
| `session_retry` | does a failed `connect` retry? | **violated** |
| `session_workload` | does a renewed SVID reach the wire with the Workload API? | **violated** |
| `tunnel` | who is left with a dead session, is a healthy one kept, do the two sidecars find each other again? | holds |
| `source` | usable identity at start, the wanted identity, renewals and CA rolls served, implements `CredSource` | holds |
| `nfqueue` | buffers, verdicts, write deadlines; implements `N4Channel`; can the channel overflow? | holds; overflow only behind a kernel queue longer than the channel |
| `nfqueue_handle` | does the mutex keep verdicts out of `nfq_handle_packet`? | **violated** |
| `proxy` | true sources, exact addressing with one endpoint, delivery | holds |
| `interception` | where can plaintext leave once rules and flush are done? does an exit give the function its network back? | only where a flush failed or did not reach, or the peer's plaintext made an entry; yes, and for good, once the old entry is gone |
| `interception_race` | no plaintext while serving | **violated** while the peer has yet to install its rules |
| `lifecycle` | when is PFCP dropped or lost, when does it leave in the clear, what does an exit leave, does a signal end the process? | as the properties say |

Each violated run states what a comment or document of the repository says; the
`findings` of `PROJECT.json` quote it and say what the code does.

`Ownership` and `ReportsJustified` are checked as well as used in the proofs:
they say who may hold an open connection and which reports may be in flight.
Every module has a type invariant `TypeOK`, proved for all of them. `Session` and
`Nfqueue` are also checked for it, because there it bounds the channels.

### Bounds

- `Session`: the holder or supervisor, the sender, the receiver and the report
  channel each refer to at most one address at a time, so with four `Conns`
  every combination occurs. `session_liveness` has two, and a connect may have
  to wait until a goroutine lets go of a closed connection. `MaxRenewals` 2
  gives a renewal during the handshake another one caused (1 in
  `session_liveness`); `DeadAfter` 1 separates "too early" from "late enough".
- `Tunnel`: `DeadAfter` 2, the smallest value that exceeds one heartbeat
  interval and the delay of an answer. `MaxFaults` 4 lets one side restart
  while the other is told, loses the alert, and rotates; faults are bounded as
  a whole, so any mix of four occurs. Which functions send heartbeats is chosen
  at the start; what the others send, and when, has no bound.
- `DelegatedSource`: two SVIDs of the wanted identity and one of the delegate's
  own, two bundles of the peer's trust domain and one of the own
  (`MCMaxIssues`, `MCMaxRolls`), two responses in flight on each stream
  (`MaxInbox`): one is stale while the other is new.
- `Nfqueue`: two ordinary packets, a large and an unreadable one against a
  channel of one, which overflows with a packet in the sender. `KernelLens` 1
  and 2: as long as the channel (as 1024 is shorter than 2048), and longer. Two
  buffers: the other two packets use none. `Budget` 2 separates a deadline that
  has to be moved from one that need not be.
- `Proxy`: four payloads, the empty one among them, each sent once; endpoints on
  the PFCP port and on an ephemeral one, so both bytes of a port matter.
- `Interception`: two faults of each sidecar (`MaxFaults`), deaths or failed
  removals, so a restart on top of leftovers of a restart. `interception_race`
  has none and needs none. Flows do not influence each other, so one is enough; it has the
  PFCP port or not.
- `Lifecycle`: two deaths (`MaxDeaths`) and two failed removals of each rule
  (`MaxFailures`), for the same reason.

Two variables have no bound and need none: clocks stop at the last instant that
can change a decision, and counters such as `nSent` are reduced to the
comparison the code makes.

### Fairness

Goroutines and the C thread are scheduled: weak fairness of each loop. A peer
that can be reached completes a handshake in the end: strong fairness of
`SupConnected` in `Session`, weak fairness of `Handshake` in `Tunnel`, where the
peer is part of the model. `Session`'s sender keeps getting datagrams, as PFCP
heartbeats provide; in `Tunnel` that is a condition of `Reunited` and not of
`ReunitedIfTold`. Go's mutex hands over to a starving waiter: strong fairness of
the two lock steps. A write is not assumed to return by itself: only time
passes, and a write whose deadline has passed returns. A process that is
stopping or has crashed ends. A stream to the agent that is reopened for ever
delivers in the end: strong fairness of the subscriptions, `RecvSVID` and
`RecvBundles`. In `Lifecycle` the calls of `main` return, except for `connect`,
which may wait for ever for a peer.

## 4. What the models show beyond the runs

These follow from conditions the passing properties carry; dropping the
condition, or changing the constant, gives the counterexample.

- `FreshSessionTolerated` measures a session by its own silence, from when it was
  set or from its last record, and excepts exactly one case: a clock carried over
  from the session before. A receiver that is in a read while the supervisor
  replaces the session never sees that there was none, does not restart
  `lastRecv`, and judges the new session by the silence of the old
  (`proxy.go:337`); what was sent on the old one then counts as unanswered. For
  the same reason `HealthyKept` excepts a clock that was carried over.
- `Reunited` needs heartbeats of both functions. If only one side sends, the
  other may keep a dead session for ever, because it never has anything
  unanswered (`proxy.go:337`). It also needs `DeadAfter` of at least two
  intervals: with 1 the two sides can give up in turn for ever, which is what the
  comment at `proxy.go:63` warns of.
- `HealthyKept` needs heartbeats of one function, and `ReunitedIfTold` without
  them only says that the two come together again and again. A side that gave
  the last answer of an exchange has sent something since it last heard
  something; a pause longer than `deadAfter` then ends its session, although
  nothing was sent during the pause, and so does the first request after a pause
  when a poll ends before its answer arrives (`proxy.go:337`). The comment above
  that line says "Silence is normal between PFCP messages". The cost is a
  handshake, and PFCP heartbeats less than `deadAfter` apart avoid it.
- `AloneOnlyIfExcused` lists the exit of a peer that re-established its session
  among the excuses: only the first connection is closed at exit
  (`main.go:113`).
- `StopsOnSignal` excepts a server that waits for its first peer: `Accept` does
  not watch the context (`main.go:319`).
- `ClearOnlyPastGuard`: a capture-mode sidecar that dies leaves its rules, and
  `--queue-bypass` lets PFCP pass until it is back (`main.go:356`); a packet the
  callback cannot read is accepted (`nfq.go:125`). In socket mode the rules a
  death leaves block N4 instead (`NeverNowhere`), and only a direct conntrack
  entry passes them.
- `NeverNowhere` excepts the time in which the supervisor replaces the session:
  the rules stay, and PFCP is dropped (`main.go:219`, `proxy.go:295`). A server
  is in `Accept` meanwhile, so this lasts as long as the peer is away.
- `ExactWithOneEndpoint` needs its condition: with two control-plane endpoints an
  answer goes to the one delivered last (`proxy.go:125`).
- `Delivered` needs `CpPeerN4 = Up`. Without `-peer-n4` the control-plane sidecar
  drops every request (`proxy.go:127`). `deploy/k8s/sidecar/smf-patch.yaml` and
  `deploy/n4dtls-deploy.sh` pass neither `-peer-n4` nor `-mode`, whose default is
  `socket`.
- `LeaksOnlyWhereExposed` counts as exposed a flow without the PFCP port whose
  entry is older than the rules: the flush names that port, so the entry bypasses
  the `-redirect-peer` rule (`proxy.go:226`).
- `LeftoversCounted` is tight: a death and a restart leave a second copy of the
  rules, a clean exit removes one, and a removal that fails is not retried or
  reported (`proxy.go:248`, `main.go:375`).
- `StaysRestored` starts where the function sends directly again. Until then a
  redirected conntrack entry outlives the rules after a clean exit
  (`proxy.go:246`), and each PFCP heartbeat refreshes it.
- The comment on the queue handle (`nfq.go:143`) is about verdicts and the
  receive loop. `nfqStop` does not take the mutex either (`nfq.go:160`) and may
  overlap a verdict of the sender; no document says that it may not, so no run
  asserts it. The model takes the overlap, and `HeldAccountedFor` and
  `FailsClosed` hold through it.
- `UnverifiableOnlyIfDamaged`: a push in which one trust domain does not parse
  takes that domain's bundle away (`delegated.go:222`, `:234`), until the next.
- `FailsClosed` leaves out packets without a readable payload, which are accepted
  (`nfq.go:125`). A packet captured while the session is being replaced is
  dropped at once (`main.go:219`); the comment at `session.go:17` says it waits.
- `NoBackpressure` needs its condition: behind a kernel queue longer than the
  channel, a large packet that meets a full channel puts a nil buffer into the
  pool (`nfq.go:121`), and the next ordinary packet ends the process.

## 5. Proofs

Every theorem holds for all values of the constants its module's `ASSUME`
allows, in particular for any bound on deaths, faults, renewals and queues, and
uses no other assumption. An invariant is proved by showing that a strengthening
of it is inductive; each conjunct has a lemma or a step per action.

| module | theorems | strengthening, and why it is needed |
|---|---|---|
| `SessionProofs` | `Typing`, `SingleSession`, `RotationKept`, `SupervisorOwns`, `ReportsTrue`, `StaleReportsHarmless`, `Tolerated`, `HolderImplemented` | `Ownership` ties open connections to the supervisor's position: between clear and set the holder is empty and the only open connection is the supervisor's. `ReportsJustified` covers reports about to be offered; it needs `Ownership`, because a new connection must not reuse an address a report names. `RotationInv`: without a pending or imminent signal, the session in the holder or about to be set carries the current SVID. `ClockInv`: a clock that was not carried over does not run ahead of the session's own silence, and stands still while there is no session. `BlameInv`: only an open session is blamed, so that a closed one takes its blame with it |
| `TunnelProofs` | `AloneExcused`, `HealthySessionsKept` | `IdleInv`: a receiver without a session has a fresh clock or a carried one; `DueInv`: who owes an answer has just heard something; `TimelyInv`: on a joined, lossless session with heartbeats, a side whose clock is not carried over heard something in this tick, or a request or answer that will make it hear is due in it |
| `DelegatedProofs` | `IdentityUsable`, `WantedPresented`, `VerifiableUnlessDamaged`, `RotationsSignalled` | `SvidInv`, `BundleInv`, `RunInv`: the latches imply what they announce, and `run` passes a latch only when it is closed |
| `NfqueueProofs` | `Typing`, `ChannelImplemented`, `Serialised`, `VerdictsAccountedFor`, `ChannelNeverFull`, `PayloadsIntact`, `WritesBudgeted` | `Places`/`Captured` tie a packet's place to its fate; `MutexInv` says who holds the mutex where; `Distinct` and `HeldInv` that places are disjoint and cover what is held; `RoomInv` counts the packets the kernel waits for: those in its queue, with the loop, in the channel and with the sender are no more than `klen`, so the loop that holds one finds room behind a queue no longer than the channel; `BufInv` that buffers in use and in the pool are apart; `WriteInv` that a deadline is never further away than the budget; `ControlInv` that the channel keeps its depth |
| `FrameProofs` | `RoundTrip`, `DecodeExact` | none: arithmetic of the two port bytes, then equality of sequences, in both directions: encoding then decoding, and decoding any bytes that are not short then encoding |
| `ProxyProofs` | `Typing`, `SourcesTrue`, `AddressingExact` | whatever is captured, on the session, learnt or received is genuine: its source sent that payload, and its destination is one the control plane's endpoints allow; uses `RoundTrip` |
| `InterceptionProofs` | `LeaksExplained`, `RestoredForGood` | `RulesInv`: a guarded host has every rule of its set, through deaths and partial reinstallations; `EntryInv`: a direct entry on it is an exposed one; `LeftoverInv` counts copies of a rule against faults, by how far `main` has got, so that a host without faults has no rule left when `main` is down |
| `LifecycleProofs` | `NothingTakenForNothing`, `GuardKept`, `LeftoversExplained` | `StackInv`: the deferred calls are those of the steps behind `pc`, or what is left of them; `RulesInv` counts copies of each rule against deaths and failed removals plus the process's own; `GuardInv`: from serving on, each port rule is there |

`ChannelImplemented`, `HolderImplemented` and `RotationsSignalled` are proofs of
refinement: initial states map to initial states, and every step to a step of
the abstract specification or to none.

Every safety property the passing runs check is the subject of a theorem. Only
model-checked: everything under fairness (`Recovers`, `BrokenReplaced`,
`SilentReplaced`, `RotationTakesEffect`, `Reunited`, `ReunitedIfTold`,
`RenewalServed`, `RollServed`, `VerdictGiven`, `Delivered`, `StopsOnSignal`),
which this prover does not do; and the properties that are violated.

## 6. Not modelled

- The arguments of the TUN ioctls, the write of one packet to the device, and
  `relaxRPFilter`: no other step reads what they set. That `rp_filter` stays 0
  after an exit follows from reading `tun.go:99`; there is nothing to explore.
- Flag parsing, counters and log lines.
- The messages of a DTLS handshake, the content of certificates, the
  authorisation of the peer's SPIFFE ID and the cipher suite: data handed to the
  libraries (`identity.go:162`). What the verifier is given, the bundle of a
  trust domain, is in `DelegatedSource`.
- The Workload API library. Its source is `Delegated = FALSE` in `Session`.
- Benchmarks, deployment scripts and manifests: no behaviour of the program. The
  arguments they pass are cases of the constants (section 4).

## 7. Plan

What remains would deepen rather than widen: `Proxy` with sessions that are
replaced while frames are on them, and `Tunnel` with two instances of
`ConnHolder` for its sides, which today merge the steps of one replacement.
