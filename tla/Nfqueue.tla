------------------------------ MODULE Nfqueue ------------------------------
(***************************************************************************)
(* The capture datapath: start and stop of the queue (main.go, nfq.go),    *)
(* the C receive loop and its callback, the packet pool, the channel to    *)
(* the sender, senderLoop with its write deadline, and the mutex around    *)
(* verdicts.                                                               *)
(*                                                                         *)
(* The kernel's queue and the session are external. A packet waits in the  *)
(* kernel until its verdict; the kernel drops what exceeds its queue       *)
(* length and, because the rules say --queue-bypass, lets everything pass  *)
(* while no process has bound the queue.                                   *)
(***************************************************************************)
EXTENDS Naturals, Sequences, FiniteSets

CONSTANTS
  Pkts,        \* packets the network function sends
  Big,         \* those larger than pooledPacketSize
  Unreadable,  \* those whose payload the callback cannot read
  Bufs,        \* addresses of pooled buffers
  NilBuf,      \* the nil *[]byte
  NoBuf,       \* no buffer: not captured yet, or already released
  NoPkt,
  KernelLens,  \* lengths the kernel queue may be configured with
  Depth,       \* nfqQueueDepth
  Budget       \* writeBudget, in ticks

ASSUME NfqueueAssumption ==
  /\ Big \subseteq Pkts /\ Unreadable \subseteq Pkts
  /\ NilBuf \notin Bufs /\ NoBuf \notin Bufs /\ NilBuf # NoBuf
  /\ NoPkt \notin Pkts
  /\ KernelLens \subseteq Nat /\ Depth \in Nat /\ Budget \in Nat

VARIABLES
  klen,        \* length of the kernel queue
  proc,        \* "starting", "running", "stopping", "crashed" (before nfqStop),
               \* "aborted" (crashed after it) or "gone"
  fate,        \* of each packet: see TypeOK
  queue,       \* packets the kernel has yet to hand to the loop
  ch,          \* nfqCh
  bufOf,       \* the buffer that holds each packet's payload
  pool,        \* pktPool
  mutex,       \* verdictMu: "free", "loop" or "sender"
  loopPc,      \* the C loop and goNfqCB: where it is
  loopPkt,
  sndPc,       \* senderLoop: where it is
  sndPkt,
  session,     \* the holder's: "none", "new" to the sender, or its "last" one
  deadlineAt,  \* ticks left until the sender's deadlineAt
  limited,     \* a write is under way on a connection with that deadline set
  carried      \* packets a DTLS record carries (history)

bufVars == <<bufOf, pool>>
loopVars == <<loopPc, loopPkt>>
writeVars == <<session, deadlineAt, limited>>
sndVars == <<sndPc, sndPkt, carried, writeVars>>
vars == <<klen, proc, fate, queue, ch, bufVars, mutex, loopVars, sndVars>>

Elems(s) == {s[k] : k \in DOMAIN s}
Held == {p \in Pkts : fate[p] = "held"}
Alive == proc \in {"starting", "running", "stopping"}
Bound == proc \in {"running", "crashed"}

Init ==
  /\ klen \in KernelLens
  /\ proc = "starting"
  /\ fate = [p \in Pkts |-> "unsent"] /\ queue = <<>> /\ ch = <<>>
  /\ bufOf = [p \in Pkts |-> NoBuf] /\ pool = {}
  /\ mutex = "free"
  /\ loopPc = "recv" /\ loopPkt = NoPkt
  /\ sndPc = "range" /\ sndPkt = NoPkt /\ carried = {}
  /\ session = "new" /\ deadlineAt = 0 /\ limited = FALSE

-----------------------------------------------------------------------------
(* The kernel, with the rules installed. *)

NFSends(p) ==
  /\ fate[p] = "unsent"
  /\ \/ /\ ~Bound
        /\ fate' = [fate EXCEPT ![p] = "bypassed"] /\ queue' = queue
     \/ /\ Bound /\ Cardinality(Held) < klen
        /\ fate' = [fate EXCEPT ![p] = "held"] /\ queue' = Append(queue, p)
     \/ /\ Bound /\ Cardinality(Held) >= klen
        /\ fate' = [fate EXCEPT ![p] = "overflow"] /\ queue' = queue
  /\ UNCHANGED <<klen, proc, ch, bufVars, mutex, loopVars, sndVars>>

nfqStart ==
  /\ proc = "starting" /\ proc' = "running"
  /\ UNCHANGED <<klen, fate, queue, ch, bufVars, mutex, loopVars, sndVars>>

(* The kernel drops what it holds for a queue that goes away. *)
Unbinds ==
  /\ fate' = [p \in Pkts |-> IF fate[p] = "held" THEN "dropped" ELSE fate[p]]
  /\ queue' = <<>>

(* main's deferred nfqStop: it takes no lock, and the goroutines run on    *)
(* until main has returned.                                                *)
nfqStop ==
  /\ proc = "running" /\ proc' = "stopping"
  /\ Unbinds
  /\ UNCHANGED <<klen, ch, bufVars, mutex, loopVars, sndVars>>

(* The process is gone with all it had in memory: main has returned after  *)
(* nfqStop, it crashed, or it was killed.                                  *)
Exits ==
  /\ proc \in {"running", "stopping", "crashed", "aborted"} /\ proc' = "gone"
  /\ Unbinds
  /\ ch' = <<>> /\ bufOf' = [p \in Pkts |-> NoBuf] /\ pool' = {} /\ mutex' = "free"
  /\ loopPc' = "recv" /\ loopPkt' = NoPkt
  /\ sndPc' = "range" /\ sndPkt' = NoPkt
  /\ session' = "none" /\ deadlineAt' = 0 /\ limited' = FALSE
  /\ UNCHANGED <<klen, carried>>

(* The supervisor takes the session away and puts a new one there. *)
SessionChanges ==
  /\ Alive
  /\ session' = IF session = "none" THEN "new" ELSE "none"
  /\ UNCHANGED <<klen, proc, fate, queue, ch, bufVars, mutex, loopVars, sndPc, sndPkt,
                 carried, deadlineAt, limited>>

Tick ==
  /\ Alive
  /\ deadlineAt > 0 /\ deadlineAt' = deadlineAt - 1
  /\ UNCHANGED <<klen, proc, fate, queue, ch, bufVars, mutex, loopVars, sndPc, sndPkt,
                 carried, session, limited>>

-----------------------------------------------------------------------------
(* nfqSetVerdict: the lock, and the verdict under it, which finds nothing  *)
(* to settle once the queue is gone.                                       *)

Lock_None(thread) == mutex' = thread

Lock(thread) == mutex = "free" /\ mutex' = thread

nfqSetVerdict_Lost(p, accept) == mutex' = "free" /\ UNCHANGED fate

nfqSetVerdict(p, accept) ==
  /\ mutex' = "free"
  /\ fate' = [fate EXCEPT ![p] = IF @ # "held" THEN @
                                 ELSE IF accept THEN "accepted" ELSE "dropped"]

-----------------------------------------------------------------------------
(* The C loop: recv, nfq_handle_packet, and goNfqCB inside it. *)

LoopStep(from, to) ==
  /\ Alive
  /\ loopPc = from /\ loopPc' = to
  /\ loopPkt' = IF to = "recv" THEN NoPkt ELSE loopPkt
  /\ UNCHANGED <<klen, queue, sndVars>>

LoopRecv ==
  /\ proc = "running" /\ queue # <<>>
  /\ loopPc = "recv" /\ loopPc' = "callback"
  /\ loopPkt' = Head(queue) /\ queue' = Tail(queue)
  /\ UNCHANGED <<klen, proc, fate, ch, bufVars, mutex, sndVars>>

(* recv fails, because the socket buffer overran or the socket is closed:  *)
(* the loop returns and nothing restarts it.                               *)
LoopEnds ==
  /\ LoopStep("recv", "ended")
  /\ proc # "starting"
  /\ UNCHANGED <<proc, fate, ch, bufVars, mutex>>

(* getPktBuf: a large packet gets memory of its own and a nil *[]byte; the *)
(* others one from the pool, or a new one.                                 *)
getPktBuf(p) ==
  IF p \in Big THEN {NilBuf} ELSE pool \cup (Bufs \ {bufOf[q] : q \in Pkts})

(* A nil *[]byte out of the pool is dereferenced: the goroutines stop, and *)
(* a queue that is still bound stays so until the process is gone.         *)
Crash == proc' = IF proc = "running" THEN "crashed" ELSE "aborted"

CallbackCopies ==
  /\ LoopStep("callback", "offer")
  /\ loopPkt \notin Unreadable
  /\ \E b \in getPktBuf(loopPkt) :
       /\ bufOf' = [bufOf EXCEPT ![loopPkt] = b]
       /\ pool' = IF loopPkt \in Big THEN pool ELSE pool \ {b}
       /\ IF loopPkt \notin Big /\ b = NilBuf THEN Crash ELSE proc' = proc
  /\ UNCHANGED <<fate, ch, mutex>>

Full_Never == FALSE

Full_Early == Len(ch) + 1 >= Depth

Full == Len(ch) >= Depth

CallbackEnqueues ==
  /\ LoopStep("offer", "recv")
  /\ ~Full
  /\ ch' = Append(ch, loopPkt)
  /\ UNCHANGED <<proc, fate, bufVars, mutex>>

(* The channel is full: give the buffer back, without releasePkt's check,  *)
(* and drop.                                                               *)
CallbackBackpressured ==
  /\ LoopStep("offer", "lockDrop")
  /\ Full
  /\ pool' = pool \cup {bufOf[loopPkt]}
  /\ bufOf' = [bufOf EXCEPT ![loopPkt] = NoBuf]
  /\ UNCHANGED <<proc, fate, ch, mutex>>

CallbackUnreadable ==
  /\ LoopStep("callback", "lockAccept")
  /\ loopPkt \in Unreadable
  /\ UNCHANGED <<proc, fate, ch, bufVars, mutex>>

LoopLock ==
  /\ LoopStep("lockDrop", "drop") \/ LoopStep("lockAccept", "accept")
  /\ Lock("loop")
  /\ UNCHANGED <<proc, fate, ch, bufVars>>

LoopVerdict ==
  /\ LoopStep("drop", "recv") \/ LoopStep("accept", "recv")
  /\ nfqSetVerdict(loopPkt, loopPc = "accept")
  /\ UNCHANGED <<proc, ch, bufVars>>

-----------------------------------------------------------------------------
(* senderLoop *)

SndStep(from, to) ==
  /\ Alive
  /\ sndPc = from /\ sndPc' = to
  /\ UNCHANGED <<klen, proc, queue, loopVars>>

Refresh_AnyConn == 2 * deadlineAt < Budget

(* A connection the sender has not used before has no deadline yet; on its *)
(* last one the deadline is moved when less than half of it is left.       *)
Refresh == session = "new" \/ 2 * deadlineAt < Budget

releasePkt(p) ==
  /\ bufOf' = [bufOf EXCEPT ![p] = NoBuf]
  /\ pool' = IF bufOf[p] = NilBuf THEN pool ELSE pool \cup {bufOf[p]}

SndTake_ReleaseEarly ==
  /\ SndStep("range", IF session = "none" THEN "lockRefuse" ELSE "write")
  /\ ch # <<>> /\ sndPkt' = Head(ch) /\ ch' = Tail(ch)
  /\ releasePkt(Head(ch))
  /\ UNCHANGED <<fate, mutex, carried, writeVars>>

SndTake ==
  /\ SndStep("range", IF session = "none" THEN "lockRefuse" ELSE "write")
  /\ ch # <<>> /\ sndPkt' = Head(ch) /\ ch' = Tail(ch)
  /\ IF session # "none" /\ Refresh
       THEN session' = "last" /\ deadlineAt' = Budget /\ limited' = TRUE
       ELSE UNCHANGED <<session, deadlineAt>> /\ limited' = (session = "last")
  /\ UNCHANGED <<fate, bufVars, mutex, carried>>

(* The write succeeds or fails; the buffer goes back either way. *)
SndWrite ==
  /\ SndStep("write", "lock")
  /\ carried' \in {carried, carried \cup {sndPkt}}
  /\ releasePkt(sndPkt)
  /\ limited' = FALSE
  /\ UNCHANGED <<fate, ch, mutex, sndPkt, session, deadlineAt>>

SndLock ==
  /\ SndStep("lock", "verdict") \/ SndStep("lockRefuse", "refuse")
  /\ Lock("sender")
  /\ UNCHANGED <<fate, ch, bufVars, sndPkt, carried, writeVars>>

accept_Uncarried == sndPkt \notin carried

(* The original is dropped whatever became of the record. *)
accept == FALSE

(* Without a session the buffer is released only now. *)
SndVerdict ==
  /\ \/ SndStep("verdict", "range") /\ UNCHANGED bufVars
     \/ SndStep("refuse", "range") /\ releasePkt(sndPkt)
  /\ nfqSetVerdict(sndPkt, accept)
  /\ sndPkt' = NoPkt
  /\ UNCHANGED <<ch, carried, writeVars>>

-----------------------------------------------------------------------------
Loop == LoopRecv \/ CallbackCopies \/ CallbackEnqueues \/ CallbackBackpressured
        \/ CallbackUnreadable \/ LoopLock \/ LoopVerdict

Sender == SndTake \/ SndLock \/ SndVerdict

Gone == proc = "gone" /\ UNCHANGED vars

Next ==
  \/ \E p \in Pkts : NFSends(p)
  \/ nfqStart \/ nfqStop \/ Exits
  \/ SessionChanges \/ Tick
  \/ Loop \/ LoopEnds
  \/ Sender \/ SndWrite
  \/ Gone

Spec == Init /\ [][Next]_vars

(* Both threads are scheduled, time passes, and Go's mutex does not starve *)
(* a waiter. A write returns for certain only when the deadline of its     *)
(* connection has passed.                                                  *)
FairSpec ==
  /\ Spec
  /\ WF_vars(Loop) /\ WF_vars(Sender) /\ SF_vars(LoopLock) /\ SF_vars(SndLock)
  /\ WF_vars(Tick) /\ WF_vars(limited /\ deadlineAt = 0 /\ SndWrite)
  /\ WF_vars(proc # "running" /\ Exits)

-----------------------------------------------------------------------------
(* Every variable keeps its type; the channel keeps to nfqQueueDepth and   *)
(* the kernel to its queue length (nfq.go).                                *)
TypeOK ==
  /\ proc \in {"starting", "running", "stopping", "crashed", "aborted", "gone"}
  /\ fate \in [Pkts -> {"unsent", "held", "dropped", "accepted", "bypassed", "overflow"}]
  /\ queue \in Seq(Pkts) /\ ch \in Seq(Pkts)
  /\ Len(ch) <= Depth /\ klen \in KernelLens /\ Cardinality(Held) <= klen
  /\ bufOf \in [Pkts -> Bufs \cup {NilBuf, NoBuf}]
  /\ pool \in SUBSET (Bufs \cup {NilBuf})
  /\ mutex \in {"free", "loop", "sender"}
  /\ loopPc \in {"recv", "callback", "offer", "lockDrop", "lockAccept", "drop",
                 "accept", "ended"}
  /\ sndPc \in {"range", "write", "lock", "lockRefuse", "verdict", "refuse"}
  /\ {loopPkt, sndPkt} \subseteq Pkts \cup {NoPkt}
  /\ session \in {"none", "new", "last"}
  /\ deadlineAt \in 0..Budget /\ limited \in BOOLEAN
  /\ carried \in SUBSET Pkts

(* A packet's payload stays in its own buffer from the callback's copy to  *)
(* the DTLS write: no buffer holds two packets, or is in the pool while a  *)
(* packet still needs it (nfq.go getPktBuf, releasePkt; main.go senderLoop). *)
PayloadIntact ==
  /\ \A p, q \in Pkts : bufOf[p] = bufOf[q] /\ bufOf[p] \in Bufs => p = q
  /\ \A p \in Pkts : bufOf[p] \in Bufs => bufOf[p] \notin pool
  /\ sndPc = "write" => bufOf[sndPkt] # NoBuf
  /\ \A p \in Elems(ch) : bufOf[p] # NoBuf

(* "Every verdict therefore goes through one mutex" (nfq.go): the loop's   *)
(* own verdicts and the sender's never overlap.                            *)
VerdictsSerialised ==
  ~(loopPc \in {"drop", "accept"} /\ sndPc \in {"verdict", "refuse"})

InProcess == {loopPkt, sndPkt} \cup Elems(queue) \cup Elems(ch)

OnePlace ==
  /\ \A i, j \in DOMAIN queue : queue[i] = queue[j] => i = j
  /\ \A i, j \in DOMAIN ch : ch[i] = ch[j] => i = j
  /\ Elems(queue) \cap Elems(ch) = {}
  /\ {loopPkt, sndPkt} \cap (Elems(queue) \cup Elems(ch)) = {}
  /\ loopPkt = sndPkt => loopPkt = NoPkt

(* No packet that waits for a verdict is forgotten: it is in the kernel's  *)
(* queue, in the callback, in the channel or with the sender, and in just  *)
(* one of these places; one with a verdict is in none, so no verdict is    *)
(* given twice. None waits once the queue is gone (nfq.go goNfqCB and      *)
(* nfqStop, main.go senderLoop).                                           *)
HeldAccountedFor == OnePlace /\ Held = IF Bound THEN InProcess \ {NoPkt} ELSE {}

(* Failing closed (docs/design.md): a captured packet the callback could   *)
(* read is carried or dropped, and never leaves the host in plaintext,     *)
(* whatever becomes of the session, the write, the channel, the receive    *)
(* loop, the queue or the process.                                         *)
StateOf(p) ==
  IF fate[p] = "unsent" THEN "unsent"
  ELSE IF fate[p] \in {"bypassed", "accepted"} THEN "plain"
  ELSE IF p \in carried THEN "carried"
  ELSE IF fate[p] = "held" \/ p \in InProcess THEN "captured" ELSE "dropped"

Channel == INSTANCE N4Channel
             WITH Msgs <- Pkts \ Unreadable,
                  state <- [p \in Pkts \ Unreadable |-> StateOf(p)]

FailsClosed == Channel!ChSpec

(* Every captured packet gets its verdict in the end (nfq.go: "sets the    *)
(* verdict later"), also when the DTLS write hangs, unless the receive     *)
(* loop has ended.                                                         *)
VerdictGiven == Held # {} ~> (Held = {} \/ loopPc = "ended")

(* The coarse schedule of deadlines "keeps every write bounded by          *)
(* writeBudget at worst" (main.go senderLoop), and leaves it half of that  *)
(* at least.                                                               *)
WriteBudgeted ==
  [][sndPc = "range" /\ sndPc' = "write" => limited' /\ 2 * deadlineAt' >= Budget]_vars

(* With a kernel queue no longer than the channel, the channel never       *)
(* overflows: a packet is refused by the kernel before the callback could  *)
(* find the channel full. Nor does a large packet then put its nil buffer  *)
(* into the pool, which a later packet would die of (nfq.go nfqQueueDepth, *)
(* goNfqCB, getPktBuf).                                                    *)
NoBackpressure ==
  klen <= Depth => loopPc \notin {"lockDrop", "drop"} /\ NilBuf \notin pool

-----------------------------------------------------------------------------
(* "calling them concurrently segfaults" (nfq.go): no verdict is set while *)
(* the receive loop is inside nfq_handle_packet.                           *)
HandleExclusive == sndPc \in {"verdict", "refuse"} => loopPc \in {"recv", "ended"}
=============================================================================
