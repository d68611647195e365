----------------------------- MODULE Lifecycle -----------------------------
(***************************************************************************)
(* main of one sidecar from start to exit, in both datapath modes: the     *)
(* steps it takes in order, the clean-up each of them defers, die(), which *)
(* runs none of it, and restarts on top of what a death left behind; and   *)
(* what becomes of the network function's PFCP meanwhile.                  *)
(*                                                                         *)
(* The kernel is external: a process that is gone has no socket, device or *)
(* queue any more, but its iptables rules stay. A queue rule nobody is     *)
(* bound to lets packets pass (--queue-bypass), a redirect rule to a port  *)
(* nobody listens on does not.                                             *)
(***************************************************************************)
EXTENDS Naturals, Sequences

CONSTANTS
  MaxDeaths,   \* bound on deaths of the process
  MaxFailures  \* bound on failed removals of each rule

ASSUME LifecycleAssumption == MaxDeaths \in Nat /\ MaxFailures \in Nat

Ports == {"dport", "sport"}
Rules == Ports \cup {"mark", "notrack", "return"}

VARIABLES
  opt,        \* -mode, -role and -install-nfq-rule (never change)
  pc,         \* the step of main that comes next
  done,       \* how many rules that step has installed or removed
  deferred,   \* deferred calls, the last one first
  have,       \* what the process has: "identity", "tun", "session", "socket", "queue"
  replacing,  \* superviseSession has emptied the holder and not set it again
  reading,    \* nfq_loop is running
  rules,      \* copies of each rule in the host's tables
  failed,     \* how often the removal of each rule failed (history)
  signalled,  \* SIGINT or SIGTERM has arrived: ctx is done
  deaths,     \* how often the process died
  guard       \* it has served, and not shut down since (history)

vars == <<opt, pc, done, deferred, have, replacing, reading, rules, failed, signalled,
          deaths, guard>>

Init ==
  /\ opt \in [mode : {"socket", "nfqueue"}, role : {"client", "server"}, install : BOOLEAN]
  /\ pc = "down" /\ done = 0 /\ deferred = <<>>
  /\ have = {} /\ replacing = FALSE /\ reading = FALSE
  /\ rules = [r \in Rules |-> 0] /\ failed = [r \in Rules |-> 0]
  /\ signalled = FALSE /\ deaths = 0 /\ guard = FALSE

ruleSet == IF opt.mode = "socket" THEN <<"notrack", "return", "dport", "sport">>
                                  ELSE <<"mark", "dport", "sport">>

steps_RulesFirst ==
  IF opt.mode = "socket"
    THEN <<"identity", "rules", "session", "socket", "serve">>
    ELSE <<"identity", "tun", "rules", "session", "queue", "serve">>

(* The order in which main takes what it needs. *)
steps ==
  IF opt.mode = "socket"
    THEN <<"identity", "session", "socket", "rules", "serve">>
    ELSE <<"identity", "tun", "session", "rules", "queue", "serve">>

After(s) == steps[1 + CHOOSE i \in DOMAIN steps : steps[i] = s]

Running == pc \notin {"down", "dead"}

-----------------------------------------------------------------------------
Start ==
  /\ ~Running
  /\ pc' = "identity"
  /\ signalled' = FALSE
  /\ UNCHANGED <<opt, done, deferred, have, replacing, reading, rules, failed, deaths, guard>>

Signal ==
  /\ Running /\ ~signalled
  /\ signalled' = TRUE
  /\ UNCHANGED <<opt, pc, done, deferred, have, replacing, reading, rules, failed, deaths, guard>>

Defer(call) == <<call>> \o deferred

(* A call that either works, and has its clean-up deferred, or ends in     *)
(* die. The C loop reads from the queue as soon as it is bound.            *)
Acquire ==
  /\ pc \in {"identity", "tun", "session", "socket", "queue"}
  /\ have' = have \cup {pc}
  /\ reading' = (pc = "queue")
  /\ deferred' = Defer(pc)
  /\ pc' = After(pc)
  /\ UNCHANGED <<opt, done, replacing, rules, failed, signalled, deaths, guard>>

loadIdentity == pc = "identity" /\ Acquire

openTUN == pc = "tun" /\ Acquire

connect == pc = "session" /\ Acquire

newProxy == pc = "socket" /\ Acquire

nfqStart == pc = "queue" /\ Acquire

RuleCount_AllButLast == Len(ruleSet) - 1

RuleCount == Len(ruleSet)

(* iptables -A or -I, one rule at a time; the removal is deferred when all *)
(* are in.                                                                 *)
installRules ==
  /\ pc = "rules" /\ opt.install
  /\ rules' = [rules EXCEPT ![ruleSet[done + 1]] = @ + 1]
  /\ done' = (done + 1) % RuleCount
  /\ IF done' = 0 THEN pc' = After(pc) /\ deferred' = Defer("rules")
                  ELSE UNCHANGED <<pc, deferred>>
  /\ UNCHANGED <<opt, have, replacing, reading, failed, signalled, deaths, guard>>

SkipRules ==
  /\ pc = "rules" /\ ~opt.install
  /\ pc' = After(pc)
  /\ UNCHANGED <<opt, done, deferred, have, replacing, reading, rules, failed, signalled,
                 deaths, guard>>

(* Holder, supervisor, sender and receiver are started. *)
Serve ==
  /\ pc = "serve" /\ ~guard
  /\ guard' = TRUE
  /\ UNCHANGED <<opt, pc, done, deferred, have, replacing, reading, rules, failed, signalled,
                 deaths>>

(* The supervisor takes the session away, for a failure or a rotation, or  *)
(* puts a new one there; it may wait for the peer without end, and goes on *)
(* while main returns.                                                     *)
superviseSession ==
  /\ (pc = "serve" /\ guard) \/ pc = "return"
  /\ replacing' = ~replacing
  /\ UNCHANGED <<opt, pc, done, deferred, have, reading, rules, failed, signalled, deaths, guard>>

(* recv fails; nothing restarts the loop. *)
LoopEnds ==
  /\ reading
  /\ reading' = FALSE
  /\ UNCHANGED <<opt, pc, done, deferred, have, replacing, rules, failed, signalled, deaths, guard>>

(* The loop of main ends with the context. *)
Return ==
  /\ pc = "serve" /\ guard /\ signalled
  /\ pc' = "return"
  /\ guard' = FALSE
  /\ UNCHANGED <<opt, done, deferred, have, replacing, reading, rules, failed, signalled, deaths>>

(* px.close, nfqStop, conn.Close, tun.close and id.close, as they come. *)
Release ==
  /\ pc = "return" /\ deferred # <<>> /\ Head(deferred) # "rules"
  /\ have' = have \ {Head(deferred)}
  /\ reading' = (reading /\ Head(deferred) # "queue")
  /\ deferred' = Tail(deferred)
  /\ UNCHANGED <<opt, pc, done, replacing, rules, failed, signalled, deaths, guard>>

Deleted_Kept(copies) == copies

(* iptables -D removes one copy of a rule, if there is one. *)
Deleted(copies) == IF copies > 0 THEN copies - 1 ELSE 0

(* An error of iptables -D is discarded: the rule may stay, and the next   *)
(* one is tried all the same.                                              *)
removeRules ==
  /\ pc = "return" /\ deferred # <<>> /\ Head(deferred) = "rules"
  /\ LET r == ruleSet[done + 1] IN
       \/ rules' = [rules EXCEPT ![r] = Deleted(@)] /\ UNCHANGED failed
       \/ /\ failed[r] < MaxFailures
          /\ failed' = [failed EXCEPT ![r] = @ + 1] /\ UNCHANGED rules
  /\ done' = (done + 1) % RuleCount
  /\ deferred' = IF done' = 0 THEN Tail(deferred) ELSE deferred
  /\ UNCHANGED <<opt, pc, have, replacing, reading, signalled, deaths, guard>>

Exit ==
  /\ pc = "return" /\ deferred = <<>>
  /\ pc' = "down"
  /\ replacing' = FALSE
  /\ UNCHANGED <<opt, done, deferred, have, reading, rules, failed, signalled, deaths, guard>>

Gone ==
  /\ have' = {} /\ replacing' = FALSE /\ reading' = FALSE
  /\ deferred' = <<>> /\ done' = 0

(* die, a panic, SIGKILL: no deferred call runs. *)
Dies ==
  /\ Running /\ deaths < MaxDeaths
  /\ pc' = "dead"
  /\ deaths' = deaths + 1
  /\ Gone
  /\ UNCHANGED <<opt, rules, failed, signalled, guard>>

Cancellable_Never == FALSE

(* The calls that return when the context ends: loadIdentity and a dial,   *)
(* not Accept.                                                             *)
Cancellable == pc = "identity" \/ (pc = "session" /\ opt.role = "client")

(* The call returns the context's error and main dies of it, before it has *)
(* installed any rule.                                                     *)
Stop ==
  /\ signalled
  /\ Cancellable
  /\ pc' = "dead"
  /\ Gone
  /\ UNCHANGED <<opt, rules, failed, signalled, deaths, guard>>

MainStep ==
  \/ loadIdentity \/ openTUN \/ newProxy \/ nfqStart
  \/ installRules \/ SkipRules \/ Serve \/ Return
  \/ Release \/ removeRules \/ Exit \/ Stop

Next == Start \/ Signal \/ connect \/ MainStep \/ superviseSession \/ LoopEnds \/ Dies

Spec == Init /\ [][Next]_vars

(* main runs; its calls return, but for a dial or an Accept, which wait    *)
(* for a peer that may never come.                                         *)
FairSpec == Spec /\ WF_vars(MainStep)

-----------------------------------------------------------------------------
(* A datagram of the function that the port rules are about: the rule that *)
(* matches it, whether goNfqCB can read it, and what conntrack remembers   *)
(* of its flow (which entries there can be is the subject of Interception). *)
Datagrams == [port : Ports, readable : BOOLEAN, entry : {"none", "direct", "redirected"}]

(* Does the kernel hand it to the sidecar? nat rules run for the first     *)
(* packet of a flow only, mangle rules for every packet.                   *)
Diverted(d) ==
  IF opt.mode = "socket" /\ d.entry # "none" THEN d.entry = "redirected" ELSE rules[d.port] > 0

(* What becomes of it: it leaves in the clear, is captured by a sidecar    *)
(* that has a session, is dropped by one that has none, or is lost in a    *)
(* port or a queue nobody reads.                                           *)
Outcome(d) ==
  LET taken == IF "session" \in have /\ ~replacing THEN "captured" ELSE "dropped" IN
  IF ~Diverted(d) THEN "clear"
  ELSE IF opt.mode = "socket" THEN IF "socket" \in have THEN taken ELSE "lost"
  ELSE IF "queue" \notin have THEN "clear"
  ELSE IF ~reading THEN "lost"
  ELSE IF d.readable THEN taken ELSE "clear"

(* Every variable keeps its type, and what is deferred is what is held     *)
(* (main.go defer).                                                        *)
TypeOK ==
  /\ opt \in [mode : {"socket", "nfqueue"}, role : {"client", "server"}, install : BOOLEAN]
  /\ pc \in {"down", "identity", "tun", "session", "socket", "rules", "queue",
             "serve", "return", "dead"}
  /\ done \in 0..3
  /\ have = {deferred[i] : i \in DOMAIN deferred} \ {"rules"}
  /\ replacing \in BOOLEAN
  /\ reading \in BOOLEAN /\ (reading => "queue" \in have)
  /\ rules \in [Rules -> 0..(MaxDeaths + MaxFailures + 1)]
  /\ failed \in [Rules -> 0..MaxFailures]
  /\ signalled \in BOOLEAN
  /\ deaths \in 0..MaxDeaths
  /\ guard \in BOOLEAN

(* "we never drop the NF's PFCP into a queue with nowhere to go" (main.go): *)
(* at start, at shutdown and in between PFCP is taken by a sidecar without *)
(* a session only while the supervisor replaces it, and is lost in socket  *)
(* mode only to an old entry, or to a rule a death or a failed removal     *)
(* left. (In capture mode it is lost where the receive loop has ended, and *)
(* in both modes what is captured while main returns may go with it.)      *)
NeverNowhere ==
  \A d \in Datagrams :
    /\ Outcome(d) = "dropped" => replacing
    /\ Outcome(d) = "lost" /\ opt.mode = "socket"
         => d.entry = "redirected" \/ deaths + failed[d.port] > 0

(* From the moment it serves until it shuts down, deaths and restarts      *)
(* included, PFCP leaves in the clear in socket mode only by an entry that *)
(* says so, and in capture mode only without a bound queue or if it cannot *)
(* be read (main.go installNfqRules --queue-bypass, proxy.go               *)
(* installRedirectRules, nfq.go goNfqCB).                                  *)
ClearOnlyPastGuard ==
  guard /\ opt.install =>
    \A d \in Datagrams : Outcome(d) = "clear" =>
      IF opt.mode = "socket" THEN d.entry = "direct" ELSE "queue" \notin have \/ ~d.readable

(* "remove them on exit" (main.go -install-nfq-rule): of each rule a clean *)
(* exit leaves at most one copy per death before it, wherever the process  *)
(* died, and one per failed removal of that rule, whose error the code     *)
(* discards; nothing else adds up, in either mode.                         *)
LeftoversCounted ==
  pc = "down" => have = {} /\ \A r \in Rules : rules[r] <= deaths + failed[r]

(* A signal ends the process (main.go signal.NotifyContext), unless it is  *)
(* a server still waiting for its first peer.                              *)
StopsOnSignal ==
  (signalled /\ (opt.role = "client" \/ "session" \in have)) ~> ~Running
=============================================================================
