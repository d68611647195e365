---------------------------- MODULE Interception ----------------------------
(***************************************************************************)
(* Interception in socket mode: what main does with the iptables rules     *)
(* between start and exit (main.go, proxy.go installRedirectRules,         *)
(* flushConntrack, removeRedirectRules), on both hosts, and where the      *)
(* network functions' datagrams go meanwhile. There is one N4 flow; flows  *)
(* do not influence each other.                                            *)
(*                                                                         *)
(* The kernel is external. nat rules run for the first packet of a flow    *)
(* only; after that conntrack repeats the decision, for both directions.   *)
(* A datagram that leaves in plaintext makes an entry on the other host    *)
(* too; one that a sidecar delivers makes one unless it is NOTRACKed.      *)
(***************************************************************************)
EXTENDS Naturals, Sequences

CONSTANTS
  RedirectPeer,  \* -redirect-peer is set on both sides
  FlushFails,    \* TRUE: conntrack -D may fail, which is only a warning
  MaxFaults      \* bound on the faults of each sidecar

ASSUME InterceptionAssumption ==
  RedirectPeer \in BOOLEAN /\ FlushFails \in BOOLEAN /\ MaxFaults \in Nat

Sides == {"cp", "up"}
Other(s) == IF s = "cp" THEN "up" ELSE "cp"

(* Kinds of rules, in the order they are installed: the two that exempt    *)
(* marked datagrams (NOTRACK, RETURN), the two for the PFCP port (--dport, *)
(* --sport), the one for the peer's address. Of each pair one rule decides *)
(* about a given datagram, so a pair counts as installed with that one.    *)
Kinds == {"exempt", "port", "peer"}

VARIABLES
  pfcp,      \* has the flow the PFCP port (-dport) at the user plane?
  pc,        \* main of each sidecar
  step,      \* next rule to install or to remove
  faults,    \* deaths of each sidecar, and removals of a rule that failed
  rules,     \* copies of each rule in each host's tables
  ct,        \* the flow's conntrack entry on each host
  guarded,   \* from the flush until a shutdown, deaths included (history)
  exposed    \* the entry is a direct one the flush left or the peer's
             \* plaintext made while guarded (history)

vars == <<pfcp, pc, step, faults, rules, ct, guarded, exposed>>
kernel == <<pfcp, ct, exposed>>
main == <<pc, step, faults, rules, guarded>>

Init ==
  /\ pfcp \in (IF RedirectPeer THEN BOOLEAN ELSE {TRUE})
  /\ pc = [s \in Sides |-> "down"]
  /\ step = [s \in Sides |-> 1]
  /\ faults = [s \in Sides |-> 0]
  /\ rules = [s \in Sides |-> [r \in Kinds |-> 0]]
  /\ ct = [s \in Sides |-> "none"]
  /\ guarded = [s \in Sides |-> FALSE]
  /\ exposed = [s \in Sides |-> FALSE]

-----------------------------------------------------------------------------
redirectRuleSet_Tracked == <<"port", "peer">>

redirectRuleSet ==
  IF RedirectPeer THEN <<"exempt", "port", "peer">> ELSE <<"exempt", "port">>

(* main of sidecar s goes on, at rule i. *)
Goes(s, from, to, i) ==
  /\ pc[s] \in from
  /\ pc' = [pc EXCEPT ![s] = to]
  /\ step' = [step EXCEPT ![s] = i]

Start(s) ==
  /\ Goes(s, {"down", "dead"}, "connect", 1)
  /\ UNCHANGED <<kernel, faults, rules, guarded>>

(* The first session takes both sidecars; the rules come after it. *)
connect(s) ==
  /\ pc[Other(s)] \notin {"down", "remove", "dead"}
  /\ Goes(s, {"connect"}, "install", 1)
  /\ UNCHANGED <<kernel, faults, rules, guarded>>

(* iptables -A, one rule at a time. *)
installRedirectRules(s) ==
  /\ Goes(s, {"install"}, IF step[s] = Len(redirectRuleSet) THEN "flush" ELSE "install",
          step[s] + 1)
  /\ rules' = [rules EXCEPT ![s][redirectRuleSet[step[s]]] = @ + 1]
  /\ UNCHANGED <<kernel, faults, guarded>>

(* conntrack -D, twice: both name the PFCP port. Serving starts whether or *)
(* not the entry is gone.                                                  *)
flushConntrack(s) ==
  /\ Goes(s, {"flush"}, "serving", 1)
  /\ \E gone \in IF ~pfcp THEN {FALSE} ELSE IF FlushFails THEN BOOLEAN ELSE {TRUE} :
       ct' = [ct EXCEPT ![s] = IF gone THEN "none" ELSE @]
  /\ exposed' = [exposed EXCEPT ![s] = (ct'[s] = "direct")]
  /\ guarded' = [guarded EXCEPT ![s] = TRUE]
  /\ UNCHANGED <<pfcp, faults, rules>>

Shutdown(s) ==
  /\ Goes(s, {"serving"}, "remove", 1)
  /\ guarded' = [guarded EXCEPT ![s] = FALSE]
  /\ UNCHANGED <<kernel, faults, rules>>

removed_AllButLast(s) == step[s] + 1 >= Len(redirectRuleSet)

removed(s) == step[s] = Len(redirectRuleSet)

Fault(s) == faults[s] < MaxFaults /\ faults' = [faults EXCEPT ![s] = @ + 1]

(* iptables -D deletes one copy of each rule. An error is discarded, so    *)
(* the rule may stay; the next one is tried all the same.                  *)
removeRedirectRules(s) ==
  /\ Goes(s, {"remove"}, IF removed(s) THEN "down" ELSE "remove", step[s] + 1)
  /\ \/ /\ rules' = [rules EXCEPT ![s][redirectRuleSet[step[s]]] = IF @ > 0 THEN @ - 1 ELSE 0]
        /\ UNCHANGED faults
     \/ Fault(s) /\ UNCHANGED rules
  /\ UNCHANGED <<kernel, guarded>>

(* No deferred call runs: a rule that fails to install ends in die, and a  *)
(* crash or SIGKILL can come at any time.                                  *)
Dies(s) ==
  /\ Goes(s, {"connect", "install", "flush", "serving", "remove"}, "dead", 1)
  /\ Fault(s)
  /\ UNCHANGED <<kernel, rules, guarded>>

-----------------------------------------------------------------------------
(* Does a rule of this host redirect what its function sends?              *)
Redirects(s) == (pfcp /\ rules[s]["port"] > 0) \/ rules[s]["peer"] > 0

Decision(s) ==
  IF ct[s] # "none" THEN ct[s] ELSE IF Redirects(s) THEN "redirected" ELSE "direct"

(* The function sends in plaintext: the datagram crosses to the other host. *)
NFSendsDirect(s) ==
  LET o == Other(s)
  IN  /\ Decision(s) = "direct"
      /\ ct' = [ct EXCEPT ![s] = "direct", ![o] = IF @ = "none" THEN "direct" ELSE @]
      /\ exposed' = [exposed EXCEPT ![o] = @ \/ (guarded[o] /\ ct[o] = "none")]
      /\ UNCHANGED <<pfcp, main>>

(* The function's datagram goes to the sidecar's port; without a sidecar   *)
(* there it is lost.                                                       *)
NFSendsRedirected(s) ==
  /\ Decision(s) = "redirected"
  /\ ct' = [ct EXCEPT ![s] = "redirected"]
  /\ UNCHANGED <<pfcp, exposed, main>>

(* The sidecar delivers the peer's datagram to its function. *)
Delivers(s) ==
  /\ pc[s] \in {"serving", "remove"}
  /\ ct' = [ct EXCEPT ![s] = IF @ = "none" /\ rules[s]["exempt"] = 0 THEN "direct" ELSE @]
  /\ UNCHANGED <<pfcp, exposed, main>>

(* An idle entry times out. *)
EntryExpires(s) ==
  /\ ct[s] # "none"
  /\ ct' = [ct EXCEPT ![s] = "none"]
  /\ exposed' = [exposed EXCEPT ![s] = FALSE]
  /\ UNCHANGED <<pfcp, main>>

Next ==
  \E s \in Sides :
    \/ Start(s) \/ connect(s) \/ installRedirectRules(s) \/ flushConntrack(s) \/ Shutdown(s)
    \/ removeRedirectRules(s) \/ Dies(s)
    \/ NFSendsDirect(s) \/ NFSendsRedirected(s) \/ Delivers(s) \/ EntryExpires(s)

Spec == Init /\ [][Next]_vars

-----------------------------------------------------------------------------
(* Every variable keeps its type (main.go, proxy.go). *)
TypeOK ==
  /\ pfcp \in BOOLEAN /\ (~pfcp => RedirectPeer)
  /\ pc \in [Sides -> {"down", "connect", "install", "flush", "serving", "remove", "dead"}]
  /\ step \in [Sides -> 1..(Len(redirectRuleSet) + 1)]
  /\ \A s \in Sides : pc[s] \in {"install", "remove"} => step[s] <= Len(redirectRuleSet)
  /\ faults \in [Sides -> 0..MaxFaults]
  /\ rules \in [Sides -> [Kinds -> Nat]]
  /\ ct \in [Sides -> {"none", "direct", "redirected"}]
  /\ guarded \in [Sides -> BOOLEAN] /\ exposed \in [Sides -> BOOLEAN]

(* From the flush until a clean shutdown, through deaths and restarts of   *)
(* the sidecar, its function's next datagram leaves in plaintext only if   *)
(* the flush left an entry, or the peer's own plaintext made one in that   *)
(* time, and as long as that entry lives: rules, exemption and flush leave *)
(* no other way, and a dead sidecar's rules still block (proxy.go          *)
(* redirectRuleSet, installRedirectRules, flushConntrack).                 *)
LeaksOnlyWhereExposed ==
  \A s \in Sides : guarded[s] /\ Decision(s) = "direct" => exposed[s]

(* removeRedirectRules leaves the conntrack entries of redirected flows,   *)
(* and until such an entry expires its function's datagrams go to a port   *)
(* nobody reads. That cannot come back: after an exit with no fault, once  *)
(* the function's datagrams go directly they do until its sidecar is       *)
(* started again, whatever the other side's sidecar does meanwhile         *)
(* (proxy.go redirectRuleSet, removeRedirectRules).                        *)
StaysRestored ==
  [][\A s \in Sides :
       pc[s] = "down" /\ pc'[s] = "down" /\ faults[s] = 0 /\ Decision(s) = "direct"
         => Decision(s)' = "direct"]_vars

-----------------------------------------------------------------------------
(* "flushed conntrack [...] so replies are re-evaluated by the new rules"  *)
(* (proxy.go): once a sidecar serves, its function's N4 is not sent in     *)
(* plaintext.                                                              *)
NoPlaintextWhileServing == \A s \in Sides : pc[s] = "serving" => Decision(s) = "redirected"
=============================================================================
