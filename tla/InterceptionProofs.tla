------------------------- MODULE InterceptionProofs -------------------------
(* Proofs about Interception, for any number of faults, with and without   *)
(* -redirect-peer, whether or not the flush works.                         *)
EXTENDS Interception, TLAPS

(* The place of a rule in the set. *)
Place(r) == IF r = "exempt" THEN 1 ELSE IF r = "port" THEN 2 ELSE 3

(* Rule r is before place n. *)
Done(r, n) == Place(r) < n

InSet(r) == Place(r) <= Len(redirectRuleSet)

(* Copies of rule r that the running sidecar has installed and not removed *)
Own(s, r) ==
  IF \/ pc[s] \in {"flush", "serving"}
     \/ pc[s] = "install" /\ Done(r, step[s])
     \/ pc[s] = "remove" /\ ~Done(r, step[s])
  THEN 1 ELSE 0

(* While guarded every rule of the set is there, and so it is when main    *)
(* reaches the flush; main has installed what is before its step.          *)
RulesInv ==
  \A s \in Sides : \A r \in Kinds :
    /\ InSet(r) /\ (guarded[s] \/ pc[s] \in {"flush", "serving"}) => rules[s][r] > 0
    /\ pc[s] = "install" /\ Done(r, step[s]) => rules[s][r] > 0

(* A shutdown ends the guard. *)
GuardInv == \A s \in Sides : pc[s] \in {"remove", "down"} => ~guarded[s]

EntryInv == \A s \in Sides : guarded[s] /\ ct[s] = "direct" => exposed[s]

LeftoverInv ==
  \A s \in Sides : \A r \in Kinds :
    /\ rules[s][r] <= faults[s] + Own(s, r)
    /\ ~InSet(r) => rules[s][r] = 0

Inv == TypeOK /\ RulesInv /\ GuardInv /\ EntryInv /\ LeftoverInv

(* The rule set of either kind of option. *)
LEMMA RuleSet ==
  /\ Len(redirectRuleSet) \in {2, 3} /\ (Len(redirectRuleSet) = 3 <=> RedirectPeer)
  /\ redirectRuleSet[1] = "exempt" /\ redirectRuleSet[2] = "port"
  /\ RedirectPeer => redirectRuleSet[3] = "peer"
  BY InterceptionAssumption DEF redirectRuleSet

(* Which rule is at which place. *)
LEMMA RuleAt ==
  ASSUME NEW i \in 1..Len(redirectRuleSet)
  PROVE  redirectRuleSet[i] \in Kinds /\ Place(redirectRuleSet[i]) = i
  <1>1. CASE ~RedirectPeer
    BY <1>1, RuleSet DEF Place, Kinds
  <1>2. CASE RedirectPeer
    <2>0. Len(redirectRuleSet) = 3
      BY <1>2 DEF redirectRuleSet
    <2>1. i = 1 \/ i = 2 \/ i = 3
      BY <2>0
    <2>2. /\ redirectRuleSet[1] = "exempt" /\ redirectRuleSet[2] = "port"
          /\ redirectRuleSet[3] = "peer"
      BY <1>2, RuleSet
    <2> QED
      BY <2>1, <2>2 DEF Place, Kinds
  <1> QED
    BY <1>1, <1>2, InterceptionAssumption

(* A rule has one place. *)
LEMMA Places ==
  /\ \A r \in Kinds : Place(r) \in 1..3 /\ ~Done(r, 1)
  /\ \A q, r \in Kinds : Place(q) = Place(r) => q = r
  BY DEF Kinds, Place, Done

(* The invariant holds at first. *)
LEMMA InitInv == Init => Inv
  <1> SUFFICES ASSUME Init PROVE Inv
    OBVIOUS
  <1>1. TypeOK
    <2>1. pfcp \in BOOLEAN /\ (~pfcp => RedirectPeer)
      BY InterceptionAssumption DEF Init
    <2>2. step \in [Sides -> 1..(Len(redirectRuleSet) + 1)]
      BY RuleSet DEF Init
    <2>3. faults \in [Sides -> 0..MaxFaults]
      BY InterceptionAssumption DEF Init
    <2> QED
      BY <2>1, <2>2, <2>3 DEF Init, TypeOK
  <1>2. RulesInv /\ GuardInv /\ EntryInv /\ LeftoverInv
    BY DEF Init, RulesInv, GuardInv, EntryInv, LeftoverInv, Own
  <1> QED
    BY <1>1, <1>2 DEF Inv

(* main of s goes on without touching rules, guard or the kernel. *)
LEMMA GoesInv ==
  ASSUME Inv, NEW s \in Sides, NEW to, Goes(s, {pc[s]}, to, 1),
         UNCHANGED <<kernel, rules>>,
         faults' \in [Sides -> 0..MaxFaults],
         \A t \in Sides : faults'[t] >= faults[t],
         guarded' \in [Sides -> BOOLEAN],
         \A t \in Sides : guarded'[t] => guarded[t],
         to \in {"connect", "install", "remove", "dead"},
         to = "remove" => ~guarded'[s] /\ pc[s] = "serving",
         to = "dead" => faults'[s] > faults[s],
         to \in {"connect", "install"} => pc[s] \in {"down", "dead", "connect"}
  PROVE  Inv'
  <1>1. pc' = [pc EXCEPT ![s] = to] /\ step' = [step EXCEPT ![s] = 1]
    BY DEF Goes
  <1>2. TypeOK'
    BY <1>1, RuleSet DEF Inv, TypeOK, kernel
  <1>3. RulesInv'
    BY <1>1, Places DEF Inv, TypeOK, RulesInv, InSet, Done
  <1>4. GuardInv' /\ EntryInv'
    BY <1>1 DEF Inv, TypeOK, GuardInv, EntryInv, kernel
  <1>5. LeftoverInv'
    <2> SUFFICES ASSUME NEW t \in Sides, NEW r \in Kinds
                 PROVE  rules[t][r] <= faults'[t] + Own(t, r)' /\ (~InSet(r) => rules[t][r] = 0)
      BY DEF LeftoverInv, InSet
    <2>1. rules[t][r] <= faults[t] + Own(t, r) /\ (~InSet(r) => rules[t][r] = 0)
          /\ rules[t][r] \in Nat /\ faults[t] \in Nat /\ faults'[t] \in Nat
          /\ faults'[t] >= faults[t]
      BY DEF Inv, TypeOK, LeftoverInv
    <2>2. CASE t # s
      <3>1. Own(t, r)' = Own(t, r)
        BY <1>1, <2>2 DEF Inv, TypeOK, Own, Done
      <3> QED
        BY <2>1, <3>1 DEF Own
    <2>3. CASE t = s
      <3>1. CASE to \in {"connect", "install"}
        <4>1. Own(t, r) = 0
          BY <2>3, <3>1 DEF Own
        <4> QED
          BY <2>1, <4>1 DEF Own
      <3>2. CASE to = "remove"
        <4>1. Own(t, r)' = 1
          BY <1>1, <2>3, <3>2, Places DEF Inv, TypeOK, Own, Done
        <4> QED
          BY <2>1, <4>1 DEF Own
      <3>3. CASE to = "dead"
        BY <2>1, <2>3, <3>3 DEF Own
      <3> QED
        BY <3>1, <3>2, <3>3
    <2> QED
      BY <2>2, <2>3
  <1> QED
    BY <1>2, <1>3, <1>4, <1>5 DEF Inv

(* Installing a rule keeps the invariant. *)
LEMMA InstallInv ==
  ASSUME Inv, NEW s \in Sides, installRedirectRules(s)
  PROVE  Inv'
  <1> DEFINE i == step[s]
             q == redirectRuleSet[i]
             last == i = Len(redirectRuleSet)
  <1>1. /\ pc[s] = "install"
        /\ pc' = [pc EXCEPT ![s] = IF last THEN "flush" ELSE "install"]
        /\ step' = [step EXCEPT ![s] = i + 1]
        /\ rules' = [rules EXCEPT ![s][q] = @ + 1]
        /\ UNCHANGED <<kernel, faults, guarded>>
    BY DEF installRedirectRules, Goes
  <1>2. i \in 1..Len(redirectRuleSet) /\ Len(redirectRuleSet) \in Nat
    BY <1>1, RuleSet DEF Inv, TypeOK
  <1>3. q \in Kinds /\ Place(q) = i
    BY <1>2, RuleAt
  <1> HIDE DEF q
  <1>4. TypeOK'
    <2>1. rules' \in [Sides -> [Kinds -> Nat]]
      BY <1>1, <1>3 DEF Inv, TypeOK
    <2>2. step' \in [Sides -> 1..(Len(redirectRuleSet) + 1)]
      BY <1>1, <1>2 DEF Inv, TypeOK
    <2>3. \A t \in Sides : pc'[t] \in {"install", "remove"} => step'[t] <= Len(redirectRuleSet)
      BY <1>1, <1>2 DEF Inv, TypeOK
    <2> QED
      BY <1>1, <2>1, <2>2, <2>3 DEF Inv, TypeOK, kernel
  <1>5. \A t \in Sides, r \in Kinds :
          /\ rules[t][r] \in Nat
          /\ rules'[t][r] = IF t = s /\ r = q THEN rules[t][r] + 1 ELSE rules[t][r]
    BY <1>1, <1>3 DEF Inv, TypeOK
  <1>6. RulesInv'
    <2> SUFFICES ASSUME NEW t \in Sides, NEW r \in Kinds
                 PROVE  /\ InSet(r) /\ (guarded[t] \/ pc'[t] \in {"flush", "serving"})
                             => rules'[t][r] > 0
                        /\ pc'[t] = "install" /\ Done(r, step'[t]) => rules'[t][r] > 0
      BY <1>1 DEF RulesInv, InSet, Done
    <2>1. CASE t # s
      BY <1>1, <1>5, <2>1 DEF Inv, TypeOK, RulesInv
    <2>2. CASE t = s /\ r = q
      BY <1>5, <2>2
    <2>3. CASE t = s /\ r # q
      <3>1. Place(r) # i /\ Place(r) \in 1..3
        BY <1>3, <2>3, Places
      <3>2. Done(r, i) => rules'[t][r] > 0
        BY <1>1, <1>5, <2>3 DEF Inv, RulesInv
      <3>3. InSet(r) /\ guarded[t] => rules'[t][r] > 0
        BY <1>5, <2>3 DEF Inv, RulesInv
      <3>4. pc'[t] \in {"flush", "serving"} => last
        BY <1>1, <2>3 DEF Inv, TypeOK
      <3>5. InSet(r) /\ last => Done(r, i)
        BY <1>2, <3>1 DEF InSet, Done
      <3>6. Done(r, step'[t]) => Done(r, i)
        BY <1>1, <1>2, <2>3, <3>1 DEF Inv, TypeOK, Done
      <3> QED
        BY <3>2, <3>3, <3>4, <3>5, <3>6
    <2> QED
      BY <2>1, <2>2, <2>3
  <1>7. GuardInv' /\ EntryInv'
    BY <1>1 DEF Inv, TypeOK, GuardInv, EntryInv, kernel
  <1>8. LeftoverInv'
    <2> SUFFICES ASSUME NEW t \in Sides, NEW r \in Kinds
                 PROVE  /\ rules'[t][r] <= faults[t] + Own(t, r)'
                        /\ ~InSet(r) => rules'[t][r] = 0
      BY <1>1 DEF LeftoverInv, InSet
    <2>1. /\ rules[t][r] <= faults[t] + Own(t, r) /\ (~InSet(r) => rules[t][r] = 0)
          /\ faults[t] \in Nat
      BY DEF Inv, TypeOK, LeftoverInv
    <2>2. CASE t # s
      <3>1. Own(t, r)' = Own(t, r)
        BY <1>1, <2>2 DEF Inv, TypeOK, Own, Done
      <3> QED
        BY <1>5, <2>1, <2>2, <3>1
    <2>3. CASE t = s /\ r = q
      <3>1. Own(t, r) = 0 /\ InSet(r)
        BY <1>1, <1>2, <1>3, <2>3 DEF Own, Done, InSet
      <3>2. Own(t, r)' = 1
        BY <1>1, <1>2, <1>3, <2>3 DEF Inv, TypeOK, Own, Done
      <3> QED
        BY <1>5, <2>1, <2>3, <3>1, <3>2
    <2>4. CASE t = s /\ r # q
      <3>1. Own(t, r) \in {0, 1} /\ Own(t, r)' \in {0, 1}
        BY DEF Own
      <3>2. Own(t, r) = 1 => Done(r, i)
        BY <1>1, <2>4 DEF Own
      <3>3. Done(r, i) => Done(r, i + 1)
        BY <1>2, Places DEF Done
      <3>4. Done(r, i + 1) => Own(t, r)' = 1
        BY <1>1, <2>4 DEF Inv, TypeOK, Own, Done
      <3> QED
        BY <1>5, <2>1, <2>4, <3>1, <3>2, <3>3, <3>4
    <2> QED
      BY <2>2, <2>3, <2>4
  <1> QED
    BY <1>4, <1>6, <1>7, <1>8 DEF Inv

(* Removing a rule keeps it. *)
LEMMA RemoveInv ==
  ASSUME Inv, NEW s \in Sides, removeRedirectRules(s)
  PROVE  Inv'
  <1> DEFINE i == step[s]
             q == redirectRuleSet[i]
             last == i = Len(redirectRuleSet)
  <1>1. /\ pc[s] = "remove"
        /\ pc' = [pc EXCEPT ![s] = IF last THEN "down" ELSE "remove"]
        /\ step' = [step EXCEPT ![s] = i + 1]
        /\ UNCHANGED <<kernel, guarded>>
    BY DEF removeRedirectRules, removed, Goes
  <1> DEFINE Deleted == /\ rules' = [rules EXCEPT ![s][q] = IF @ > 0 THEN @ - 1 ELSE 0]
                        /\ UNCHANGED faults
             Failed == /\ faults[s] < MaxFaults /\ faults' = [faults EXCEPT ![s] = @ + 1]
                       /\ UNCHANGED rules
  <1>0. Deleted \/ Failed
    BY DEF removeRedirectRules, Fault
  <1>2. i \in 1..Len(redirectRuleSet) /\ Len(redirectRuleSet) \in Nat
    BY <1>1, RuleSet DEF Inv, TypeOK
  <1>3. q \in Kinds /\ Place(q) = i
    BY <1>2, RuleAt
  <1> HIDE DEF q
  <1>4. TypeOK'
    <2>1. rules' \in [Sides -> [Kinds -> Nat]]
      <3>1. CASE Deleted
        BY <1>3, <3>1 DEF Inv, TypeOK
      <3>2. CASE UNCHANGED rules
        BY <3>2 DEF Inv, TypeOK
      <3> QED
        BY <1>0, <3>1, <3>2
    <2>2. step' \in [Sides -> 1..(Len(redirectRuleSet) + 1)]
      BY <1>1, <1>2 DEF Inv, TypeOK
    <2>3. \A t \in Sides : pc'[t] \in {"install", "remove"} => step'[t] <= Len(redirectRuleSet)
      BY <1>1, <1>2 DEF Inv, TypeOK
    <2>4. faults' \in [Sides -> 0..MaxFaults]
      <3>1. CASE Failed
        BY <3>1, InterceptionAssumption DEF Inv, TypeOK
      <3>2. CASE UNCHANGED faults
        BY <3>2 DEF Inv, TypeOK
      <3> QED
        BY <1>0, <3>1, <3>2
    <2> QED
      BY <1>1, <2>1, <2>2, <2>3, <2>4 DEF Inv, TypeOK, kernel
  <1>5. \A t \in Sides, r \in Kinds :
          /\ rules[t][r] \in Nat /\ faults[t] \in Nat /\ faults'[t] \in Nat
          /\ rules'[t][r] \in Nat /\ rules'[t][r] <= rules[t][r] /\ faults'[t] >= faults[t]
          /\ t # s \/ r # q => rules'[t][r] = rules[t][r]
          /\ t = s /\ r = q /\ rules[t][r] > 0
               => rules'[t][r] = rules[t][r] - 1 \/ faults'[t] = faults[t] + 1
    <2> TAKE t \in Sides, r \in Kinds
    <2>0. rules[t][r] \in Nat /\ faults[t] \in Nat
      BY DEF Inv, TypeOK
    <2>1. CASE Deleted
      <3>1. rules'[t][r] = IF t = s /\ r = q
                           THEN IF rules[t][r] > 0 THEN rules[t][r] - 1 ELSE 0
                           ELSE rules[t][r]
        BY <1>3, <2>1 DEF Inv, TypeOK
      <3> QED
        BY <2>0, <2>1, <3>1
    <2>2. CASE Failed
      <3>1. faults'[t] = IF t = s THEN faults[t] + 1 ELSE faults[t]
        BY <2>2 DEF Inv, TypeOK
      <3> QED
        BY <2>0, <2>2, <3>1
    <2> QED
      BY <1>0, <2>1, <2>2
  <1> HIDE DEF Deleted, Failed
  <1>6. RulesInv'
    BY <1>1, <1>5 DEF Inv, TypeOK, RulesInv, GuardInv, InSet, Done
  <1>7. GuardInv' /\ EntryInv'
    BY <1>1 DEF Inv, TypeOK, GuardInv, EntryInv, kernel
  <1>8. LeftoverInv'
    <2> SUFFICES ASSUME NEW t \in Sides, NEW r \in Kinds
                 PROVE  /\ rules'[t][r] <= faults'[t] + Own(t, r)'
                        /\ ~InSet(r) => rules'[t][r] = 0
      BY DEF LeftoverInv, InSet
    <2>1. rules[t][r] <= faults[t] + Own(t, r) /\ (~InSet(r) => rules[t][r] = 0)
      BY DEF Inv, LeftoverInv
    <2>2. CASE t # s
      <3>1. Own(t, r)' = Own(t, r) /\ Own(t, r) \in Nat
        BY <1>1, <2>2 DEF Inv, TypeOK, Own, Done
      <3> QED
        BY <1>5, <2>1, <2>2, <3>1
    <2>3. CASE t = s /\ r = q
      <3>1. Own(t, r) = 1 /\ Own(t, r)' \in Nat
        BY <1>1, <1>2, <1>3, <2>3 DEF Own, Done
      <3> QED
        BY <1>5, <2>1, <2>3, <3>1
    <2>4. CASE t = s /\ r # q
      <3>1. Place(r) # i /\ Place(r) \in 1..3
        BY <1>3, <2>4, Places
      <3>2. CASE InSet(r)
        <4>1. Own(t, r)' = Own(t, r) /\ Own(t, r) \in Nat
          BY <1>1, <1>2, <2>4, <3>1, <3>2 DEF Inv, TypeOK, Own, Done, InSet
        <4> QED
          BY <1>5, <2>1, <2>4, <3>2, <4>1
      <3>3. CASE ~InSet(r)
        BY <1>5, <2>1, <2>4, <3>3 DEF Own
      <3> QED
        BY <3>2, <3>3
    <2> QED
      BY <2>2, <2>3, <2>4
  <1> QED
    BY <1>4, <1>6, <1>7, <1>8 DEF Inv

(* The flush keeps it, whether it works or not. *)
LEMMA FlushInv ==
  ASSUME Inv, NEW s \in Sides, flushConntrack(s)
  PROVE  Inv'
  <1>1. /\ pc[s] = "flush" /\ pc' = [pc EXCEPT ![s] = "serving"]
        /\ step' = [step EXCEPT ![s] = 1]
        /\ ct' \in {ct, [ct EXCEPT ![s] = "none"]}
        /\ exposed' = [exposed EXCEPT ![s] = (ct'[s] = "direct")]
        /\ guarded' = [guarded EXCEPT ![s] = TRUE]
        /\ UNCHANGED <<pfcp, faults, rules>>
    <2>1. \/ ct' = [ct EXCEPT ![s] = "none"]
          \/ ct' = [ct EXCEPT ![s] = ct[s]]
      BY DEF flushConntrack
    <2>2. ct = [ct EXCEPT ![s] = ct[s]]
      BY DEF Inv, TypeOK
    <2> QED
      BY <2>1, <2>2 DEF flushConntrack, Goes
  <1>2. TypeOK'
    <2>1. step' \in [Sides -> 1..(Len(redirectRuleSet) + 1)]
      BY <1>1, RuleSet DEF Inv, TypeOK
    <2>2. ct' \in [Sides -> {"none", "direct", "redirected"}]
      BY <1>1 DEF Inv, TypeOK
    <2>3. exposed' \in [Sides -> BOOLEAN] /\ guarded' \in [Sides -> BOOLEAN]
      BY <1>1 DEF Inv, TypeOK
    <2>4. \A t \in Sides : pc'[t] \in {"install", "remove"} => step'[t] <= Len(redirectRuleSet)
      BY <1>1 DEF Inv, TypeOK
    <2> QED
      BY <1>1, <2>1, <2>2, <2>3, <2>4 DEF Inv, TypeOK
  <1>3. RulesInv'
    BY <1>1 DEF Inv, TypeOK, RulesInv, InSet, Done
  <1>4. GuardInv'
    BY <1>1 DEF Inv, TypeOK, GuardInv
  <1>5. EntryInv'
    BY <1>1 DEF Inv, TypeOK, EntryInv
  <1>6. LeftoverInv'
    <2>1. \A t \in Sides, r \in Kinds : Own(t, r)' = Own(t, r)
      BY <1>1 DEF Inv, TypeOK, Own, Done
    <2> QED
      BY <1>1, <2>1 DEF Inv, LeftoverInv, InSet
  <1> QED
    BY <1>2, <1>3, <1>4, <1>5, <1>6 DEF Inv

(* What the kernel decides while every rule is there. *)
LEMMA GuardedRedirects ==
  ASSUME Inv, NEW s \in Sides, guarded[s]
  PROVE  Redirects(s)
  <1>1. CASE pfcp
    <2>1. "port" \in Kinds /\ InSet("port")
      BY RuleSet DEF Kinds, InSet, Place
    <2> QED
      BY <1>1, <2>1 DEF Inv, RulesInv, Redirects
  <1>2. CASE ~pfcp
    <2>1. Len(redirectRuleSet) = 3
      BY <1>2 DEF Inv, TypeOK, redirectRuleSet
    <2>2. "peer" \in Kinds /\ InSet("peer")
      BY <2>1 DEF Kinds, InSet, Place
    <2> QED
      BY <2>2 DEF Inv, RulesInv, Redirects
  <1> QED
    BY <1>1, <1>2

(* Packets and timeouts keep it. *)
LEMMA KernelInv ==
  ASSUME Inv, NEW s \in Sides,
         NFSendsDirect(s) \/ NFSendsRedirected(s) \/ Delivers(s) \/ EntryExpires(s)
  PROVE  Inv'
  <1>1. UNCHANGED <<pfcp, pc, step, faults, rules, guarded>>
    BY DEF NFSendsDirect, NFSendsRedirected, Delivers, EntryExpires, main
  <1>2. RulesInv' /\ GuardInv' /\ LeftoverInv'
    BY <1>1 DEF Inv, RulesInv, GuardInv, LeftoverInv, Own, Done, InSet
  <1>3. TypeOK' /\ EntryInv'
    <2>1. SUFFICES /\ ct' \in [Sides -> {"none", "direct", "redirected"}]
                   /\ exposed' \in [Sides -> BOOLEAN] /\ EntryInv'
      BY <1>1 DEF Inv, TypeOK
    <2>2. CASE NFSendsDirect(s)
      <3>1. Other(s) \in Sides /\ Other(s) # s
        BY DEF Other, Sides
      <3>2. /\ ct' = [ct EXCEPT ![s] = "direct",
                                ![Other(s)] = IF @ = "none" THEN "direct" ELSE @]
            /\ exposed' = [exposed EXCEPT ![Other(s)] =
                             @ \/ (guarded[Other(s)] /\ ct[Other(s)] = "none")]
        BY <2>2 DEF NFSendsDirect
      <3>3. ct' \in [Sides -> {"none", "direct", "redirected"}]
        BY <3>1, <3>2 DEF Inv, TypeOK
      <3>4. exposed' \in [Sides -> BOOLEAN]
        BY <3>1, <3>2 DEF Inv, TypeOK
      <3>5. guarded[s] => ct[s] = "direct"
        BY <2>2, GuardedRedirects DEF NFSendsDirect, Decision, Inv
      <3>6. ASSUME NEW t \in Sides, guarded[t], ct'[t] = "direct" PROVE exposed'[t]
        <4>1. CASE t = s
          BY <1>1, <3>1, <3>2, <3>5, <3>6, <4>1 DEF Inv, TypeOK, EntryInv
        <4>2. CASE t = Other(s) /\ ct[t] = "none"
          BY <3>1, <3>2, <3>6, <4>2 DEF Inv, TypeOK
        <4>3. CASE t = Other(s) /\ ct[t] # "none"
          <5>1. ct[t] = "direct"
            BY <3>1, <3>2, <3>6, <4>3 DEF Inv, TypeOK
          <5> QED
            BY <3>1, <3>2, <3>6, <4>3, <5>1 DEF Inv, TypeOK, EntryInv
        <4> QED
          BY <4>1, <4>2, <4>3 DEF Other, Sides
      <3> QED
        BY <1>1, <3>3, <3>4, <3>6 DEF EntryInv
    <2>3. CASE NFSendsRedirected(s)
      BY <1>1, <2>3 DEF NFSendsRedirected, Inv, TypeOK, EntryInv
    <2>4. CASE Delivers(s)
      <3>1. "exempt" \in Kinds /\ InSet("exempt")
        BY RuleSet DEF Kinds, InSet, Place
      <3>2. guarded[s] => rules[s]["exempt"] > 0
        BY <3>1 DEF Inv, RulesInv
      <3>3. /\ ct' = [ct EXCEPT ![s] = IF @ = "none" /\ rules[s]["exempt"] = 0
                                       THEN "direct" ELSE @]
            /\ exposed' = exposed
        BY <2>4 DEF Delivers
      <3>4. \A t \in Sides : guarded[t] => ct'[t] = ct[t]
        BY <3>1, <3>2, <3>3 DEF Inv, TypeOK
      <3> QED
        BY <1>1, <3>3, <3>4 DEF Inv, TypeOK, EntryInv
    <2>5. CASE EntryExpires(s)
      BY <1>1, <2>5 DEF EntryExpires, Inv, TypeOK, EntryInv
    <2> QED
      BY <2>2, <2>3, <2>4, <2>5
  <1> QED
    BY <1>2, <1>3 DEF Inv

(* Starting, connecting, shutting down and dying keep it. *)
LEMMA MainInv ==
  ASSUME Inv, NEW s \in Sides, Start(s) \/ connect(s) \/ Shutdown(s) \/ Dies(s)
  PROVE  Inv'
  <1>0. /\ faults \in [Sides -> 0..MaxFaults] /\ \A t \in Sides : faults[t] >= faults[t]
        /\ guarded \in [Sides -> BOOLEAN]
    BY InterceptionAssumption DEF Inv, TypeOK
  <1>1. CASE Start(s) \/ connect(s)
    <2>1. PICK to \in {"connect", "install"} :
            /\ Goes(s, {pc[s]}, to, 1) /\ pc[s] \in {"down", "dead", "connect"}
            /\ UNCHANGED <<kernel, faults, rules, guarded>>
      BY <1>1 DEF Start, connect, Goes
    <2> QED
      BY <1>0, <2>1, GoesInv
  <1>2. CASE Shutdown(s)
    <2>1. /\ Goes(s, {pc[s]}, "remove", 1) /\ pc[s] = "serving"
          /\ guarded' = [guarded EXCEPT ![s] = FALSE]
          /\ UNCHANGED <<kernel, faults, rules>>
      BY <1>2 DEF Shutdown, Goes
    <2>2. /\ guarded' \in [Sides -> BOOLEAN] /\ ~guarded'[s]
          /\ \A t \in Sides : guarded'[t] => guarded[t]
      BY <2>1 DEF Inv, TypeOK
    <2> QED
      BY <1>0, <2>1, <2>2, GoesInv
  <1>3. CASE Dies(s)
    <2>1. /\ Goes(s, {pc[s]}, "dead", 1)
          /\ faults[s] < MaxFaults /\ faults' = [faults EXCEPT ![s] = @ + 1]
          /\ UNCHANGED <<kernel, rules, guarded>>
      BY <1>3 DEF Dies, Goes, Fault
    <2>2. /\ faults' \in [Sides -> 0..MaxFaults] /\ faults'[s] > faults[s]
          /\ \A t \in Sides : faults'[t] >= faults[t]
      BY <2>1, InterceptionAssumption DEF Inv, TypeOK
    <2> QED
      BY <1>0, <2>1, <2>2, GoesInv
  <1> QED
    BY <1>1, <1>2, <1>3

(* So does a step that changes nothing. *)
LEMMA StutterInv ==
  ASSUME Inv, UNCHANGED vars
  PROVE  Inv'
  BY DEF vars, Inv, TypeOK, RulesInv, GuardInv, EntryInv, LeftoverInv, Own, Done, InSet

(* The invariant of both hosts (main.go, proxy.go). *)
THEOREM Invariance == Spec => []Inv
  <1>1. Inv /\ [Next]_vars => Inv'
    BY MainInv, InstallInv, FlushInv, RemoveInv, KernelInv, StutterInv DEF Next
  <1> QED
    BY InitInv, <1>1, PTL DEF Spec

(* While guarded, plaintext needs an entry the flush left or the peer's    *)
(* plaintext made, for any number of deaths and restarts on both hosts     *)
(* (proxy.go installRedirectRules, flushConntrack).                        *)
THEOREM LeaksExplained == Spec => []LeaksOnlyWhereExposed
  <1>1. Inv => LeaksOnlyWhereExposed
    <2> SUFFICES ASSUME Inv, NEW s \in Sides, guarded[s], Decision(s) = "direct"
                 PROVE  exposed[s]
      BY DEF LeaksOnlyWhereExposed
    <2>1. ct[s] = "direct"
      BY GuardedRedirects DEF Decision, Inv, TypeOK
    <2> QED
      BY <2>1 DEF Inv, EntryInv
  <1> QED
    BY <1>1, Invariance, PTL

(* After an exit with no fault, a function whose datagrams go directly     *)
(* keeps sending them directly until its sidecar is started again          *)
(* (proxy.go removeRedirectRules).                                         *)
THEOREM RestoredForGood == Spec => StaysRestored
  <1> DEFINE Restored(s) == /\ pc[s] = "down" /\ pc'[s] = "down" /\ faults[s] = 0
                            /\ Decision(s) = "direct"
  <1>1. ASSUME Inv, [Next]_vars, NEW s \in Sides, Restored(s)
        PROVE  Decision(s)' = "direct"
    <2>1. /\ ~Redirects(s) /\ ct[s] \in {"none", "direct"}
          /\ \A r \in Kinds : rules[s][r] = 0
      <3>1. \A r \in Kinds : rules[s][r] \in Nat /\ rules[s][r] <= faults[s] + Own(s, r)
        BY <1>1 DEF Inv, TypeOK, LeftoverInv
      <3>2. \A r \in Kinds : Own(s, r) = 0
        BY <1>1 DEF Own
      <3>3. \A r \in Kinds : rules[s][r] = 0
        BY <1>1, <3>1, <3>2
      <3>4. ~Redirects(s)
        BY <3>3 DEF Redirects, Kinds
      <3> QED
        BY <1>1, <3>3, <3>4 DEF Decision, Inv, TypeOK
    <2>2. UNCHANGED pfcp /\ rules'[s] = rules[s]
      <3>1. CASE \E t \in Sides : installRedirectRules(t)
        BY <1>1, <3>1 DEF installRedirectRules, Goes, kernel, Inv, TypeOK
      <3>2. CASE \E t \in Sides : removeRedirectRules(t)
        BY <1>1, <3>2 DEF removeRedirectRules, Goes, kernel, Inv, TypeOK
      <3> QED
        BY <1>1, <3>1, <3>2
        DEF Next, Start, connect, flushConntrack, Shutdown, Dies, NFSendsDirect,
            NFSendsRedirected, Delivers, EntryExpires, kernel, main, vars
    <2>3. ct'[s] \in {"none", "direct"}
      <3>1. CASE \E t \in Sides : NFSendsDirect(t)
        <4>1. PICK t \in Sides : NFSendsDirect(t)
          BY <3>1
        <4>2. Other(t) \in Sides
          BY DEF Other, Sides
        <4> QED
          BY <1>1, <2>1, <4>1, <4>2 DEF NFSendsDirect, Inv, TypeOK
      <3>2. CASE \E t \in Sides : NFSendsRedirected(t)
        BY <1>1, <2>1, <3>2 DEF NFSendsRedirected, Inv, TypeOK
      <3>3. CASE \E t \in Sides : flushConntrack(t)
        BY <1>1, <2>1, <3>3 DEF flushConntrack, Inv, TypeOK
      <3>4. CASE \E t \in Sides : Delivers(t) \/ EntryExpires(t)
        BY <1>1, <2>1, <3>4 DEF Delivers, EntryExpires, Inv, TypeOK
      <3> QED
        BY <1>1, <2>1, <3>1, <3>2, <3>3, <3>4
        DEF Next, Start, connect, installRedirectRules, removeRedirectRules, Shutdown, Dies,
            kernel, vars
    <2> QED
      BY <2>1, <2>2, <2>3 DEF Decision, Redirects
  <1>2. Inv /\ [Next]_vars
          => [\A s \in Sides :
                pc[s] = "down" /\ pc'[s] = "down" /\ faults[s] = 0 /\ Decision(s) = "direct"
                  => Decision(s)' = "direct"]_vars
    BY <1>1, Zenon
  <1> QED
    BY <1>2, Invariance, PTL DEF Spec, StaysRestored
=============================================================================
