-------------------------- MODULE LifecycleProofs --------------------------
(***************************************************************************)
(* What main's order of steps and deferred calls guarantees, for any       *)
(* number of deaths and failed removals: where PFCP can be taken with      *)
(* nowhere to go, where it can pass in the clear, and that a clean exit    *)
(* leaves only what deaths and failed removals left.                       *)
(***************************************************************************)
EXTENDS Lifecycle, SequenceTheorems, TLAPS

Calls == {"identity", "tun", "session", "socket", "rules", "queue"}

Stages == {"identity", "session", "rules", "serve"}
            \cup IF opt.mode = "socket" THEN {"socket"} ELSE {"tun", "queue"}

(* The calls deferred when main is at a step, by mode, and with or without *)
(* rules to install.                                                       *)
Stack(s) ==
  IF s = "identity" THEN <<>>
  ELSE IF opt.mode = "socket"
    THEN IF s = "session" THEN <<"identity">>
         ELSE IF s = "socket" THEN <<"session", "identity">>
         ELSE IF s = "serve" /\ opt.install THEN <<"rules", "socket", "session", "identity">>
         ELSE <<"socket", "session", "identity">>
    ELSE IF s = "tun" THEN <<"identity">>
         ELSE IF s = "session" THEN <<"tun", "identity">>
         ELSE IF s = "queue" /\ opt.install THEN <<"rules", "session", "tun", "identity">>
         ELSE IF s = "serve"
           THEN IF opt.install THEN <<"queue", "rules", "session", "tun", "identity">>
                               ELSE <<"queue", "session", "tun", "identity">>
         ELSE <<"session", "tun", "identity">>

(* The calls on it. *)
On(s) ==
  IF s = "identity" THEN {}
  ELSE IF opt.mode = "socket"
    THEN IF s = "session" THEN {"identity"}
         ELSE IF s = "socket" THEN {"session", "identity"}
         ELSE IF s = "serve" /\ opt.install THEN {"rules", "socket", "session", "identity"}
         ELSE {"socket", "session", "identity"}
    ELSE IF s = "tun" THEN {"identity"}
         ELSE IF s = "session" THEN {"tun", "identity"}
         ELSE IF s = "queue" /\ opt.install THEN {"rules", "session", "tun", "identity"}
         ELSE IF s = "serve"
           THEN IF opt.install THEN {"queue", "rules", "session", "tun", "identity"}
                               ELSE {"queue", "session", "tun", "identity"}
         ELSE {"session", "tun", "identity"}

(* Where main is, and what it has deferred there; while it returns, what   *)
(* is left of it.                                                          *)
At(s) == /\ deferred = Stack(s)
         /\ pc = s \/ pc = "return" \/ (~Running /\ s = "identity")

StackInv == \E s \in Stages : At(s)

Removing == pc = "return" /\ deferred # <<>> /\ Head(deferred) = "rules"

(* The place of a rule in the set that main installs; 9 if it is not in it. *)
Place(r) ==
  IF opt.mode = "socket"
    THEN CASE r = "notrack" -> 1 [] r = "return" -> 2 [] r = "dport" -> 3
           [] r = "sport" -> 4 [] OTHER -> 9
    ELSE CASE r = "mark" -> 1 [] r = "dport" -> 2 [] r = "sport" -> 3 [] OTHER -> 9

Elems(q) == {q[i] : i \in DOMAIN q}

(* Has the process that runs a copy of rule r in the tables? *)
Own(r) ==
  \/ pc = "rules" /\ Place(r) <= done
  \/ "rules" \in Elems(deferred) /\ Place(r) # 9 /\ (Removing => done < Place(r))

(* Rule commands are counted while they are given. *)
DoneInv == done < RuleCount
CountInv == done # 0 => Removing \/ (pc = "rules" /\ opt.install)

(* Between the process's own copy and the leftovers of deaths and failed   *)
(* removals there is nothing else in the tables.                           *)
CopiesInv ==
  \A r \in Rules : /\ Own(r) => rules[r] \in 1..(deaths + failed[r] + 1)
                   /\ ~Own(r) => rules[r] \in 0..(deaths + failed[r])

RulesInv == DoneInv /\ CountInv /\ CopiesInv

(* What a sidecar that has served guards stays matched until it shuts down. *)
GuardInv ==
  guard => /\ pc \notin {"down", "return"}
           /\ opt.install => \A p \in Ports : rules[p] > 0

Inv == TypeOK /\ StackInv /\ RulesInv /\ GuardInv

-----------------------------------------------------------------------------
(* A sequence is its head before its tail. *)
LEMMA HeadBeforeTail ==
  ASSUME NEW S, NEW r \in Seq(S), r # <<>>
  PROVE  <<Head(r)>> \o Tail(r) = r
<1>. DEFINE t == <<Head(r)>> \o Tail(r)
<1>1. /\ <<Head(r)>> \in Seq(S) /\ Tail(r) \in Seq(S)
      /\ Len(Tail(r)) = Len(r) - 1 /\ Len(r) \in Nat \ {0}
  OBVIOUS
<1>2. t \in Seq(S) /\ Len(t) = Len(r)
  BY <1>1
<1>3. \A i \in 1..Len(t) : t[i] = r[i]
  BY <1>1, <1>2
<1>. QED  BY <1>2, <1>3, SeqEqual

(* The stacks hold calls, and a call is taken off by Tail. *)
LEMMA StackTyped == ASSUME NEW s PROVE Stack(s) \in Seq(Calls)
<1>1. <<>> \in Seq(Calls)
  OBVIOUS
<1>2. /\ <<"identity">> \in Seq(Calls)
      /\ <<"session", "identity">> \in Seq(Calls)
      /\ <<"tun", "identity">> \in Seq(Calls)
  BY DEF Calls
<1>3. /\ <<"socket", "session", "identity">> \in Seq(Calls)
      /\ <<"session", "tun", "identity">> \in Seq(Calls)
  BY DEF Calls
<1>4. /\ <<"rules", "socket", "session", "identity">> \in Seq(Calls)
      /\ <<"rules", "session", "tun", "identity">> \in Seq(Calls)
      /\ <<"queue", "session", "tun", "identity">> \in Seq(Calls)
  BY DEF Calls
<1>5. <<"queue", "rules", "session", "tun", "identity">> \in Seq(Calls)
  BY DEF Calls
<1>. QED  BY <1>1, <1>2, <1>3, <1>4, <1>5 DEF Stack

(* The step that comes next. *)
LEMMA Order ==
  /\ opt.mode = "socket" =>
       /\ After("identity") = "session" /\ After("session") = "socket"
       /\ After("socket") = "rules" /\ After("rules") = "serve"
  /\ opt.mode # "socket" =>
       /\ After("identity") = "tun" /\ After("tun") = "session"
       /\ After("session") = "rules" /\ After("rules") = "queue"
       /\ After("queue") = "serve"
<1>. DEFINE s == <<"identity", "session", "socket", "rules", "serve">>
            q == <<"identity", "tun", "session", "rules", "queue", "serve">>
<1>1. ASSUME opt.mode = "socket"
      PROVE  /\ After("identity") = "session" /\ After("session") = "socket"
             /\ After("socket") = "rules" /\ After("rules") = "serve"
  <2>1. /\ (CHOOSE i \in DOMAIN s : s[i] = "identity") = 1
        /\ (CHOOSE i \in DOMAIN s : s[i] = "session") = 2
        /\ (CHOOSE i \in DOMAIN s : s[i] = "socket") = 3
        /\ (CHOOSE i \in DOMAIN s : s[i] = "rules") = 4
    OBVIOUS
  <2>. QED  BY <1>1, <2>1 DEF After, steps
<1>2. ASSUME opt.mode # "socket"
      PROVE  /\ After("identity") = "tun" /\ After("tun") = "session"
             /\ After("session") = "rules" /\ After("rules") = "queue"
             /\ After("queue") = "serve"
  <2>1. /\ (CHOOSE i \in DOMAIN q : q[i] = "identity") = 1
        /\ (CHOOSE i \in DOMAIN q : q[i] = "tun") = 2
        /\ (CHOOSE i \in DOMAIN q : q[i] = "session") = 3
        /\ (CHOOSE i \in DOMAIN q : q[i] = "rules") = 4
        /\ (CHOOSE i \in DOMAIN q : q[i] = "queue") = 5
    OBVIOUS
  <2>. QED  BY <1>2, <2>1 DEF After, steps
<1>. QED  BY <1>1, <1>2

(* What main takes at a stage is on top of the stack of the next.          *)
LEMMA StackGrows ==
  ASSUME NEW s \in Stages \ {"serve"}
  PROVE  /\ After(s) \in Stages \ {"identity"}
         /\ s # "rules" \/ opt.install
              => /\ Stack(After(s)) # <<>>
                 /\ Head(Stack(After(s))) = s /\ Tail(Stack(After(s))) = Stack(s)
         /\ s = "rules" /\ ~opt.install => Stack(After(s)) = Stack(s)
<1>1. CASE opt.mode = "socket"
  <2>1. After(s) \in Stages \ {"identity"}
    BY <1>1, Order DEF Stages
  <2>2. CASE s = "identity"
    BY <1>1, <2>1, <2>2, Order DEF Stack
  <2>3. CASE s = "session"
    BY <1>1, <2>1, <2>3, Order DEF Stack
  <2>4. CASE s = "socket"
    BY <1>1, <2>1, <2>4, Order DEF Stack
  <2>5. CASE s = "rules"
    BY <1>1, <2>1, <2>5, Order DEF Stack
  <2>. QED  BY <1>1, <2>1, <2>2, <2>3, <2>4, <2>5 DEF Stages
<1>2. CASE opt.mode # "socket"
  <2>1. After(s) \in Stages \ {"identity"}
    BY <1>2, Order DEF Stages
  <2>2. CASE s = "identity"
    BY <1>2, <2>1, <2>2, Order DEF Stack
  <2>3. CASE s = "session"
    BY <1>2, <2>1, <2>3, Order DEF Stack
  <2>4. CASE s = "tun"
    BY <1>2, <2>1, <2>4, Order DEF Stack
  <2>5. CASE s = "rules"
    BY <1>2, <2>1, <2>5, Order DEF Stack
  <2>6. CASE s = "queue"
    BY <1>2, <2>1, <2>6, Order DEF Stack
  <2>. QED  BY <1>2, <2>1, <2>2, <2>3, <2>4, <2>5, <2>6 DEF Stages
<1>. QED  BY <1>1, <1>2

(* What is left of a stack is a stack. *)
LEMMA StackTails ==
  ASSUME NEW s \in Stages, Stack(s) # <<>>
  PROVE  \E t \in Stages : Tail(Stack(s)) = Stack(t)
<1>1. s # "identity"
  BY DEF Stack
<1>2. CASE opt.mode = "socket"
  <2>1. CASE s = "serve"
    <3>1. /\ opt.install => Tail(Stack(s)) = Stack("rules")
          /\ ~opt.install => Tail(Stack(s)) = Stack("socket")
      BY <1>2, <2>1 DEF Stack
    <3>. QED  BY <1>2, <3>1 DEF Stages
  <2>2. CASE s # "serve"
    <3>1. /\ s = "session" => Tail(Stack(s)) = Stack("identity")
          /\ s = "socket" => Tail(Stack(s)) = Stack("session")
          /\ s = "rules" => Tail(Stack(s)) = Stack("socket")
      BY <1>2 DEF Stack
    <3>. QED  BY <1>1, <1>2, <2>2, <3>1 DEF Stages
  <2>. QED  BY <2>1, <2>2
<1>3. CASE opt.mode # "socket"
  <2>1. CASE s = "queue"
    <3>1. /\ opt.install => Tail(Stack(s)) = Stack("rules")
          /\ ~opt.install => Tail(Stack(s)) = Stack("session")
      BY <1>3, <2>1 DEF Stack
    <3>. QED  BY <1>3, <3>1 DEF Stages
  <2>2. CASE s # "queue"
    <3>1. /\ s = "tun" => Tail(Stack(s)) = Stack("identity")
          /\ s = "session" => Tail(Stack(s)) = Stack("tun")
          /\ s = "rules" => Tail(Stack(s)) = Stack("session")
          /\ s = "serve" => Tail(Stack(s)) = Stack("queue")
      BY <1>3 DEF Stack
    <3>. QED  BY <1>1, <1>3, <2>2, <3>1 DEF Stages
  <2>. QED  BY <2>1, <2>2
<1>. QED  BY <1>2, <1>3

(* Which calls are on which stack. *)
LEMMA StackSet == ASSUME NEW s PROVE Elems(Stack(s)) = On(s)
<1>1. Elems(<<>>) = {}
  BY DEF Elems
<1>2. /\ Elems(<<"identity">>) = {"identity"}
      /\ Elems(<<"session", "identity">>) = {"session", "identity"}
      /\ Elems(<<"tun", "identity">>) = {"tun", "identity"}
  BY DEF Elems
<1>3. /\ Elems(<<"socket", "session", "identity">>) = {"socket", "session", "identity"}
      /\ Elems(<<"session", "tun", "identity">>) = {"session", "tun", "identity"}
  BY DEF Elems
<1>4. /\ Elems(<<"rules", "socket", "session", "identity">>)
           = {"rules", "socket", "session", "identity"}
      /\ Elems(<<"rules", "session", "tun", "identity">>)
           = {"rules", "session", "tun", "identity"}
      /\ Elems(<<"queue", "session", "tun", "identity">>)
           = {"queue", "session", "tun", "identity"}
  BY DEF Elems
<1>5. Elems(<<"queue", "rules", "session", "tun", "identity">>)
        = {"queue", "rules", "session", "tun", "identity"}
  BY DEF Elems
<1>. QED  BY <1>1, <1>2, <1>3, <1>4, <1>5 DEF Stack, On

(* A sequence has its first element and those of its tail. *)
LEMMA HeadOrTail ==
  ASSUME NEW S, NEW q \in Seq(S), q # <<>>
  PROVE  Elems(q) = {Head(q)} \cup Elems(Tail(q))
<1>1. /\ Len(q) \in Nat \ {0} /\ DOMAIN q = 1..Len(q)
      /\ Head(q) = q[1] /\ DOMAIN Tail(q) = 1..(Len(q) - 1)
      /\ \A i \in 1..(Len(q) - 1) : Tail(q)[i] = q[i + 1]
  OBVIOUS
<1>2. ASSUME NEW i \in 1..Len(q) PROVE q[i] \in {Head(q)} \cup Elems(Tail(q))
  <2>1. CASE i = 1
    BY <1>1, <2>1
  <2>2. CASE i # 1
    <3>1. i - 1 \in 1..(Len(q) - 1) /\ Tail(q)[i - 1] = q[i]
      BY <1>1, <2>2
    <3>. QED  BY <1>1, <3>1 DEF Elems
  <2>. QED  BY <2>1, <2>2
<1>3. \A i \in 1..(Len(q) - 1) : i + 1 \in 1..Len(q)
  BY <1>1
<1>4. Head(q) \in Elems(q) /\ Elems(Tail(q)) \subseteq Elems(q)
  BY <1>1, <1>3 DEF Elems
<1>5. Elems(q) \subseteq {Head(q)} \cup Elems(Tail(q))
  BY <1>1, <1>2 DEF Elems
<1>. QED  BY <1>4, <1>5

(* The calls on a stack are its top and, once, those below it.             *)
LEMMA TopOnce ==
  ASSUME NEW s \in Stages, Stack(s) # <<>>
  PROVE  \E t \in Stages : /\ Tail(Stack(s)) = Stack(t)
                           /\ On(t) = On(s) \ {Head(Stack(s))}
<1>1. PICK t \in Stages : Tail(Stack(s)) = Stack(t)
  BY StackTails
<1>2. On(s) = {Head(Stack(s))} \cup On(t)
  BY <1>1, StackTyped, HeadOrTail, StackSet
<1>3. Head(Stack(s)) \notin On(t)
  <2>1. Head(Stack(s)) \notin Elems(Tail(Stack(s)))
    <3>1. /\ "identity" \notin Elems(Tail(<<"identity">>))
          /\ "session" \notin Elems(Tail(<<"session", "identity">>))
          /\ "tun" \notin Elems(Tail(<<"tun", "identity">>))
      BY DEF Elems
    <3>2. /\ "socket" \notin Elems(Tail(<<"socket", "session", "identity">>))
          /\ "session" \notin Elems(Tail(<<"session", "tun", "identity">>))
      BY DEF Elems
    <3>3. /\ "rules" \notin Elems(Tail(<<"rules", "socket", "session", "identity">>))
          /\ "rules" \notin Elems(Tail(<<"rules", "session", "tun", "identity">>))
          /\ "queue" \notin Elems(Tail(<<"queue", "session", "tun", "identity">>))
      BY DEF Elems
    <3>4. "queue" \notin Elems(Tail(<<"queue", "rules", "session", "tun", "identity">>))
      BY DEF Elems
    <3>. QED  BY <3>1, <3>2, <3>3, <3>4 DEF Stack
  <2>. QED  BY <1>1, <2>1, StackSet
<1>. QED  BY <1>1, <1>2, <1>3

(* Each place of the rule set is that of one rule. *)
LEMMA Places ==
  /\ RuleCount \in {3, 4}
  /\ \A r \in Rules : Place(r) \in 1..RuleCount \cup {9}
  /\ \A k \in 1..RuleCount :
       ruleSet[k] \in Rules /\ \A r \in Rules : Place(r) = k <=> r = ruleSet[k]
  /\ \A p \in Ports : Place(p) # 9
<1>1. CASE opt.mode = "socket"
  <2>1. ruleSet = <<"notrack", "return", "dport", "sport">> /\ RuleCount = 4
    BY <1>1 DEF ruleSet, RuleCount
  <2>2. /\ Place("notrack") = 1 /\ Place("return") = 2 /\ Place("dport") = 3
        /\ Place("sport") = 4 /\ Place("mark") = 9
    BY <1>1 DEF Place
  <2>. QED  BY <2>1, <2>2 DEF Rules, Ports
<1>2. CASE opt.mode # "socket"
  <2>1. ruleSet = <<"mark", "dport", "sport">> /\ RuleCount = 3
    BY <1>2 DEF ruleSet, RuleCount
  <2>2. /\ Place("mark") = 1 /\ Place("dport") = 2 /\ Place("sport") = 3
        /\ Place("notrack") = 9 /\ Place("return") = 9
    BY <1>2 DEF Place
  <2>. QED  BY <2>1, <2>2 DEF Rules, Ports
<1>. QED  BY <1>1, <1>2

(* What the stack says about what is held. *)
LEMMA StageFacts ==
  ASSUME TypeOK, StackInv
  PROVE  /\ have = Elems(deferred) \ {"rules"}
         /\ "rules" \in Elems(deferred) =>
              opt.install /\ "session" \in have /\ (opt.mode = "socket" => "socket" \in have)
         /\ "queue" \in have =>
              /\ opt.mode # "socket" /\ "session" \in have
              /\ opt.install => "rules" \in Elems(deferred)
         /\ "socket" \in have => "session" \in have
         /\ pc \notin {"queue", "serve", "return"} => "rules" \notin Elems(deferred)
         /\ pc \in {"queue", "serve"} /\ opt.install => "rules" \in Elems(deferred)
         /\ ~Running => deferred = <<>>
<1>1. PICK s \in Stages : At(s)
  BY DEF StackInv
<1>2. Elems(deferred) = On(s)
  BY <1>1, StackSet DEF At
<1>3. have = Elems(deferred) \ {"rules"}
  BY DEF TypeOK, Elems
<1>4. /\ "rules" \in On(s) =>
           opt.install /\ "session" \in On(s) /\ (opt.mode = "socket" => "socket" \in On(s))
      /\ "queue" \in On(s) =>
           /\ opt.mode # "socket" /\ "session" \in On(s)
           /\ opt.install => "rules" \in On(s)
      /\ "socket" \in On(s) => "session" \in On(s)
  BY DEF On
<1>5. /\ s \notin {"queue", "serve"} => "rules" \notin On(s)
      /\ s \in {"queue", "serve"} /\ opt.install => "rules" \in On(s)
  BY DEF On, Stages
<1>6. /\ pc \notin {"queue", "serve", "return"} => s \notin {"queue", "serve"}
      /\ pc \in {"queue", "serve"} => s = pc
      /\ ~Running => deferred = <<>>
  BY <1>1 DEF At, Running, Stages, Stack
<1>. QED  BY <1>2, <1>3, <1>4, <1>5, <1>6

(* The flags stay flags, and the options do not change. *)
LEMMA Flags ==
  ASSUME TypeOK, Next
  PROVE  /\ opt' = opt
         /\ reading' \in BOOLEAN /\ signalled' \in BOOLEAN /\ guard' \in BOOLEAN
         /\ replacing' \in BOOLEAN
<1>1. opt' = opt
  BY DEF Next, MainStep, Start, Signal, Acquire, loadIdentity,
       openTUN, connect, newProxy, nfqStart, installRules, SkipRules, Serve, superviseSession,
       LoopEnds, Return, Release, removeRules, Exit, Dies, Stop
<1>2. reading' \in BOOLEAN
  BY Zenon DEF TypeOK, Next, MainStep, Start, Signal, Acquire, loadIdentity,
       openTUN, connect, newProxy, nfqStart, installRules, SkipRules, Serve,
       superviseSession, LoopEnds, Return, Release, removeRules, Exit, Dies, Stop, Gone
<1>3. signalled' \in BOOLEAN
  BY Zenon DEF TypeOK, Next, MainStep, Start, Signal, Acquire, loadIdentity,
       openTUN, connect, newProxy, nfqStart, installRules, SkipRules, Serve,
       superviseSession, LoopEnds, Return, Release, removeRules, Exit, Dies, Stop
<1>4. guard' \in BOOLEAN
  BY Zenon DEF TypeOK, Next, MainStep, Start, Signal, Acquire, loadIdentity,
       openTUN, connect, newProxy, nfqStart, installRules, SkipRules, Serve,
       superviseSession, LoopEnds, Return, Release, removeRules, Exit, Dies, Stop
<1>5. replacing' \in BOOLEAN
  BY Zenon DEF TypeOK, Next, MainStep, Start, Signal, Acquire, loadIdentity,
       openTUN, connect, newProxy, nfqStart, installRules, SkipRules, Serve,
       superviseSession, LoopEnds, Return, Release, removeRules, Exit, Dies, Stop, Gone
<1>. QED  BY <1>1, <1>2, <1>3, <1>4, <1>5

(* The type of the state after a step, from what remains to be shown.      *)
LEMMA Typed ==
  ASSUME TypeOK, Next,
         have' = Elems(deferred') \ {"rules"}, reading' => "queue" \in have',
         StackInv', rules' \in [Rules -> Nat], done' \in Nat, RulesInv',
         deaths' \in 0..MaxDeaths, failed' \in [Rules -> 0..MaxFailures]
  PROVE  TypeOK'
<1>1. /\ opt' = opt
      /\ reading' \in BOOLEAN /\ signalled' \in BOOLEAN /\ guard' \in BOOLEAN
      /\ replacing' \in BOOLEAN
  BY Flags
<1>2. done' \in 0..3
  BY <1>1, Places DEF RulesInv, DoneInv, CountInv, RuleCount, ruleSet
<1>3. rules' \in [Rules -> 0..(MaxDeaths + MaxFailures + 1)]
  <2>1. ASSUME NEW r \in Rules PROVE rules'[r] \in 0..(MaxDeaths + MaxFailures + 1)
    <3>1. rules'[r] \in Nat /\ deaths' \in 0..MaxDeaths /\ failed'[r] \in 0..MaxFailures
      OBVIOUS
    <3>2. rules'[r] <= deaths' + failed'[r] + 1
      BY <3>1, LifecycleAssumption DEF RulesInv, CopiesInv
    <3>. QED  BY <3>1, <3>2, LifecycleAssumption
  <2>. QED  BY <2>1
<1>4. pc' \in {"down", "identity", "tun", "session", "socket", "rules", "queue",
             "serve", "return", "dead"}
  BY DEF StackInv, At, Stages, Running
<1>. QED  BY <1>1, <1>2, <1>3, <1>4 DEF TypeOK, Elems

(* What depends on the options only stays as it is. *)
LEMMA SameOpt ==
  ASSUME opt' = opt
  PROVE  /\ Stages' = Stages /\ RuleCount' = RuleCount
         /\ \A s : Stack(s)' = Stack(s)
         /\ \A r : Place(r)' = Place(r)
BY DEF Stages, RuleCount, ruleSet, Stack, Place

(* Taking something at a stage, with its clean-up deferred, leads to the   *)
(* stack of the next.                                                      *)
LEMMA Deferring ==
  ASSUME NEW s \in Stages \ {"serve"}, At(s), pc = s, opt' = opt,
         s # "rules" \/ opt.install,
         pc' = After(s), deferred' = Defer(s)
  PROVE  StackInv' /\ Elems(deferred') = Elems(deferred) \cup {s}
<1>1. PICK t \in Stages : /\ t = After(s) /\ Stack(t) # <<>>
                          /\ Head(Stack(t)) = s /\ Tail(Stack(t)) = Stack(s)
  BY StackGrows
<1>2. Stack(t) \in Seq(Calls)
  BY StackTyped
<1>3. deferred' = Stack(t)
  BY <1>1, <1>2, HeadBeforeTail DEF At, Defer
<1>4. At(t)'
  BY <1>1, <1>3, SameOpt DEF At
<1>5. StackInv'
  BY <1>4, SameOpt DEF StackInv
<1>6. Elems(deferred') = Elems(deferred) \cup {s}
  BY <1>1, <1>2, <1>3, HeadOrTail DEF At
<1>. QED  BY <1>5, <1>6

(* A deferred call that has run is off the stack, and not further down.    *)
LEMMA Popping ==
  ASSUME StackInv, pc = "return", deferred # <<>>, opt' = opt, pc' = pc,
         deferred' = Tail(deferred)
  PROVE  StackInv' /\ Elems(deferred') = Elems(deferred) \ {Head(deferred)}
<1>1. PICK s \in Stages : At(s)
  BY DEF StackInv
<1>2. PICK t \in Stages : Tail(Stack(s)) = Stack(t) /\ On(t) = On(s) \ {Head(Stack(s))}
  BY <1>1, TopOnce DEF At
<1>3. At(t)'
  BY <1>1, <1>2, SameOpt DEF At
<1>4. StackInv'
  BY <1>2, <1>3, SameOpt DEF StackInv
<1>5. Elems(deferred') = Elems(deferred) \ {Head(deferred)}
  BY <1>1, <1>2, StackSet DEF At
<1>. QED  BY <1>4, <1>5

(* A process that is gone, or starts, has nothing deferred. *)
LEMMA Emptied ==
  ASSUME opt' = opt, deferred' = <<>>, pc' \in {"down", "dead", "identity"}
  PROVE  StackInv' /\ Elems(deferred') = {}
<1>1. At("identity")'
  BY DEF At, Running, Stack
<1>2. StackInv'
  BY <1>1 DEF StackInv, Stages
<1>. QED  BY <1>2 DEF Elems

(* Every step keeps the stack, and what is held with it. *)
LEMMA StackNext ==
  ASSUME TypeOK, StackInv, Next
  PROVE  /\ StackInv' /\ have' = Elems(deferred') \ {"rules"}
         /\ reading' => "queue" \in have'
<1>1. opt' = opt
  BY Flags
<1>2. have = Elems(deferred) \ {"rules"} /\ (reading => "queue" \in have)
  BY DEF TypeOK, Elems
<1>3. PICK s \in Stages : At(s)
  BY DEF StackInv
<1>4. ASSUME UNCHANGED <<pc, deferred, have>>, reading' => reading
      PROVE  /\ StackInv' /\ have' = Elems(deferred') \ {"rules"}
             /\ reading' => "queue" \in have'
  <2>1. At(s)'
    BY <1>1, <1>3, <1>4, SameOpt DEF At, Running
  <2>2. StackInv'
    BY <1>1, <2>1, SameOpt DEF StackInv
  <2>. QED  BY <1>2, <1>4, <2>2
<1>5. CASE Signal \/ Serve \/ superviseSession \/ LoopEnds
  BY <1>4, <1>5 DEF Signal, Serve, superviseSession, LoopEnds
<1>6. CASE Start
  <2>1. deferred = <<>>
    BY <1>6, StageFacts DEF Start
  <2>. QED  BY <1>1, <1>2, <1>6, <2>1, Emptied DEF Start
<1>7. CASE Dies \/ Stop
  BY <1>1, <1>7, Emptied DEF Dies, Stop, Gone
<1>8. CASE Exit
  BY <1>1, <1>2, <1>8, Emptied DEF Exit
<1>9. CASE Acquire
  <2>1. pc = s /\ s # "serve" /\ s # "rules"
    BY <1>3, <1>9 DEF Acquire, At, Running
  <2>2. StackInv' /\ Elems(deferred') = Elems(deferred) \cup {s}
    BY <1>1, <1>3, <1>9, <2>1, Deferring DEF Acquire
  <2>. QED  BY <1>2, <1>9, <2>1, <2>2 DEF Acquire
<1>10. CASE installRules
  <2>1. pc = s /\ s = "rules" /\ opt.install /\ UNCHANGED <<have, reading>>
    BY <1>3, <1>10 DEF installRules, At, Running
  <2>2. CASE done' = 0
    <3>1. pc' = After(s) /\ deferred' = Defer(s)
      BY <1>10, <2>1, <2>2 DEF installRules
    <3>2. StackInv' /\ Elems(deferred') = Elems(deferred) \cup {s}
      BY <1>1, <1>3, <2>1, <3>1, Deferring
    <3>. QED  BY <1>2, <2>1, <3>2
  <2>3. CASE done' # 0
    BY <1>4, <1>10, <2>1, <2>3 DEF installRules
  <2>. QED  BY <2>2, <2>3
<1>11. CASE SkipRules
  <2>1. pc = s /\ s = "rules" /\ ~opt.install
    BY <1>3, <1>11 DEF SkipRules, At, Running
  <2>2. PICK t \in Stages : t = After(s) /\ Stack(t) = Stack(s)
    BY <2>1, StackGrows
  <2>3. At(t)'
    BY <1>1, <1>3, <1>11, <2>1, <2>2, SameOpt DEF At, SkipRules
  <2>4. StackInv'
    BY <1>1, <2>2, <2>3, SameOpt DEF StackInv
  <2>. QED  BY <1>2, <1>11, <2>4 DEF SkipRules
<1>12. CASE Return
  <2>1. At(s)'
    BY <1>1, <1>3, <1>12, SameOpt DEF At, Return
  <2>2. StackInv'
    BY <1>1, <2>1, SameOpt DEF StackInv
  <2>. QED  BY <1>2, <1>12, <2>2 DEF Return
<1>13. CASE Release
  <2>1. StackInv' /\ Elems(deferred') = Elems(deferred) \ {Head(deferred)}
    BY <1>1, <1>13, Popping DEF Release
  <2>. QED  BY <1>2, <1>13, <2>1 DEF Release
<1>14. CASE removeRules
  <2>1. CASE done' = 0
    <3>1. StackInv' /\ Elems(deferred') = Elems(deferred) \ {Head(deferred)}
      BY <1>1, <1>14, <2>1, Popping DEF removeRules
    <3>. QED  BY <1>2, <1>14, <3>1 DEF removeRules
  <2>2. CASE done' # 0
    BY <1>4, <1>14, <2>2 DEF removeRules
  <2>. QED  BY <2>1, <2>2
<1>. QED  BY <1>5, <1>6, <1>7, <1>8, <1>9, <1>10, <1>11, <1>12, <1>13, <1>14 DEF Next, MainStep,
       loadIdentity, openTUN, connect, newProxy, nfqStart

(* Between two rule commands, the process owns all rules or none. *)
LEMMA OwnAtRest ==
  ASSUME NEW r \in Rules
  PROVE  /\ done = 0 => (Own(r) <=> "rules" \in Elems(deferred) /\ Place(r) # 9)
         /\ opt' = opt /\ done' = 0
              => (Own(r)' <=> "rules" \in Elems(deferred') /\ Place(r) # 9)
<1>1. Place(r) \in Nat \ {0}
  BY Places
<1>2. done = 0 => (Own(r) <=> "rules" \in Elems(deferred) /\ Place(r) # 9)
  BY <1>1 DEF Own
<1>3. ASSUME opt' = opt, done' = 0
      PROVE  Own(r)' <=> "rules" \in Elems(deferred') /\ Place(r) # 9
  <2>1. Place(r)' = Place(r)
    BY <1>3, SameOpt
  <2>. QED  BY <1>1, <1>3, <2>1 DEF Own
<1>. QED  BY <1>2, <1>3

(* A step that runs no rule command and defers no removal. *)
LEMMA RulesAtRest ==
  ASSUME TypeOK, RulesInv, opt' = opt, UNCHANGED <<done, rules>>, done = 0,
         deaths' = deaths, failed' = failed,
         "rules" \in Elems(deferred') <=> "rules" \in Elems(deferred)
  PROVE  RulesInv'
<1>1. done' < RuleCount'
  BY SameOpt DEF RulesInv, DoneInv
<1>2. \A r \in Rules : Own(r)' <=> Own(r)
  BY OwnAtRest
<1>3. DoneInv' /\ CountInv' /\ CopiesInv'
  BY <1>1, <1>2 DEF RulesInv, DoneInv, CountInv, CopiesInv
<1>. QED  BY <1>3 DEF RulesInv

(* The next place, and whether it is the last. *)
LEMMA NextPlace ==
  ASSUME TypeOK, RulesInv, done' = (done + 1) % RuleCount
  PROVE  /\ done + 1 \in 1..RuleCount
         /\ done' = IF done + 1 = RuleCount THEN 0 ELSE done + 1
         /\ done' \in Nat /\ done' < RuleCount
<1>1. RuleCount \in {3, 4} /\ done \in Nat /\ done < RuleCount
  BY Places DEF RulesInv, DoneInv, CountInv, TypeOK
<1>2. CASE RuleCount = 3
  <2>1. done \in {0, 1, 2}
    BY <1>1, <1>2
  <2>. QED  BY <1>2, <2>1
<1>3. CASE RuleCount = 4
  <2>1. done \in {0, 1, 2, 3}
    BY <1>1, <1>3
  <2>. QED  BY <1>3, <2>1
<1>. QED  BY <1>1, <1>2, <1>3

(* One more rule is in. *)
LEMMA InstallKeeps ==
  ASSUME TypeOK, StackInv, RulesInv, installRules, StackInv', have' = Elems(deferred') \ {"rules"}
  PROVE  RulesInv' /\ rules' \in [Rules -> Nat]
<1>. DEFINE k == done + 1
            r0 == ruleSet[k]
<1>1. /\ k \in 1..RuleCount /\ done' = (IF k = RuleCount THEN 0 ELSE k)
      /\ done' \in Nat /\ done' < RuleCount /\ RuleCount \in {3, 4} /\ done \in Nat
  BY NextPlace, Places DEF installRules, TypeOK
<1>2. r0 \in Rules /\ \A r \in Rules : Place(r) = k <=> r = r0
  BY <1>1, Places
<1>3. /\ rules' \in [Rules -> Nat]
      /\ \A r \in Rules : rules'[r] = IF r = r0 THEN rules[r] + 1 ELSE rules[r]
  BY <1>2 DEF installRules, TypeOK
<1>4. opt' = opt /\ deaths' = deaths /\ failed' = failed /\ pc = "rules" /\ opt.install
  BY DEF installRules
<1>5. "rules" \notin Elems(deferred)
  BY <1>4, StageFacts
<1>6. \A r \in Rules : Own(r) <=> Place(r) <= done
  BY <1>4, <1>5 DEF Own
<1>7. \A r \in Rules : Own(r)' <=> Place(r) <= k
  <2>1. CASE k = RuleCount
    <3>1. "rules" \in Elems(deferred')
      <4>1. PICK s \in Stages : At(s)
        BY DEF StackInv
      <4>2. s = "rules" /\ pc' = After(s) /\ deferred' = Defer(s)
        BY <1>1, <1>4, <2>1, <4>1 DEF installRules, At, Running
      <4>. QED  BY <1>4, <4>1, <4>2, Deferring
    <3>2. \A r \in Rules : Own(r)' <=> Place(r) # 9
      BY <1>1, <1>4, <2>1, <3>1, OwnAtRest
    <3>. QED  BY <1>1, <2>1, <3>2, Places
  <2>2. CASE k # RuleCount
    <3>1. pc' = "rules" /\ deferred' = deferred /\ done' = k
      BY <1>1, <1>4, <2>2 DEF installRules
    <3>2. \A r : Place(r)' = Place(r)
      BY <1>4, SameOpt
    <3>. QED  BY <1>5, <3>1, <3>2 DEF Own
  <2>. QED  BY <2>1, <2>2
<1>8. done' # 0 => pc' = "rules" /\ opt'.install
  BY <1>4 DEF installRules
<1>9. \A r \in Rules : Own(r)' <=> Own(r) \/ r = r0
  BY <1>1, <1>2, <1>6, <1>7, Places
<1>10. ~Own(r0)
  BY <1>1, <1>2, <1>6
<1>11. CopiesInv'
  <2>1. ASSUME NEW r \in Rules
        PROVE  /\ Own(r)' => rules'[r] \in 1..(deaths + failed[r] + 1)
               /\ ~Own(r)' => rules'[r] \in 0..(deaths + failed[r])
    <3>1. /\ Own(r) => rules[r] \in 1..(deaths + failed[r] + 1)
          /\ ~Own(r) => rules[r] \in 0..(deaths + failed[r])
          /\ rules[r] \in Nat /\ deaths \in Nat /\ failed[r] \in Nat
      BY DEF RulesInv, CopiesInv, TypeOK
    <3>. QED  BY <1>3, <1>9, <1>10, <3>1
  <2>. QED  BY <1>4, <2>1 DEF CopiesInv
<1>12. (done < RuleCount)'
  BY <1>1, <1>4, SameOpt
<1>13. DoneInv' /\ CountInv'
  <2>1. DoneInv'
    BY <1>12 DEF DoneInv
  <2>2. CountInv'
    BY <1>8, Zenon DEF CountInv
  <2>. QED  BY <2>1, <2>2
<1>. QED  BY <1>3, <1>11, <1>13 DEF RulesInv

(* One more of the process's rules is gone. *)
LEMMA RemoveKeeps ==
  ASSUME TypeOK, StackInv, RulesInv, removeRules
  PROVE  RulesInv' /\ rules' \in [Rules -> Nat] /\ failed' \in [Rules -> 0..MaxFailures]
<1>. DEFINE k == done + 1
            r0 == ruleSet[k]
<1>1. /\ k \in 1..RuleCount /\ done' = (IF k = RuleCount THEN 0 ELSE k)
      /\ done' \in Nat /\ done' < RuleCount /\ RuleCount \in {3, 4} /\ done \in Nat
  BY NextPlace, Places DEF removeRules, TypeOK
<1>2. r0 \in Rules /\ \A r \in Rules : Place(r) = k <=> r = r0
  BY <1>1, Places
<1>0. \/ rules' = [rules EXCEPT ![r0] = Deleted(@)] /\ failed' = failed
      \/ /\ failed[r0] < MaxFailures
         /\ failed' = [failed EXCEPT ![r0] = @ + 1] /\ rules' = rules
  BY DEF removeRules
<1>3. /\ rules' \in [Rules -> Nat] /\ failed' \in [Rules -> 0..MaxFailures]
      /\ \A r \in Rules \ {r0} : rules'[r] = rules[r] /\ failed'[r] = failed[r]
      /\ \/ rules'[r0] = Deleted(rules[r0]) /\ failed'[r0] = failed[r0]
         \/ rules'[r0] = rules[r0] /\ failed'[r0] = failed[r0] + 1
  <2>1. CASE rules' = [rules EXCEPT ![r0] = Deleted(@)] /\ failed' = failed
    BY <1>2, <2>1 DEF TypeOK, Deleted
  <2>2. CASE /\ failed[r0] < MaxFailures
             /\ failed' = [failed EXCEPT ![r0] = @ + 1] /\ rules' = rules
    BY <1>2, <2>2, LifecycleAssumption DEF TypeOK
  <2>. QED  BY <1>0, <2>1, <2>2
<1>4. /\ opt' = opt /\ deaths' = deaths /\ pc = "return" /\ pc' = "return"
      /\ Removing /\ deferred # <<>> /\ Head(deferred) = "rules"
  BY DEF removeRules, Removing
<1>5. "rules" \in Elems(deferred)
  <2>1. PICK s \in Stages : deferred = Stack(s)
    BY DEF StackInv, At
  <2>. QED  BY <1>4, <2>1, StackTyped, HeadOrTail
<1>6. \A r \in Rules : Own(r) <=> Place(r) # 9 /\ done < Place(r)
  BY <1>4, <1>5 DEF Own
<1>7. \A r \in Rules : Own(r)' <=> Place(r) # 9 /\ k < Place(r)
  <2>1. CASE k = RuleCount
    <3>1. deferred' = Tail(deferred)
      BY <1>1, <2>1 DEF removeRules
    <3>2. "rules" \notin Elems(deferred')
      BY <1>4, <3>1, Popping
    <3>3. \A r \in Rules : ~Own(r)'
      BY <1>1, <1>4, <2>1, <3>2, OwnAtRest
    <3>. QED  BY <1>1, <2>1, <3>3, Places
  <2>2. CASE k # RuleCount
    <3>1. deferred' = deferred /\ done' = k
      BY <1>1, <2>2 DEF removeRules
    <3>2. \A r : Place(r)' = Place(r)
      BY <1>4, SameOpt
    <3>. QED  BY <1>4, <1>5, <3>1, <3>2 DEF Own, Removing
  <2>. QED  BY <2>1, <2>2
<1>8. done' # 0 => Removing'
  BY <1>4 DEF removeRules, Removing
<1>9. \A r \in Rules : Own(r)' <=> Own(r) /\ r # r0
  BY <1>1, <1>2, <1>6, <1>7, Places
<1>10. Own(r0)
  BY <1>1, <1>2, <1>6
<1>11. CopiesInv'
  <2>1. ASSUME NEW r \in Rules
        PROVE  /\ Own(r)' => rules'[r] \in 1..(deaths + failed'[r] + 1)
               /\ ~Own(r)' => rules'[r] \in 0..(deaths + failed'[r])
    <3>1. /\ Own(r) => rules[r] \in 1..(deaths + failed[r] + 1)
          /\ ~Own(r) => rules[r] \in 0..(deaths + failed[r])
          /\ rules[r] \in Nat /\ deaths \in Nat /\ failed[r] \in Nat
      BY DEF RulesInv, CopiesInv, TypeOK
    <3>2. CASE r # r0
      BY <1>3, <1>9, <3>1, <3>2
    <3>3. CASE r = r0
      BY <1>3, <1>9, <1>10, <3>1, <3>3 DEF Deleted
    <3>. QED  BY <3>2, <3>3
  <2>. QED  BY <1>4, <2>1 DEF CopiesInv
<1>12. (done < RuleCount)'
  BY <1>1, <1>4, SameOpt
<1>13. DoneInv' /\ CountInv'
  <2>1. DoneInv'
    BY <1>12 DEF DoneInv
  <2>2. CountInv'
    BY <1>8, Zenon DEF CountInv
  <2>. QED  BY <2>1, <2>2
<1>. QED  BY <1>3, <1>11, <1>13 DEF RulesInv

(* Without a rule command under way, done is 0. *)
LEMMA AtRest ==
  ASSUME TypeOK, RulesInv, ~Removing, pc # "rules" \/ ~opt.install
  PROVE  done = 0
BY DEF RulesInv, CountInv

(* The end of a process turns its own rules into leftovers of a death; a   *)
(* process that is stopped before its rules has none.                      *)
LEMMA EndKeeps ==
  ASSUME TypeOK, StackInv, RulesInv, Dies \/ Stop
  PROVE  RulesInv' /\ deaths' \in 0..MaxDeaths
<1>1. /\ opt' = opt /\ done' = 0 /\ deferred' = <<>> /\ rules' = rules /\ pc' = "dead"
      /\ failed' = failed
  BY DEF Dies, Stop, Gone
<1>2. \A r \in Rules : ~Own(r)'
  <2>1. "rules" \notin Elems(deferred')
    BY <1>1 DEF Elems
  <2>. QED  BY <1>1, <2>1, OwnAtRest
<1>3. deaths' \in 0..MaxDeaths /\ \A r \in Rules : rules[r] \in 0..(deaths' + failed[r])
  <2>1. CASE Dies
    BY <2>1, LifecycleAssumption DEF TypeOK, RulesInv, CopiesInv, Dies
  <2>2. CASE Stop
    <3>1. pc \in {"identity", "session"} /\ deaths' = deaths
      BY <2>2 DEF Stop, Cancellable
    <3>2. "rules" \notin Elems(deferred)
      BY <3>1, StageFacts
    <3>3. \A r \in Rules : ~Own(r)
      BY <3>1, <3>2 DEF Own
    <3>. QED  BY <3>1, <3>3 DEF TypeOK, RulesInv, CopiesInv
  <2>. QED  BY <2>1, <2>2
<1>4. CopiesInv'
  BY <1>1, <1>2, <1>3 DEF CopiesInv
<1>5. DoneInv'
  BY <1>1, SameOpt, Places DEF DoneInv
<1>6. CountInv'
  BY <1>1, Zenon DEF CountInv
<1>. QED  BY <1>3, <1>4, <1>5, <1>6 DEF RulesInv

(* Every step keeps the account of the rules. *)
LEMMA RulesNext ==
  ASSUME TypeOK, StackInv, RulesInv, Next
  PROVE  /\ RulesInv' /\ rules' \in [Rules -> Nat] /\ done' \in Nat
         /\ deaths' \in 0..MaxDeaths /\ failed' \in [Rules -> 0..MaxFailures]
<1>1. /\ StackInv' /\ have' = Elems(deferred') \ {"rules"} /\ opt' = opt
      /\ have = Elems(deferred) \ {"rules"}
  BY StackNext, Flags DEF TypeOK, Elems
<1>2. /\ rules \in [Rules -> Nat] /\ done \in Nat /\ deaths \in 0..MaxDeaths
      /\ failed \in [Rules -> 0..MaxFailures]
  BY LifecycleAssumption DEF TypeOK
<1>3. CASE installRules
  <2>1. done' \in Nat /\ deaths' = deaths /\ failed' = failed
    BY <1>3, NextPlace DEF installRules
  <2>. QED  BY <1>1, <1>2, <1>3, <2>1, InstallKeeps
<1>4. CASE removeRules
  <2>1. done' \in Nat /\ deaths' = deaths
    BY <1>4, NextPlace DEF removeRules
  <2>. QED  BY <1>2, <1>4, <2>1, RemoveKeeps
<1>5. CASE Dies \/ Stop
  <2>1. done' = 0 /\ rules' = rules /\ failed' = failed
    BY <1>5 DEF Dies, Stop, Gone
  <2>. QED  BY <1>2, <1>5, <2>1, EndKeeps
<1>6. CASE Signal \/ superviseSession \/ LoopEnds
  <2>1. UNCHANGED <<opt, pc, done, deferred, rules, failed, deaths>>
    BY <1>6 DEF Signal, superviseSession, LoopEnds
  <2>2. \A r \in Rules : Own(r)' <=> Own(r)
    BY <2>1, SameOpt DEF Own, Removing, Elems
  <2>3. CopiesInv'
    BY <2>1, <2>2 DEF RulesInv, CopiesInv
  <2>4. DoneInv' /\ CountInv'
    BY <2>1, SameOpt DEF RulesInv, DoneInv, CountInv, Removing
  <2>. QED  BY <1>2, <2>1, <2>3, <2>4 DEF RulesInv
<1>7. ASSUME ~Removing, pc # "rules" \/ ~opt.install, UNCHANGED <<done, rules, failed, deaths>>,
             "rules" \in Elems(deferred') <=> "rules" \in Elems(deferred)
      PROVE  /\ RulesInv' /\ rules' \in [Rules -> Nat] /\ done' \in Nat
             /\ deaths' \in 0..MaxDeaths /\ failed' \in [Rules -> 0..MaxFailures]
  BY <1>1, <1>2, <1>7, AtRest, RulesAtRest
<1>8. CASE Start \/ SkipRules \/ Serve \/ Return \/ Exit
  <2>1. /\ deferred' = deferred /\ (pc # "rules" \/ ~opt.install)
        /\ UNCHANGED <<done, rules, failed, deaths>> /\ ~Removing
    BY <1>8 DEF Start, SkipRules, Serve, Return, Exit, Removing, Running
  <2>. QED  BY <1>7, <2>1
<1>9. CASE Acquire
  <2>1. /\ ~Removing /\ pc # "rules" /\ UNCHANGED <<done, rules, failed, deaths>>
        /\ pc \in {"identity", "tun", "session", "socket", "queue"}
    BY <1>9 DEF Acquire, Removing
  <2>2. PICK s \in Stages : At(s)
    BY DEF StackInv
  <2>3. s = pc /\ s # "serve"
    BY <2>1, <2>2 DEF At, Running
  <2>4. Elems(deferred') = Elems(deferred) \cup {s}
    BY <1>1, <1>9, <2>1, <2>2, <2>3, Deferring DEF Acquire
  <2>. QED  BY <1>7, <2>1, <2>3, <2>4
<1>10. CASE Release
  <2>1. /\ pc = "return" /\ pc' = pc /\ deferred # <<>> /\ Head(deferred) # "rules"
        /\ deferred' = Tail(deferred) /\ UNCHANGED <<done, rules, failed, deaths>> /\ ~Removing
    BY <1>10 DEF Release, Removing
  <2>2. Elems(deferred') = Elems(deferred) \ {Head(deferred)}
    BY <1>1, <2>1, Popping
  <2>. QED  BY <1>7, <2>1, <2>2
<1>. QED  BY <1>3, <1>4, <1>5, <1>6, <1>8, <1>9, <1>10 DEF Next, MainStep,
       loadIdentity, openTUN, connect, newProxy, nfqStart

(* A rule that guards is not removed before the process returns. *)
LEMMA GuardNext ==
  ASSUME Inv, Next
  PROVE  GuardInv'
<1>1. TypeOK /\ StackInv /\ RulesInv /\ GuardInv /\ opt' = opt
  BY Flags DEF Inv
<1>2. CASE Serve
  <2>1. pc = "serve" /\ UNCHANGED <<pc, rules>>
    BY <1>2 DEF Serve
  <2>2. ASSUME opt.install PROVE \A p \in Ports : rules[p] > 0
    <3>1. "rules" \in Elems(deferred) /\ ~Removing
      BY <1>1, <2>1, <2>2, StageFacts DEF Removing
    <3>2. \A p \in Ports : p \in Rules /\ Own(p)
      BY <3>1, Places DEF Own, Rules
    <3>. QED  BY <1>1, <3>2 DEF RulesInv, CopiesInv, TypeOK
  <2>. QED  BY <1>1, <2>1, <2>2 DEF GuardInv
<1>3. CASE Return
  BY <1>3 DEF Return, GuardInv
<1>4. CASE removeRules
  BY <1>1, <1>4 DEF removeRules, GuardInv
<1>5. CASE Exit
  BY <1>1, <1>5 DEF Exit, GuardInv
<1>6. CASE installRules
  <2>1. \A r \in Rules : rules[r] > 0 => rules'[r] > 0
    BY <1>1, <1>6, LifecycleAssumption DEF installRules, TypeOK
  <2>2. guard' = guard /\ pc' \notin {"down", "return"}
    <3>1. After(pc) \in {"serve", "queue"} /\ pc = "rules"
      BY <1>6, Order DEF installRules
    <3>. QED  BY <1>6, <3>1 DEF installRules
  <2>. QED  BY <1>1, <2>1, <2>2 DEF GuardInv, Rules
<1>7. CASE Acquire \/ SkipRules
  <2>1. guard' = guard /\ rules' = rules /\ pc' = After(pc) /\ pc \in Stages \ {"serve"}
    BY <1>1, <1>7 DEF Acquire, SkipRules, StackInv, At, Running
  <2>2. pc' \notin {"down", "return"}
    BY <2>1, StackGrows DEF Stages
  <2>. QED  BY <1>1, <2>1, <2>2 DEF GuardInv
<1>8. CASE Start \/ Signal \/ superviseSession \/ LoopEnds \/ Release \/ Dies \/ Stop
  BY <1>1, <1>8 DEF Start, Signal, superviseSession, LoopEnds, Release, Dies, Stop, GuardInv
<1>. QED  BY <1>2, <1>3, <1>4, <1>5, <1>6, <1>7, <1>8 DEF Next, MainStep,
       loadIdentity, openTUN, connect, newProxy, nfqStart

(* The invariant holds at first, and every step keeps it. *)
LEMMA InitInv == ASSUME Init PROVE Inv
<1>1. Elems(<<>>) = {}
  BY DEF Elems
<1>2. /\ reading \in BOOLEAN /\ signalled \in BOOLEAN /\ guard \in BOOLEAN
      /\ replacing \in BOOLEAN /\ ~reading /\ ~guard
  BY Zenon DEF Init
<1>3. TypeOK
  BY <1>1, <1>2, LifecycleAssumption DEF Init, TypeOK, Elems
<1>4. At("identity")
  BY DEF Init, At, Stack, Running
<1>5. StackInv
  BY <1>4 DEF StackInv, Stages
<1>6. RulesInv
  <2>1. \A r \in Rules : ~Own(r)
    BY <1>1, OwnAtRest DEF Init
  <2>2. CopiesInv
    BY <2>1 DEF Init, CopiesInv
  <2>3. DoneInv /\ CountInv
    BY Places DEF Init, DoneInv, CountInv
  <2>. QED  BY <2>2, <2>3 DEF RulesInv
<1>7. GuardInv
  BY <1>2 DEF GuardInv
<1>. QED  BY <1>3, <1>5, <1>6, <1>7 DEF Inv

(* Every step keeps the invariant. *)
LEMMA NextInv == Inv /\ [Next]_vars => Inv'
<1>. SUFFICES ASSUME Inv, [Next]_vars PROVE Inv'
  OBVIOUS
<1>1. CASE UNCHANGED vars
  <2>1. UNCHANGED <<opt, pc, done, deferred, have, replacing, reading, rules, failed, signalled,
                    deaths, guard>>
    BY <1>1 DEF vars
  <2>2. TypeOK'
    BY <2>1 DEF Inv, TypeOK
  <2>3. StackInv'
    BY <2>1, SameOpt DEF Inv, StackInv, At, Running
  <2>4. \A r \in Rules : Own(r)' <=> Own(r)
    BY <2>1, SameOpt DEF Own, Removing, Elems
  <2>5. CopiesInv'
    BY <2>1, <2>4 DEF Inv, RulesInv, CopiesInv
  <2>6. DoneInv' /\ CountInv'
    BY <2>1, SameOpt DEF Inv, RulesInv, DoneInv, CountInv, Removing
  <2>7. GuardInv'
    BY <2>1 DEF Inv, GuardInv
  <2>. QED  BY <2>2, <2>3, <2>5, <2>6, <2>7 DEF Inv, RulesInv
<1>2. CASE Next
  <2>1. TypeOK /\ StackInv /\ RulesInv
    BY DEF Inv
  <2>2. /\ StackInv' /\ have' = Elems(deferred') \ {"rules"}
        /\ reading' => "queue" \in have'
    BY <1>2, <2>1, StackNext
  <2>3. /\ RulesInv' /\ rules' \in [Rules -> Nat] /\ done' \in Nat
        /\ deaths' \in 0..MaxDeaths /\ failed' \in [Rules -> 0..MaxFailures]
    BY <1>2, <2>1, RulesNext
  <2>4. TypeOK'
    BY <1>2, <2>1, <2>2, <2>3, Typed
  <2>5. GuardInv'
    BY <1>2, GuardNext
  <2>. QED  BY <2>2, <2>3, <2>4, <2>5 DEF Inv
<1>. QED  BY <1>1, <1>2

-----------------------------------------------------------------------------
(* The stack of deferred calls and the account of the rules hold in every state. *)
THEOREM Invariance == Spec => []Inv
BY InitInv, NextInv, PTL DEF Spec

(* For any number of deaths and failed removals: PFCP is taken without a   *)
(* session only while the supervisor replaces it, and lost in socket mode  *)
(* only to an old entry or a rule that was left (main.go installNfqRules). *)
THEOREM NothingTakenForNothing == Spec => []NeverNowhere
<1>1. ASSUME Inv, NEW d \in Datagrams, Outcome(d) = "dropped" PROVE replacing
  <2>1. "socket" \in have \/ "queue" \in have
    BY <1>1 DEF Outcome
  <2>2. "session" \in have
    BY <1>1, <2>1, StageFacts DEF Inv
  <2>. QED  BY <1>1, <2>2 DEF Outcome
<1>2. ASSUME Inv, NEW d \in Datagrams, Outcome(d) = "lost", opt.mode = "socket"
      PROVE  d.entry = "redirected" \/ deaths + failed[d.port] > 0
  <2>. SUFFICES ASSUME d.entry # "redirected", ~(deaths + failed[d.port] > 0) PROVE FALSE
    OBVIOUS
  <2>. DEFINE p == d.port
  <2>1. TypeOK /\ StackInv /\ p \in Rules
    BY <1>1, <1>2 DEF Inv, Datagrams, Rules
  <2>2. rules[p] # 0 /\ "socket" \notin have
    BY <1>2 DEF Outcome, Diverted, Datagrams
  <2>3. Own(p)
    <3>1. deaths \in Nat /\ failed[p] \in Nat /\ rules[p] \in Nat
      BY <2>1 DEF TypeOK
    <3>2. ~Own(p) => rules[p] \in 0..(deaths + failed[p])
      BY <1>2, <2>1 DEF Inv, RulesInv, CopiesInv
    <3>. QED  BY <2>2, <3>1, <3>2
  <2>4. "socket" \in have
    <3>1. CASE pc = "rules"
      <4>1. PICK s \in Stages : At(s)
        BY <2>1 DEF StackInv
      <4>2. s = "rules" /\ Elems(deferred) = On(s)
        BY <3>1, <4>1, StackSet DEF At, Running
      <4>. QED  BY <1>2, <2>1, <4>2, StageFacts DEF On
    <3>2. CASE pc # "rules"
      BY <1>2, <2>1, <2>3, <3>2, StageFacts DEF Own
    <3>. QED  BY <3>1, <3>2
  <2>. QED  BY <2>2, <2>4
<1>3. Inv => NeverNowhere
  BY <1>1, <1>2 DEF NeverNowhere
<1>. QED  BY <1>3, Invariance, PTL

(* From the moment the sidecar serves until it shuts down, for any number  *)
(* of deaths and restarts in between, PFCP passes in the clear in socket   *)
(* mode only by an entry that says so, in capture mode only without a      *)
(* bound queue or unread (main.go installNfqRules, nfq.go goNfqCB).        *)
THEOREM GuardKept == Spec => []ClearOnlyPastGuard
<1>1. ASSUME Inv, guard, opt.install, NEW d \in Datagrams, Outcome(d) = "clear"
      PROVE  IF opt.mode = "socket" THEN d.entry = "direct"
                                    ELSE "queue" \notin have \/ ~d.readable
  <2>1. d.port \in Ports /\ d.entry \in {"none", "direct", "redirected"}
    BY DEF Datagrams
  <2>2. rules[d.port] > 0
    BY <1>1, <2>1 DEF Inv, GuardInv
  <2>3. CASE opt.mode = "socket"
    <3>1. ~Diverted(d)
      BY <1>1, <2>3 DEF Outcome
    <3>. QED  BY <2>1, <2>2, <2>3, <3>1 DEF Diverted
  <2>4. CASE opt.mode # "socket"
    <3>1. Diverted(d)
      BY <2>2, <2>4 DEF Diverted
    <3>. QED  BY <1>1, <2>4, <3>1 DEF Outcome
  <2>. QED  BY <2>3, <2>4
<1>2. Inv => ClearOnlyPastGuard
  BY <1>1 DEF ClearOnlyPastGuard
<1>. QED  BY <1>2, Invariance, PTL

(* For any number of deaths and failed removals, wherever they strike: a   *)
(* clean exit leaves at most one copy of a rule per death and per failed   *)
(* removal of it (main.go removeNfqRules, proxy.go removeRedirectRules).   *)
THEOREM LeftoversExplained == Spec => []LeftoversCounted
<1>1. Inv => LeftoversCounted
  <2>. SUFFICES ASSUME Inv, pc = "down"
                PROVE  have = {} /\ \A r \in Rules : rules[r] <= deaths + failed[r]
    BY DEF LeftoversCounted
  <2>1. deferred = <<>> /\ have = Elems(deferred) \ {"rules"}
    BY StageFacts DEF Inv, Running
  <2>2. Elems(deferred) = {}
    BY <2>1 DEF Elems
  <2>3. \A r \in Rules : ~Own(r)
    BY <2>2 DEF Own
  <2>4. \A r \in Rules : rules[r] \in 0..(deaths + failed[r])
    BY <2>3 DEF Inv, RulesInv, CopiesInv
  <2>. QED  BY <2>1, <2>2, <2>4 DEF Inv, TypeOK
<1>. QED  BY <1>1, Invariance, PTL
=============================================================================
