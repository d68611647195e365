-------------------------- MODULE DelegatedProofs --------------------------
(* Proofs about DelegatedSource, for every set of identities and trust     *)
(* domains, with and without -identity.                                    *)
EXTENDS DelegatedSource, TLAPS

(* What the SVID side knows. *)
SvidInv ==
  /\ haveSVID \/ svidPc \in {"applied", "signal"} => cert # NoCert
  /\ PresentsWanted

(* What the bundle side knows. *)
BundleInv ==
  /\ haveBundle => \E d \in Domains : bundles[d] # 0
  /\ UnverifiableOnlyIfDamaged

(* run has waited for both. *)
RunInv ==
  /\ runPc \in {"waitBundle", "check", "ready"} => haveSVID
  /\ runPc \in {"check", "ready"} => haveBundle

Inv == TypeOK /\ SvidInv /\ BundleInv /\ RunInv

svidActions ==
  \/ \E i \in Ids : AgentIssue(i)
  \/ SubscribeSVIDs \/ SVIDStreamEnds \/ RecvUnusable \/ RecvSVID \/ AnnounceSVID
  \/ TakeRotation

bundleActions ==
  (\E d \in Domains : AgentRolls(d)) \/ SubscribeBundles \/ BundleStreamEnds \/ RecvBundles

runActions ==
  RunSVID \/ RunBundle \/ RunFails \/ loadIdentity \/ Expire \/ Cancel

(* TypeOK in the parts the three groups of steps touch. *)
SvidType ==
  /\ issued \in [Ids -> Nat]
  /\ inbox \in Seq([Ids -> Nat]) /\ Len(inbox) <= MaxInbox
  /\ cert \in Certs \cup {NoCert}
  /\ haveSVID \in BOOLEAN /\ rotated \in BOOLEAN /\ skipped \in BOOLEAN
  /\ svidPc \in {"subscribe", "recv", "applied", "signal", "stopped"}

BundleType ==
  /\ rolled \in [Domains -> Nat \ {0}]
  /\ pushes \in Seq([Domains -> Nat \ {0}]) /\ Len(pushes) <= MaxInbox
  /\ bundles \in [Domains -> Nat] /\ damaged \in SUBSET Domains
  /\ haveBundle \in BOOLEAN
  /\ bundlePc \in {"subscribe", "recv", "stopped"}

RunType ==
  /\ runPc \in {"waitSVID", "waitBundle", "check", "ready", "failed"}
  /\ expired \in BOOLEAN /\ ctxDone \in BOOLEAN

(* The type invariant by the goroutine that keeps it. *)
LEMMA TypeSplit == TypeOK <=> SvidType /\ BundleType /\ RunType
  BY DEF TypeOK, SvidType, BundleType, RunType

(* What a bounded inbox allows. *)
LEMMA ShortQueues ==
  ASSUME NEW S, NEW x \in S
  PROVE  /\ <<>> \in Seq(S) /\ Len(<<>>) <= MaxInbox
         /\ <<x>> \in Seq(S) /\ Len(<<x>>) <= MaxInbox
  BY DelegatedAssumption

(* The invariant holds at first. *)
LEMMA InitInv == Init => Inv
  <1> SUFFICES ASSUME Init PROVE Inv
    OBVIOUS
  <1>1. SvidType
    <2>1. issued \in [Ids -> Nat]
      BY DEF Init
    <2>2. inbox \in Seq([Ids -> Nat]) /\ Len(inbox) <= MaxInbox
      BY <2>1, ShortQueues DEF Init
    <2> QED
      BY <2>1, <2>2 DEF Init, SvidType
  <1>2. BundleType
    <2>1. rolled \in [Domains -> Nat \ {0}] /\ bundles \in [Domains -> Nat]
      BY DEF Init
    <2>2. pushes \in Seq([Domains -> Nat \ {0}]) /\ Len(pushes) <= MaxInbox
      BY <2>1, ShortQueues DEF Init
    <2> QED
      BY <2>1, <2>2 DEF Init, BundleType
  <1>3. RunType
    BY DEF Init, RunType
  <1>4. SvidInv /\ BundleInv /\ RunInv
    BY DEF Init, SvidInv, BundleInv, RunInv, PresentsWanted, UnverifiableOnlyIfDamaged
  <1> QED
    BY <1>1, <1>2, <1>3, <1>4, TypeSplit DEF Inv

(* What pick chooses from a response is an SVID the sidecar may present. *)
LEMMA PickedSVID ==
  ASSUME SvidType, inbox # <<>>, NEW i \in pick(Head(inbox))
  PROVE  LET c == [id |-> i, leaf |-> Head(inbox)[i]]
         IN  c \in Certs /\ c # NoCert /\ (Want # Any => c.id = Want)
  <1>1. Head(inbox) \in [Ids -> Nat]
    BY DEF SvidType
  <1>2. i \in Ids /\ Head(inbox)[i] \in Nat \ {0} /\ Want \in {i, Any}
    BY <1>1 DEF pick
  <1> QED
    BY <1>2, DelegatedAssumption DEF Certs

(* A response that is queued keeps the inbox typed. *)
LEMMA PushedType ==
  ASSUME NEW S, NEW queue \in Seq(S), NEW all \in S, NEW open \in BOOLEAN,
         Len(queue) <= MaxInbox, NEW next,
         open => Len(queue) < MaxInbox,
         next = IF open THEN Append(queue, all) ELSE queue
  PROVE  next \in Seq(S) /\ Len(next) <= MaxInbox
  <1>1. CASE open
    BY <1>1, DelegatedAssumption
  <1>2. CASE ~open
    BY <1>2
  <1> QED
    BY <1>1, <1>2

(* So does one that is taken. *)
LEMMA TailType ==
  ASSUME NEW S, NEW queue \in Seq(S), queue # <<>>, Len(queue) <= MaxInbox
  PROVE  Tail(queue) \in Seq(S) /\ Len(Tail(queue)) <= MaxInbox
  BY DelegatedAssumption

(* The SVID stream keeps the invariant. *)
LEMMA SvidStepInv ==
  ASSUME Inv, svidActions
  PROVE  SvidType' /\ SvidInv' /\ UNCHANGED <<bundleVars, runVars>> /\ (haveSVID => haveSVID')
  <1> USE DEF SvidInv, PresentsWanted
  <1>0. SvidType /\ SvidInv
    BY TypeSplit DEF Inv
  <1>1. ASSUME NEW i \in Ids, AgentIssue(i) PROVE SvidType' /\ SvidInv' /\ UNCHANGED haveSVID
    <2>1. issued' \in [Ids -> Nat]
      BY <1>0, <1>1 DEF AgentIssue, SvidType
    <2>2. inbox' \in Seq([Ids -> Nat]) /\ Len(inbox') <= MaxInbox
      BY <1>0, <1>1, <2>1, PushedType DEF AgentIssue, SvidType, Pushed
    <2> QED
      BY <1>0, <1>1, <2>1, <2>2 DEF AgentIssue, SvidType
  <1>2. CASE SubscribeSVIDs
    <2>1. inbox' \in Seq([Ids -> Nat]) /\ Len(inbox') <= MaxInbox
      BY <1>0, <1>2, ShortQueues DEF SubscribeSVIDs, SvidType
    <2> QED
      BY <1>0, <1>2, <2>1 DEF SubscribeSVIDs, SvidStep, SvidType
  <1>3. CASE SVIDStreamEnds
    BY <1>0, <1>3, DelegatedAssumption DEF SVIDStreamEnds, SvidStep, SvidType, Resubscribe
  <1>4. CASE RecvUnusable
    BY <1>0, <1>4, TailType DEF RecvUnusable, SvidStep, SvidType
  <1>5. CASE RecvSVID
    <2>1. cert' \in Certs /\ cert' # NoCert /\ (Want # Any => cert'.id = Want)
      BY <1>0, <1>5, PickedSVID DEF RecvSVID
    <2>2. inbox' \in Seq([Ids -> Nat]) /\ Len(inbox') <= MaxInbox
      BY <1>0, <1>5, TailType DEF RecvSVID, SvidType
    <2> QED
      BY <1>0, <1>5, <2>1, <2>2 DEF RecvSVID, SvidStep, SvidType
  <1>6. CASE AnnounceSVID
    BY <1>0, <1>6 DEF AnnounceSVID, SvidStep, SvidType
  <1>7. CASE TakeRotation
    BY <1>0, <1>7 DEF TakeRotation, SvidType
  <1>8. UNCHANGED <<bundleVars, runVars>>
    BY DEF svidActions, AgentIssue, SubscribeSVIDs, SVIDStreamEnds, RecvUnusable, RecvSVID,
           AnnounceSVID, TakeRotation, SvidStep
  <1>9. haveSVID => haveSVID'
    BY <1>1 DEF svidActions, SubscribeSVIDs, SVIDStreamEnds, RecvUnusable, RecvSVID,
           AnnounceSVID, TakeRotation
  <1> QED
    BY <1>1, <1>2, <1>3, <1>4, <1>5, <1>6, <1>7, <1>8, <1>9 DEF svidActions

(* The bundle stream keeps it. *)
LEMMA BundleStepInv ==
  ASSUME Inv, bundleActions
  PROVE  BundleType' /\ BundleInv' /\ UNCHANGED <<svidVars, runVars>>
         /\ (haveBundle => haveBundle')
  <1> USE DEF BundleInv, UnverifiableOnlyIfDamaged, GetX509BundleForTrustDomain
  <1>0. BundleType /\ BundleInv
    BY TypeSplit DEF Inv
  <1>1. ASSUME NEW d \in Domains, AgentRolls(d)
        PROVE  BundleType' /\ BundleInv' /\ UNCHANGED haveBundle
    <2>1. rolled' \in [Domains -> Nat \ {0}]
      BY <1>0, <1>1 DEF AgentRolls, BundleType
    <2>2. pushes' \in Seq([Domains -> Nat \ {0}]) /\ Len(pushes') <= MaxInbox
      BY <1>0, <1>1, <2>1, PushedType DEF AgentRolls, BundleType, Pushed
    <2> QED
      BY <1>0, <1>1, <2>1, <2>2 DEF AgentRolls, BundleType
  <1>2. CASE SubscribeBundles
    <2>1. pushes' \in Seq([Domains -> Nat \ {0}]) /\ Len(pushes') <= MaxInbox
      BY <1>0, <1>2, ShortQueues DEF SubscribeBundles, BundleType
    <2> QED
      BY <1>0, <1>2, <2>1 DEF SubscribeBundles, BundleStep, BundleType
  <1>3. CASE BundleStreamEnds
    <2>1. pushes' \in Seq([Domains -> Nat \ {0}]) /\ Len(pushes') <= MaxInbox
      BY <1>0, <1>3, ShortQueues DEF BundleStreamEnds, BundleType
    <2> QED
      BY <1>0, <1>3, <2>1 DEF BundleStreamEnds, BundleStep, BundleType, Resubscribe
  <1>4. CASE RecvBundles
    <2>1. pushes' \in Seq([Domains -> Nat \ {0}]) /\ Len(pushes') <= MaxInbox
      BY <1>0, <1>4, TailType DEF RecvBundles, BundleType
    <2>2. PICK bad \in SUBSET Domains :
            /\ applyBundles([d \in Domains |-> IF d \in bad THEN 0 ELSE Head(pushes)[d]])
            /\ damaged' = bad
      BY <1>4 DEF RecvBundles
    <2>3. Head(pushes) \in [Domains -> Nat \ {0}]
      BY <1>0, <1>4 DEF RecvBundles, BundleType
    <2> DEFINE next == [d \in Domains |-> IF d \in bad THEN 0 ELSE Head(pushes)[d]]
    <2>4. next \in [Domains -> Nat] /\ \A d \in Domains : next[d] = 0 <=> d \in bad
      BY <2>3
    <2> HIDE DEF next
    <2>5. applyBundles(next)
      BY <2>2 DEF next
    <2>6. CASE Empty(next)
      <3>1. bundles' = bundles /\ haveBundle' = haveBundle
        BY <2>5, <2>6, <1>0 DEF applyBundles, BundleType
      <3>2. damaged' = Domains
        BY <2>2, <2>4, <2>6 DEF Empty
      <3> QED
        BY <1>0, <1>4, <2>1, <3>1, <3>2 DEF RecvBundles, BundleStep, BundleType
    <2>7. CASE ~Empty(next)
      <3>1. bundles' = next /\ haveBundle' = TRUE
        BY <2>5, <2>7 DEF applyBundles
      <3>2. \E d \in Domains : next[d] # 0
        BY <2>7 DEF Empty
      <3> QED
        BY <1>0, <1>4, <2>1, <2>2, <2>4, <3>1, <3>2 DEF RecvBundles, BundleStep, BundleType
    <2> QED
      BY <2>6, <2>7
  <1>5. UNCHANGED <<svidVars, runVars>>
    BY DEF bundleActions, AgentRolls, SubscribeBundles, BundleStreamEnds, RecvBundles,
           BundleStep
  <1>6. haveBundle => haveBundle'
    BY <1>1 DEF bundleActions, SubscribeBundles, BundleStreamEnds, RecvBundles, applyBundles
  <1> QED
    BY <1>1, <1>2, <1>3, <1>4, <1>5, <1>6 DEF bundleActions

(* run and its timeout keep it. *)
LEMMA RunStepInv ==
  ASSUME Inv, runActions
  PROVE  RunType' /\ RunInv' /\ UNCHANGED <<svidVars, bundleVars>>
  <1>1. RunType /\ RunInv
    BY TypeSplit DEF Inv
  <1>2. UNCHANGED <<svidVars, bundleVars>>
    BY DEF runActions, RunSVID, RunBundle, RunFails, loadIdentity, Expire, Cancel, RunStep
  <1>3. RunType'
    BY <1>1 DEF RunType, runActions, RunSVID, RunBundle, RunFails, loadIdentity, Expire,
                Cancel, RunStep
  <1>4. RunInv'
    BY <1>1, <1>2 DEF RunInv, svidVars, bundleVars, runActions, RunSVID, RunBundle, RunFails,
                      loadIdentity, Expire, Cancel, RunStep
  <1> QED
    BY <1>2, <1>3, <1>4

(* The steps by goroutine. *)
LEMMA Cases ==
  [Next]_vars => svidActions \/ bundleActions \/ runActions \/ UNCHANGED vars
  BY DEF Next, Exit, svidActions, bundleActions, runActions

(* Every step keeps the invariant. *)
LEMMA NextInv == Inv /\ [Next]_vars => Inv'
  <1> SUFFICES ASSUME Inv, [Next]_vars PROVE Inv'
    OBVIOUS
  <1>1. SvidType /\ BundleType /\ RunType /\ SvidInv /\ BundleInv /\ RunInv
    BY TypeSplit DEF Inv
  <1>2. UNCHANGED svidVars => SvidType' /\ SvidInv'
    BY <1>1 DEF svidVars, SvidType, SvidInv, PresentsWanted
  <1>3. UNCHANGED bundleVars => BundleType' /\ BundleInv'
    BY <1>1 DEF bundleVars, BundleType, BundleInv, UnverifiableOnlyIfDamaged,
                GetX509BundleForTrustDomain
  <1>4. UNCHANGED runVars => RunType'
    BY <1>1 DEF runVars, RunType
  <1>5. CASE svidActions
    <2>1. RunInv'
      BY <1>1, <1>5, SvidStepInv DEF RunInv, runVars, bundleVars
    <2> QED
      BY <1>3, <1>4, <1>5, <2>1, SvidStepInv, TypeSplit DEF Inv, TypeOK, SvidType, BundleType,
         RunType
  <1>6. CASE bundleActions
    <2>1. RunInv'
      BY <1>1, <1>6, BundleStepInv DEF RunInv, runVars, svidVars
    <2> QED
      BY <1>2, <1>4, <1>6, <2>1, BundleStepInv DEF Inv, TypeOK, SvidType, BundleType, RunType
  <1>7. CASE runActions
    BY <1>2, <1>3, <1>7, RunStepInv DEF Inv, TypeOK, SvidType, BundleType, RunType
  <1>8. CASE UNCHANGED vars
    <2>1. UNCHANGED <<svidVars, bundleVars, runVars>>
      BY <1>8 DEF vars
    <2>2. RunInv'
      BY <1>1, <2>1 DEF RunInv, svidVars, bundleVars, runVars
    <2> QED
      BY <1>2, <1>3, <1>4, <2>1, <2>2 DEF Inv, TypeOK, SvidType, BundleType, RunType
  <1> QED
    BY <1>5, <1>6, <1>7, <1>8, Cases

(* The invariant of the three loops, from which the next theorem follows   *)
(* (delegated.go run, applySVID, applyBundles).                            *)
THEOREM Invariance == Spec => []Inv
  BY InitInv, NextInv, PTL DEF Spec

(* After a start-up that succeeded there is an SVID and a bundle, for any  *)
(* number of identities, domains, renewals and stream failures             *)
(* (delegated.go waitReady, identity.go loadIdentity).                     *)
THEOREM IdentityUsable == Spec => []ReadyHasIdentity
  <1>1. Inv => ReadyHasIdentity
    BY DEF Inv, SvidInv, BundleInv, RunInv, ReadyHasIdentity, certificate,
           GetX509BundleForTrustDomain
  <1> QED
    BY <1>1, Invariance, PTL

(* Whatever lists of identities the agent pushes, the SVID served is the   *)
(* wanted one (delegated.go pick).                                         *)
THEOREM WantedPresented == Spec => []PresentsWanted
  <1>1. Inv => PresentsWanted
    BY DEF Inv, SvidInv, BundleInv, RunInv, certificate
  <1> QED
    BY <1>1, Invariance, PTL

(* Once bundles were received, a trust domain has none only while the last *)
(* push had a bad one for it (delegated.go applyBundles).                  *)
THEOREM VerifiableUnlessDamaged == Spec => []UnverifiableOnlyIfDamaged
  <1>1. Inv => UnverifiableOnlyIfDamaged
    BY DEF Inv, SvidInv, BundleInv, RunInv, GetX509BundleForTrustDomain
  <1> QED
    BY <1>1, Invariance, PTL

(* The source implements CredSource: every change of the served leaf after *)
(* the first is followed by one signal, and nothing else signals           *)
(* (delegated.go applySVID).                                               *)
THEOREM RotationsSignalled == Spec => SignalsRotations
  <1>1. Init => Source!CSInit
    BY DEF Init, Source!CSInit
  <1>2. Inv /\ [Next]_vars => [Source!CSNext]_Source!csVars
    <2> SUFFICES ASSUME Inv, [Next]_vars PROVE [Source!CSNext]_Source!csVars
      OBVIOUS
    <2> USE DEF Source!csVars
    <2>0. SvidType /\ SvidInv
      BY TypeSplit DEF Inv
    <2>1. CASE RecvSVID
      <3>1. cert' # NoCert /\ svidPc = "recv" /\ UNCHANGED rotated
            /\ svidPc' = IF renewed(cert, cert') THEN "signal" ELSE "applied"
        BY <2>0, <2>1, PickedSVID DEF RecvSVID, SvidStep
      <3>2. CASE cert = NoCert
        BY <3>1, <3>2 DEF renewed, Source!CSNext, Source!First
      <3>3. CASE cert # NoCert /\ cert' = cert
        BY <3>1, <3>3 DEF renewed
      <3>4. CASE cert # NoCert /\ cert' # cert
        BY <3>1, <3>4 DEF renewed, Source!CSNext, Source!Renew
      <3> QED
        BY <3>2, <3>3, <3>4
    <2>2. CASE AnnounceSVID
      BY <2>0, <2>2 DEF AnnounceSVID, SvidStep, SvidType, Source!CSNext, Source!Signal
    <2>3. CASE TakeRotation
      BY <2>3 DEF TakeRotation, Source!CSNext, Source!Take
    <2>4. CASE SubscribeSVIDs \/ SVIDStreamEnds \/ RecvUnusable \/ \E i \in Ids : AgentIssue(i)
      BY <2>4 DEF SubscribeSVIDs, SVIDStreamEnds, RecvUnusable, AgentIssue, SvidStep,
                  Resubscribe
    <2>5. CASE bundleActions \/ runActions \/ UNCHANGED vars
      BY <2>5, BundleStepInv, RunStepInv DEF vars, svidVars
    <2> QED
      BY <2>1, <2>2, <2>3, <2>4, <2>5, Cases DEF svidActions
  <1> QED
    BY <1>1, <1>2, Invariance, PTL DEF Spec, SignalsRotations, Source!CSSpec
=============================================================================
