-------------------------- MODULE DelegatedSource --------------------------
(***************************************************************************)
(* The delegated identity source (delegated.go) and its start-up in        *)
(* loadIdentity (identity.go): two subscriptions to the SPIRE agent, run,  *)
(* and the consumer of the rotation signal.                                *)
(*                                                                         *)
(* The agent is external. It numbers the SVIDs of each identity, and       *)
(* pushes the whole set it lets the delegate see on every subscription and *)
(* on every change. A response is that set; the order of its elements is   *)
(* the agent's, so which one comes first is left open. It also numbers the *)
(* bundles of each trust domain and pushes all of them.                    *)
(***************************************************************************)
EXTENDS Naturals, Sequences

CONSTANTS
  Ids,        \* SPIFFE IDs the agent may issue to this delegate
  Want,       \* -identity, or Any when it is empty
  Any,
  NoCert,     \* a nil *tls.Certificate
  Domains,    \* trust domains
  MaxIssues,  \* bound on the SVIDs issued to each identity
  MaxRolls,   \* bound on the bundles of each trust domain
  MaxInbox    \* bound on responses in flight on each stream

Certs == [id : Ids, leaf : Nat \ {0}]

ASSUME DelegatedAssumption ==
  /\ Any \notin Ids
  /\ Want \in Ids \cup {Any}
  /\ NoCert \notin Certs
  /\ MaxIssues \in [Ids -> Nat]
  /\ MaxRolls \in [Domains -> Nat \ {0}]
  /\ MaxInbox \in Nat \ {0}

VARIABLES
  issued,      \* the agent: last serial issued to each identity, 0 for none
  inbox,       \* responses in flight on the SVID stream
  cert,        \* delegatedSource.cert and spiffeID
  haveSVID,    \* the channel of that name is closed
  rotated,     \* the rotation channel, buffered(1): is a signal pending
  svidPc,      \* watchSVIDs: where it is
  skipped,     \* the last response had a bad SVID (history)
  rolled,      \* the agent: last bundle of each trust domain
  pushes,      \* responses in flight on the bundle stream
  bundles,     \* delegatedSource.bundles: per trust domain, 0 for none
  haveBundle,  \* the channel of that name is closed
  bundlePc,    \* watchBundles: where it is
  damaged,     \* trust domains that did not parse in the last push (history)
  runPc,       \* run, then loadIdentity's check of what it got
  expired,     \* the 20 s of run have passed
  ctxDone      \* ctx.Err() # nil

svidVars == <<issued, inbox, cert, haveSVID, rotated, svidPc, skipped>>
bundleVars == <<rolled, pushes, bundles, haveBundle, bundlePc, damaged>>
runVars == <<runPc, expired, ctxDone>>
vars == <<svidVars, bundleVars, runVars>>

Init ==
  /\ issued = [i \in Ids |-> 0] /\ rolled = [d \in Domains |-> 1]
  /\ inbox = <<>> /\ pushes = <<>>
  /\ cert = NoCert
  /\ bundles = [d \in Domains |-> 0]
  /\ haveSVID = FALSE /\ haveBundle = FALSE
  /\ rotated = FALSE /\ skipped = FALSE /\ damaged = {}
  /\ svidPc = "subscribe" /\ bundlePc = "subscribe"
  /\ runPc = "waitSVID" /\ expired = FALSE /\ ctxDone = FALSE

(* A failed start ends the process (main.go die). *)
Alive == runPc # "failed"

(* The agent pushes what it has now on a stream that is open. *)
Pushed(open, queue, all) ==
  /\ open => Len(queue) < MaxInbox
  /\ queue' = IF open THEN Append(queue, all) ELSE queue

Resubscribe == IF ctxDone THEN "stopped" ELSE "subscribe"

-----------------------------------------------------------------------------
(* The agent issues or renews an SVID. *)
AgentIssue(i) ==
  /\ Alive
  /\ issued[i] < MaxIssues[i]
  /\ issued' = [issued EXCEPT ![i] = @ + 1]
  /\ Pushed(svidPc \in {"recv", "applied", "signal"}, inbox, issued')
  /\ UNCHANGED <<cert, haveSVID, rotated, svidPc, skipped, bundleVars, runVars>>

(* watchSVIDs, from one place to another *)
SvidStep(from, to) ==
  /\ Alive
  /\ svidPc \in from
  /\ svidPc' = to
  /\ UNCHANGED <<issued, bundleVars, runVars>>

SubscribeSVIDs ==
  /\ ~ctxDone
  /\ SvidStep({"subscribe"}, "recv")
  /\ inbox' = <<issued>>
  /\ skipped' = FALSE
  /\ UNCHANGED <<cert, haveSVID, rotated>>

SVIDStreamEnds_GiveUp ==
  /\ SvidStep({"subscribe", "recv"}, "stopped")
  /\ inbox' = <<>>
  /\ UNCHANGED <<cert, haveSVID, rotated, skipped>>

(* The subscription is refused, or the stream ends: after a pause the loop *)
(* subscribes again.                                                       *)
SVIDStreamEnds ==
  /\ SvidStep({"subscribe", "recv"}, Resubscribe)
  /\ inbox' = <<>>
  /\ UNCHANGED <<cert, haveSVID, rotated, skipped>>

pick_First(response) == {i \in Ids : response[i] > 0}

(* The identities pick may choose from a response. *)
pick(response) == {i \in Ids : response[i] > 0 /\ Want \in {i, Any}}

(* The response has no SVID for this sidecar, or the one it has is bad.    *)
RecvUnusable ==
  /\ SvidStep({"recv"}, "recv")
  /\ inbox # <<>>
  /\ inbox' = Tail(inbox)
  /\ skipped' = (pick(Head(inbox)) # {})
  /\ UNCHANGED <<cert, haveSVID, rotated>>

renewed_EveryMessage(old, new) == old # NoCert

(* Only a leaf that differs is a rotation. *)
renewed(old, new) == old \notin {NoCert, new}

(* applySVID up to its unlock *)
RecvSVID ==
  /\ inbox # <<>>
  /\ inbox' = Tail(inbox)
  /\ \E i \in pick(Head(inbox)) : cert' = [id |-> i, leaf |-> Head(inbox)[i]]
  /\ SvidStep({"recv"}, IF renewed(cert, cert') THEN "signal" ELSE "applied")
  /\ skipped' = FALSE
  /\ UNCHANGED <<haveSVID, rotated>>

(* applySVID after its unlock: close haveSVID once, signal a rotation.     *)
AnnounceSVID ==
  /\ SvidStep({"applied", "signal"}, "recv")
  /\ haveSVID' = TRUE
  /\ rotated' = (rotated \/ svidPc = "signal")
  /\ UNCHANGED <<inbox, cert, skipped>>

(* The supervisor takes a rotation signal. *)
TakeRotation ==
  /\ runPc = "ready"
  /\ rotated
  /\ rotated' = FALSE
  /\ UNCHANGED <<issued, inbox, cert, haveSVID, svidPc, skipped, bundleVars, runVars>>

-----------------------------------------------------------------------------
(* The agent rolls the CA of a trust domain. *)
AgentRolls(d) ==
  /\ Alive
  /\ rolled[d] < MaxRolls[d]
  /\ rolled' = [rolled EXCEPT ![d] = @ + 1]
  /\ Pushed(bundlePc = "recv", pushes, rolled')
  /\ UNCHANGED <<svidVars, bundles, haveBundle, bundlePc, damaged, runVars>>

(* watchBundles, from one place to another *)
BundleStep(from, to) ==
  /\ Alive
  /\ bundlePc \in from
  /\ bundlePc' = to
  /\ UNCHANGED <<svidVars, rolled, runVars>>

SubscribeBundles_StartsOver ==
  /\ ~ctxDone
  /\ BundleStep({"subscribe"}, "recv")
  /\ pushes' = <<rolled>>
  /\ bundles' = [d \in Domains |-> 0]
  /\ UNCHANGED <<haveBundle, damaged>>

SubscribeBundles ==
  /\ ~ctxDone
  /\ BundleStep({"subscribe"}, "recv")
  /\ pushes' = <<rolled>>
  /\ UNCHANGED <<bundles, haveBundle, damaged>>

BundleStreamEnds ==
  /\ BundleStep({"subscribe", "recv"}, Resubscribe)
  /\ pushes' = <<>>
  /\ UNCHANGED <<bundles, haveBundle, damaged>>

Empty(next) == \A d \in Domains : next[d] = 0

applyBundles_AcceptEmpty(next) == bundles' = next /\ haveBundle' = TRUE

applyBundles_FirstOnly(next) ==
  /\ bundles' = IF haveBundle \/ Empty(next) THEN bundles ELSE next
  /\ haveBundle' = (haveBundle \/ ~Empty(next))

(* next is what parsed of a push. It replaces all of the bundles; when     *)
(* nothing parsed it is ignored.                                           *)
applyBundles(next) ==
  /\ bundles' = IF Empty(next) THEN bundles ELSE next
  /\ haveBundle' = (haveBundle \/ ~Empty(next))

RecvBundles ==
  /\ BundleStep({"recv"}, "recv")
  /\ pushes # <<>>
  /\ pushes' = Tail(pushes)
  /\ \E bad \in SUBSET Domains :
       /\ applyBundles([d \in Domains |-> IF d \in bad THEN 0 ELSE Head(pushes)[d]])
       /\ damaged' = bad

-----------------------------------------------------------------------------
(* run, and loadIdentity after it *)
RunStep(from, to) ==
  /\ runPc \in from
  /\ runPc' = to
  /\ UNCHANGED <<svidVars, bundleVars, expired, ctxDone>>

RunSVID == haveSVID /\ RunStep({"waitSVID"}, "waitBundle")

RunBundle == haveBundle /\ RunStep({"waitBundle"}, "check")

RunFails == (expired \/ ctxDone) /\ RunStep({"waitSVID", "waitBundle"}, "failed")

(* GetX509BundleForTrustDomain and certificate, as a handshake calls them  *)
certificate == cert
GetX509BundleForTrustDomain(td) == bundles[td]

loadIdentity == RunStep({"check"}, IF certificate = NoCert THEN "failed" ELSE "ready")

Expire ==
  /\ runPc \in {"waitSVID", "waitBundle"}
  /\ ~expired
  /\ expired' = TRUE
  /\ UNCHANGED <<svidVars, bundleVars, runPc, ctxDone>>

Cancel ==
  /\ Alive
  /\ ~ctxDone
  /\ ctxDone' = TRUE
  /\ UNCHANGED <<svidVars, bundleVars, runPc, expired>>

Exit == (ctxDone \/ ~Alive) /\ UNCHANGED vars

Next ==
  \/ \E i \in Ids : AgentIssue(i)
  \/ SubscribeSVIDs \/ SVIDStreamEnds \/ RecvUnusable \/ RecvSVID \/ AnnounceSVID
  \/ \E d \in Domains : AgentRolls(d)
  \/ SubscribeBundles \/ BundleStreamEnds \/ RecvBundles
  \/ RunSVID \/ RunBundle \/ RunFails \/ loadIdentity \/ TakeRotation
  \/ Expire \/ Cancel \/ Exit

Spec == Init /\ [][Next]_vars

(* The loops run; a stream that keeps being opened delivers in the end.    *)
Fairness ==
  /\ SF_vars(SubscribeSVIDs) /\ SF_vars(RecvSVID) /\ WF_vars(AnnounceSVID)
  /\ SF_vars(SubscribeBundles) /\ SF_vars(RecvBundles)
  /\ WF_vars(Expire) /\ WF_vars(RunFails) /\ WF_vars(RunSVID)
  /\ WF_vars(RunBundle) /\ WF_vars(loadIdentity)

FairSpec == Spec /\ Fairness

-----------------------------------------------------------------------------
(* Every variable keeps its type (delegated.go). *)
TypeOK ==
  /\ issued \in [Ids -> Nat] /\ rolled \in [Domains -> Nat \ {0}]
  /\ inbox \in Seq([Ids -> Nat]) /\ Len(inbox) <= MaxInbox
  /\ pushes \in Seq([Domains -> Nat \ {0}]) /\ Len(pushes) <= MaxInbox
  /\ cert \in Certs \cup {NoCert}
  /\ bundles \in [Domains -> Nat] /\ damaged \in SUBSET Domains
  /\ haveSVID \in BOOLEAN /\ haveBundle \in BOOLEAN
  /\ rotated \in BOOLEAN /\ skipped \in BOOLEAN
  /\ svidPc \in {"subscribe", "recv", "applied", "signal", "stopped"}
  /\ bundlePc \in {"subscribe", "recv", "stopped"}
  /\ runPc \in {"waitSVID", "waitBundle", "check", "ready", "failed"}
  /\ expired \in BOOLEAN /\ ctxDone \in BOOLEAN

(* "the caller never builds a DTLS config from an empty identity"          *)
(* (delegated.go run): once start-up has succeeded there is an SVID to     *)
(* present and a bundle to verify with, whatever the streams push later.   *)
ReadyHasIdentity ==
  runPc \in {"check", "ready"} =>
    certificate # NoCert /\ \E d \in Domains : GetX509BundleForTrustDomain(d) # 0

(* applyBundles replaces the whole map (delegated.go): once there are      *)
(* bundles, peers of a trust domain cannot be verified only because its    *)
(* entry did not parse in the last push, also across a stream that ends    *)
(* and is opened again.                                                    *)
UnverifiableOnlyIfDamaged ==
  haveBundle => \A d \in Domains : GetX509BundleForTrustDomain(d) = 0 => d \in damaged

(* The SVID presented is the one this sidecar was told to present, never   *)
(* the delegate's own (delegated.go pick).                                 *)
PresentsWanted == Want # Any /\ cert # NoCert => cert.id = Want

(* An SVID the agent renews is served in the end, across stream failures   *)
(* and re-subscriptions, unless the last response brought a bad one, which *)
(* is skipped until the next push (delegated.go watchSVIDs).               *)
RenewalServed ==
  Want # Any =>
    ((issued[Want] > 0 /\ cert # [id |-> Want, leaf |-> issued[Want]])
       ~> (cert = [id |-> Want, leaf |-> issued[Want]]
             \/ skipped \/ ctxDone \/ ~Alive))

(* "a CA roll takes effect without restarting anything" (delegated.go):    *)
(* in the end peers are verified with the agent's current bundles, unless  *)
(* the last push did not parse in full.                                    *)
RollServed ==
  (bundles # rolled) ~> (bundles = rolled \/ damaged # {} \/ ctxDone \/ ~Alive)

(* The source keeps the promise of a rotating credSource: it signals when  *)
(* the leaf it serves has changed, and only then (delegated.go applySVID). *)
Source == INSTANCE CredSource
            WITH serving <- cert, owed <- (svidPc = "signal"),
                 pending <- rotated, NoSVID <- NoCert

SignalsRotations == Source!CSSpec
=============================================================================
