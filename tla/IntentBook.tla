----------------------------- MODULE IntentBook -----------------------------
(*****************************************************************************)
(* The on-chain intent registry (IntentBook.sol) with the snapshot registry  *)
(* it consults (SnapshotBook.sol) and the block clock.                       *)
(*                                                                           *)
(* A contract call is one step: it either reverts (no step) or applies all   *)
(* its writes.  Signatures are abstracted to their meaning: a batch holds    *)
(* the (nonce, expiry) pairs its verifiers really signed for the intent, so  *)
(* the ecrecover check holds of every batch considered.  Who holds the owner *)
(* and strategy-agent roles is not state here; a role-gated call is a step   *)
(* its holder may take.                                                      *)
(*****************************************************************************)
EXTENDS Naturals, FiniteSets

CONSTANTS
    Intents,         \* intent hashes
    Verifiers,       \* addresses that may be made verifiers
    Nonces,          \* nonces verifiers sign with
    Snapshots,       \* non-zero snapshot roots
    SnapshotBooks,   \* deployed snapshot registries
    Terms,           \* constraints a strategy agent proposes: records with
                     \*   route, maxSlippageBps, maxNotional, deadline
    WeightChoices,   \* verifier weights the owner sets
    ThresholdChoices,\* thresholds the owner sets
    MaxUint,         \* largest uint256
    MaxTime,         \* bound on block.timestamp
    Unset            \* the zero value of an intent that was never proposed

ASSUME IntentsFinite == IsFiniteSet(Intents)
ASSUME VerifiersFinite == IsFiniteSet(Verifiers)
ASSUME UintAssumption == MaxUint \in Nat /\ MaxUint > 0
ASSUME ClockAssumption == MaxTime \in Nat
ASSUME WeightAssumption == WeightChoices \subseteq 1..MaxUint
ASSUME ThresholdAssumption ==
    ThresholdChoices \subseteq 1..MaxUint /\ ThresholdChoices # {}
ASSUME TermsAssumption ==
    /\ \A t \in Terms : t.deadline \in Nat
    /\ Unset \notin Terms

VARIABLES
    now,                    \* block.timestamp
    published,              \* SnapshotBook.publishedAt # 0, per registry
    snapshotBook,           \* IntentBook.snapshotBook
    defaultThresholdWeight,
    configFrozen,
    isVerifier,             \* set of enabled verifiers
    verifierWeight,
    terms,                  \* intents[h].constraints, Unset if never proposed
    approved,               \* set of approved intents
    attestedWeight,
    thresholdWeight,
    hasAttested,            \* hasAttested[h]: verifiers counted for h
    usedNonce,              \* usedNonce[v]: nonces v has spent
    credit,                 \* history: weight v was credited with for h
    signedFor               \* history: intents for which nonce n of v was accepted

configVars == <<snapshotBook, defaultThresholdWeight, configFrozen,
                isVerifier, verifierWeight>>
intentVars == <<terms, approved, attestedWeight, thresholdWeight>>
attestVars == <<hasAttested, usedNonce, credit, signedFor>>
bookVars   == <<now, published, configVars, intentVars, attestVars>>

Exists(h) == terms[h] # Unset

(****************************************************************************)
(* The sum of w over S, as the number of weight units held by members of S: *)
(* a cardinality, so that the provers have the library's facts about it.    *)
(****************************************************************************)
Units(w, S) == {u \in S \X (1..MaxUint) : u[2] <= w[u[1]]}
Total(w, S) == Cardinality(Units(w, S))

InitBook ==
    /\ now = 0
    /\ published = [b \in SnapshotBooks |-> {}]
    /\ snapshotBook \in SnapshotBooks
    /\ defaultThresholdWeight \in ThresholdChoices
    /\ configFrozen = FALSE
    /\ isVerifier = {}
    /\ verifierWeight = [v \in Verifiers |-> 0]
    /\ terms = [h \in Intents |-> Unset]
    /\ approved = {}
    /\ attestedWeight = [h \in Intents |-> 0]
    /\ thresholdWeight = [h \in Intents |-> 0]
    /\ hasAttested = [h \in Intents |-> {}]
    /\ usedNonce = [v \in Verifiers |-> {}]
    /\ credit = [h \in Intents |-> [v \in Verifiers |-> 0]]
    /\ signedFor = [v \in Verifiers |-> [n \in Nonces |-> {}]]

-----------------------------------------------------------------------------
(* SnapshotBook *)

PublishSnapshot(b, s) ==
    /\ published' = [published EXCEPT ![b] = @ \cup {s}]
    /\ UNCHANGED <<now, configVars, intentVars, attestVars>>

IsSnapshotFinalized(s) == s \in published[snapshotBook]

-----------------------------------------------------------------------------
(* Owner configuration *)

ConfigNeverFrozen == TRUE                 \* mutant
ConfigMutable == ~configFrozen

SetSnapshotBook(b) ==
    /\ ConfigMutable
    /\ snapshotBook' = b
    /\ UNCHANGED <<now, published, defaultThresholdWeight, configFrozen,
                   isVerifier, verifierWeight, intentVars, attestVars>>

SetDefaultThresholdWeight(t) ==
    /\ ConfigMutable
    /\ defaultThresholdWeight' = t
    /\ UNCHANGED <<now, published, snapshotBook, configFrozen,
                   isVerifier, verifierWeight, intentVars, attestVars>>

EnableVerifier(v, w) ==
    /\ ConfigMutable
    /\ isVerifier' = isVerifier \cup {v}
    /\ verifierWeight' = [verifierWeight EXCEPT ![v] = w]
    /\ UNCHANGED <<now, published, snapshotBook, defaultThresholdWeight,
                   configFrozen, intentVars, attestVars>>

DisableVerifier(v) ==
    /\ ConfigMutable
    /\ isVerifier' = isVerifier \ {v}
    /\ verifierWeight' = [verifierWeight EXCEPT ![v] = 0]
    /\ UNCHANGED <<now, published, snapshotBook, defaultThresholdWeight,
                   configFrozen, intentVars, attestVars>>

FreezeConfig ==
    /\ ~configFrozen
    /\ configFrozen' = TRUE
    /\ UNCHANGED <<now, published, snapshotBook, defaultThresholdWeight,
                   isVerifier, verifierWeight, intentVars, attestVars>>

-----------------------------------------------------------------------------
(* Proposal: the threshold in force is copied into the intent. *)

ProposeIntent(h, s, t) ==
    /\ IsSnapshotFinalized(s)
    /\ t.deadline > now
    /\ ~Exists(h)
    /\ terms' = [terms EXCEPT ![h] = t]
    /\ thresholdWeight' = [thresholdWeight EXCEPT ![h] = defaultThresholdWeight]
    /\ UNCHANGED <<now, published, configVars, approved, attestedWeight, attestVars>>

-----------------------------------------------------------------------------
(* Attestation.  A batch b maps each verifier in it to the nonce and expiry *)
(* it signed.  The loop of the code marks each entry as it goes, so a batch *)
(* naming one verifier twice always reverts with DuplicateAttestation; the  *)
(* batches that can succeed are the functions on a non-empty set, and the   *)
(* order of their entries does not matter.                                  *)

Attestations == [nonce : Nonces, expiresAt : 0..(MaxTime + 1)]
Batches == UNION {[S -> Attestations] : S \in (SUBSET Verifiers) \ {{}}}

OpenForever(h) == TRUE                    \* mutant
Open(h) == h \notin approved
NotExpired(h) == terms[h].deadline > now

FreshUnchecked(v, n) == TRUE              \* mutant
FreshNonce(v, n) == n \notin usedNonce[v]

Acceptable(h, v, a) ==
    /\ v \in isVerifier
    /\ v \notin hasAttested[h]
    /\ a.expiresAt > now
    /\ FreshNonce(v, a.nonce)

RunningWeight(h, b) == attestedWeight[h] + Total(verifierWeight, DOMAIN b)

UncheckedAdd(x) == TRUE                   \* mutant
FitsUint(x) == x <= MaxUint               \* checked addition reverts otherwise

QuorumByDefault(h, weight) == weight >= defaultThresholdWeight   \* mutant
Quorum(h, weight) == weight >= thresholdWeight[h]

AttestIntent(h, b) ==
    LET running == RunningWeight(h, b) IN
    /\ Exists(h)
    /\ Open(h)
    /\ NotExpired(h)
    /\ \A v \in DOMAIN b : Acceptable(h, v, b[v])
    /\ FitsUint(running)
    /\ attestedWeight' = [attestedWeight EXCEPT ![h] = running]
    /\ approved' = IF Quorum(h, running) THEN approved \cup {h} ELSE approved
    /\ hasAttested' = [hasAttested EXCEPT ![h] = @ \cup DOMAIN b]
    /\ usedNonce' = [v \in Verifiers |->
                        IF v \in DOMAIN b THEN usedNonce[v] \cup {b[v].nonce}
                                          ELSE usedNonce[v]]
    /\ credit' = [credit EXCEPT ![h] = [v \in Verifiers |->
                        IF v \in DOMAIN b THEN verifierWeight[v] ELSE @[v]]]
    /\ signedFor' = [v \in Verifiers |-> [n \in Nonces |->
                        IF v \in DOMAIN b /\ b[v].nonce = n
                        THEN signedFor[v][n] \cup {h} ELSE signedFor[v][n]]]
    /\ UNCHANGED <<now, published, configVars, terms, thresholdWeight>>

-----------------------------------------------------------------------------

Tick ==
    /\ now < MaxTime
    /\ now' = now + 1
    /\ UNCHANGED <<published, configVars, intentVars, attestVars>>

OwnerStep ==
    \/ \E b \in SnapshotBooks : SetSnapshotBook(b)
    \/ \E t \in ThresholdChoices : SetDefaultThresholdWeight(t)
    \/ \E v \in Verifiers, w \in WeightChoices : EnableVerifier(v, w)
    \/ \E v \in Verifiers : DisableVerifier(v)
    \/ FreezeConfig

BookStep ==
    \/ Tick
    \/ OwnerStep
    \/ \E b \in SnapshotBooks, s \in Snapshots : PublishSnapshot(b, s)
    \/ \E h \in Intents, s \in Snapshots, t \in Terms : ProposeIntent(h, s, t)
    \/ \E h \in Intents, b \in Batches : AttestIntent(h, b)

-----------------------------------------------------------------------------
(* Types and the strengthening of the approval invariant. *)

BookTypeOK ==
    /\ now \in 0..MaxTime
    /\ published \in [SnapshotBooks -> SUBSET Snapshots]
    /\ snapshotBook \in SnapshotBooks
    /\ defaultThresholdWeight \in ThresholdChoices
    /\ configFrozen \in BOOLEAN
    /\ isVerifier \subseteq Verifiers
    /\ verifierWeight \in [Verifiers -> 0..MaxUint]
    /\ terms \in [Intents -> Terms \cup {Unset}]
    /\ approved \subseteq Intents
    /\ attestedWeight \in [Intents -> 0..MaxUint]
    /\ thresholdWeight \in [Intents -> 0..MaxUint]
    /\ hasAttested \in [Intents -> SUBSET Verifiers]
    /\ usedNonce \in [Verifiers -> SUBSET Nonces]
    /\ credit \in [Intents -> [Verifiers -> 0..MaxUint]]
    /\ signedFor \in [Verifiers -> [Nonces -> SUBSET Intents]]

(* A verifier carries weight exactly while it is enabled. *)
WeightsOfEnabled ==
    \A v \in Verifiers : IF v \in isVerifier THEN verifierWeight[v] > 0
                                             ELSE verifierWeight[v] = 0

(* An intent nobody proposed has no attestation; a proposed one has a bar. *)
UnproposedIsEmpty ==
    \A h \in Intents : IF Exists(h) THEN thresholdWeight[h] > 0
                                    ELSE hasAttested[h] = {}

(* hasAttested is exactly the set of verifiers credited for the intent. *)
CreditedOnce ==
    \A h \in Intents, v \in Verifiers : v \in hasAttested[h] <=> credit[h][v] > 0

(* A nonce is spent exactly by the intents it was accepted for, each of which *)
(* counts its verifier.                                                       *)
NoncesSpent ==
    \A v \in Verifiers, n \in Nonces :
        /\ n \in usedNonce[v] <=> signedFor[v][n] # {}
        /\ \A h \in signedFor[v][n] : v \in hasAttested[h]

(***************************************************************************)
(* The weight stored for an intent is the sum of the weights its distinct  *)
(* verifiers had when each attested, whatever the owner changed since, and *)
(* the intent is approved exactly when that sum reached the threshold that *)
(* was in force at its proposal.                                           *)
(***************************************************************************)
ApprovalIsQuorum ==
    \A h \in Intents :
        /\ attestedWeight[h] = Total(credit[h], Verifiers)
        /\ h \in approved <=> Exists(h) /\ attestedWeight[h] >= thresholdWeight[h]

(***************************************************************************)
(* A nonce a verifier signed with backs at most one intent, and a verifier *)
(* backs an intent with at most one nonce, across all batches and intents. *)
(***************************************************************************)
NonceBacksOneIntent ==
    \A v \in Verifiers :
        /\ \A n \in Nonces : \A g, h \in signedFor[v][n] : g = h
        /\ \A m, n \in Nonces : signedFor[v][m] \cap signedFor[v][n] # {} => m = n

(***************************************************************************)
(* Once approved, an intent never changes again: no later attestation,     *)
(* verifier change or threshold change touches it.                         *)
(***************************************************************************)
ApprovedIsFinal ==
    [][\A h \in approved :
        /\ h \in approved'
        /\ terms'[h] = terms[h]
        /\ attestedWeight'[h] = attestedWeight[h]
        /\ thresholdWeight'[h] = thresholdWeight[h]
        /\ credit'[h] = credit[h]]_bookVars

(* The weight h can still reach if every enabled verifier left attests. *)
Reachable(h) ==
    attestedWeight[h] + Total(verifierWeight, Verifiers \ hasAttested[h])

(******************************************************************************)
(* After freezeConfig the quorum arithmetic is settled: the weight a proposed *)
(* intent can still reach never grows, so one that cannot reach its threshold *)
(* is never approved.                                                         *)
(******************************************************************************)
FrozenQuorumIsSettled ==
    [][configFrozen => \A h \in Intents :
          /\ Exists(h) => Reachable(h)' <= Reachable(h)
          /\ Exists(h) /\ Reachable(h) < thresholdWeight[h] => h \notin approved']_bookVars
=============================================================================
