--------------------------- MODULE ClawCoreProofs ---------------------------
(***************************************************************************)
(* Proofs about the settlement core, for any finite set of intents and     *)
(* verifiers, any terms and weights, and any uint width.                   *)
(***************************************************************************)
EXTENDS ClawCore, FiniteSetTheorems, TLAPS

-----------------------------------------------------------------------------
(* Sums of weights *)

(* A sum over verifiers is a natural number, of a finite set of units. *)
LEMMA TotalType ==
    ASSUME NEW w, NEW S \in SUBSET Verifiers
    PROVE  IsFiniteSet(Units(w, S)) /\ Total(w, S) \in Nat
<1>1. IsFiniteSet(S)
    BY VerifiersFinite, FS_Subset
<1>2. IsFiniteSet(1..MaxUint)
    BY UintAssumption, FS_Interval
<1>3. IsFiniteSet(S \X (1..MaxUint))
    BY <1>1, <1>2, FS_Product
<1>4. IsFiniteSet(Units(w, S))
    BY <1>3, FS_Subset DEF Units
<1> QED
    BY <1>4, FS_CardinalityType DEF Total

(* Only the weights of the members count. *)
LEMMA TotalOfSame ==
    ASSUME NEW w, NEW x, NEW S, \A v \in S : w[v] = x[v]
    PROVE  Total(w, S) = Total(x, S)
<1>1. Units(w, S) = Units(x, S)
    BY DEF Units
<1> QED
    BY <1>1 DEF Total

(* A sum splits over disjoint parts. *)
LEMMA TotalOfParts ==
    ASSUME NEW w, NEW S \in SUBSET Verifiers, NEW T \in SUBSET Verifiers,
           S \cap T = {}
    PROVE  Total(w, S \cup T) = Total(w, S) + Total(w, T)
<1>1. Units(w, S \cup T) = Units(w, S) \cup Units(w, T)
    BY DEF Units
<1>2. Units(w, S) \cap Units(w, T) = {}
    BY DEF Units
<1>3. Cardinality(Units(w, S) \cap Units(w, T)) = 0
    BY <1>2, FS_EmptySet
<1>4. Cardinality(Units(w, S) \cup Units(w, T))
        = Cardinality(Units(w, S)) + Cardinality(Units(w, T))
          - Cardinality(Units(w, S) \cap Units(w, T))
    BY TotalType, FS_Union
<1>5. Total(w, S) \in Nat /\ Total(w, T) \in Nat
    BY TotalType
<1> QED
    BY <1>1, <1>3, <1>4, <1>5 DEF Total

(* A sum of zeros is zero. *)
LEMMA TotalOfZeros ==
    ASSUME NEW w, NEW S, \A v \in S : w[v] = 0
    PROVE  Total(w, S) = 0
<1>1. Units(w, S) = {}
    BY DEF Units
<1> QED
    BY <1>1, FS_EmptySet DEF Total

(* A part weighs no more than the whole. *)
LEMMA TotalOfSubset ==
    ASSUME NEW w, NEW S \in SUBSET Verifiers, NEW T \in SUBSET S
    PROVE  Total(w, T) <= Total(w, S)
<1>1. Units(w, T) \subseteq Units(w, S)
    BY DEF Units
<1> QED
    BY <1>1, TotalType, FS_Subset DEF Total
-----------------------------------------------------------------------------
(* The intent book *)

(* An empty book satisfies the book's invariant. *)
LEMMA BookInit == InitBook => BookInv
<1> SUFFICES ASSUME InitBook PROVE BookInv
    OBVIOUS
<1> USE DEF InitBook
<1>1. BookTypeOK
  <2>1. credit \in [Intents -> [Verifiers -> 0..MaxUint]]
      BY UintAssumption
  <2>2. signedFor \in [Verifiers -> [Nonces -> SUBSET Intents]]
      OBVIOUS
  <2>3. now \in 0..MaxTime
      BY ClockAssumption
  <2>4. /\ verifierWeight \in [Verifiers -> 0..MaxUint]
        /\ attestedWeight \in [Intents -> 0..MaxUint]
        /\ thresholdWeight \in [Intents -> 0..MaxUint]
      BY UintAssumption
  <2>5. /\ published \in [SnapshotBooks -> SUBSET Snapshots]
        /\ terms \in [Intents -> Terms \cup {Unset}]
        /\ hasAttested \in [Intents -> SUBSET Verifiers]
        /\ usedNonce \in [Verifiers -> SUBSET Nonces]
      OBVIOUS
  <2>6. /\ snapshotBook \in SnapshotBooks
        /\ defaultThresholdWeight \in ThresholdChoices
        /\ configFrozen \in BOOLEAN
        /\ isVerifier \subseteq Verifiers
        /\ approved \subseteq Intents
      OBVIOUS
  <2> HIDE DEF InitBook
  <2> QED
      BY <2>1, <2>2, <2>3, <2>4, <2>5, <2>6 DEF BookTypeOK
<1>2. WeightsOfEnabled /\ UnproposedIsEmpty /\ CreditedOnce
    BY DEF WeightsOfEnabled, UnproposedIsEmpty, CreditedOnce, Exists
<1>3. ApprovalIsQuorum
  <2>1. \A h \in Intents : Total(credit[h], Verifiers) = 0
      BY TotalOfZeros
  <2> QED
      BY <2>1 DEF ApprovalIsQuorum, Exists
<1>4. NoncesSpent /\ NonceBacksOneIntent
    BY DEF NoncesSpent, NonceBacksOneIntent
<1> QED
    BY <1>1, <1>2, <1>3, <1>4 DEF BookInv

(* Configuring, publishing and waiting leave every intent as it was. *)
LEMMA QuietInv ==
    ASSUME BookInv, UNCHANGED <<intentVars, attestVars>>,
           BookTypeOK', WeightsOfEnabled'
    PROVE  BookInv'
<1> USE DEF intentVars, attestVars
<1>1. UnproposedIsEmpty' /\ CreditedOnce'
    BY DEF BookInv, UnproposedIsEmpty, CreditedOnce, Exists
<1>2. ApprovalIsQuorum'
    BY DEF BookInv, ApprovalIsQuorum, Exists, Total, Units
<1>3. NoncesSpent' /\ NonceBacksOneIntent'
    BY DEF BookInv, NoncesSpent, NonceBacksOneIntent
<1> QED
    BY <1>1, <1>2, <1>3 DEF BookInv

(* Freezing and changes of verifiers, weights and defaults keep it. *)
LEMMA OwnerInv ==
    ASSUME BookInv, OwnerStep \/ Tick
           \/ \E b \in SnapshotBooks, s \in Snapshots : PublishSnapshot(b, s)
    PROVE  BookInv' /\ UNCHANGED <<intentVars, attestVars>>
<1> USE DEF BookInv, BookTypeOK, WeightsOfEnabled, configVars, intentVars, attestVars
<1>1. CASE Tick
  <2>1. BookTypeOK' /\ WeightsOfEnabled'
      BY <1>1, ClockAssumption DEF Tick
  <2> QED
      BY <1>1, <2>1, QuietInv DEF Tick
<1>2. ASSUME NEW b \in SnapshotBooks, NEW s \in Snapshots, PublishSnapshot(b, s)
      PROVE  BookInv' /\ UNCHANGED <<intentVars, attestVars>>
  <2>1. BookTypeOK' /\ WeightsOfEnabled'
      BY <1>2 DEF PublishSnapshot
  <2> QED
      BY <1>2, <2>1, QuietInv DEF PublishSnapshot
<1>3. ASSUME NEW b \in SnapshotBooks, SetSnapshotBook(b)
      PROVE  BookInv' /\ UNCHANGED <<intentVars, attestVars>>
  <2>1. BookTypeOK' /\ WeightsOfEnabled'
      BY <1>3 DEF SetSnapshotBook
  <2> QED
      BY <1>3, <2>1, QuietInv DEF SetSnapshotBook
<1>4. ASSUME NEW t \in ThresholdChoices, SetDefaultThresholdWeight(t)
      PROVE  BookInv' /\ UNCHANGED <<intentVars, attestVars>>
  <2>1. BookTypeOK' /\ WeightsOfEnabled'
      BY <1>4 DEF SetDefaultThresholdWeight
  <2> QED
      BY <1>4, <2>1, QuietInv DEF SetDefaultThresholdWeight
<1>5. ASSUME NEW v \in Verifiers, NEW w \in WeightChoices, EnableVerifier(v, w)
      PROVE  BookInv' /\ UNCHANGED <<intentVars, attestVars>>
  <2>1. BookTypeOK' /\ WeightsOfEnabled'
      BY <1>5, WeightAssumption DEF EnableVerifier
  <2> QED
      BY <1>5, <2>1, QuietInv DEF EnableVerifier
<1>6. ASSUME NEW v \in Verifiers, DisableVerifier(v)
      PROVE  BookInv' /\ UNCHANGED <<intentVars, attestVars>>
  <2>1. BookTypeOK' /\ WeightsOfEnabled'
      BY <1>6, UintAssumption DEF DisableVerifier
  <2> QED
      BY <1>6, <2>1, QuietInv DEF DisableVerifier
<1>7. CASE FreezeConfig
  <2>1. BookTypeOK' /\ WeightsOfEnabled'
      BY <1>7 DEF FreezeConfig
  <2> QED
      BY <1>7, <2>1, QuietInv DEF FreezeConfig
<1> QED
    BY <1>1, <1>2, <1>3, <1>4, <1>5, <1>6, <1>7 DEF OwnerStep

(* A new intent starts with no attestation and a threshold of its own. *)
LEMMA ProposeInv ==
    ASSUME BookInv, NEW h \in Intents, NEW s \in Snapshots, NEW t \in Terms,
           ProposeIntent(h, s, t)
    PROVE  BookInv'
<1> USE DEF BookInv, ProposeIntent, configVars, attestVars
<1>1. BookTypeOK'
    BY ThresholdAssumption DEF BookTypeOK
<1>2. WeightsOfEnabled'
    BY DEF WeightsOfEnabled
<1>3. defaultThresholdWeight > 0
    BY ThresholdAssumption, UintAssumption DEF BookTypeOK
<1>4. UnproposedIsEmpty' /\ CreditedOnce'
    BY <1>3, TermsAssumption
       DEF UnproposedIsEmpty, CreditedOnce, Exists, BookTypeOK
<1>5. ApprovalIsQuorum'
  <2>1. \A v \in Verifiers : credit[h][v] = 0
      BY DEF CreditedOnce, UnproposedIsEmpty, BookTypeOK
  <2>2. Total(credit[h], Verifiers) = 0
      BY <2>1, TotalOfZeros
  <2>3. attestedWeight[h] = 0 /\ h \notin approved
      BY <2>2 DEF ApprovalIsQuorum
  <2>4. thresholdWeight'[h] = defaultThresholdWeight /\ attestedWeight' = attestedWeight
        /\ approved' = approved /\ credit' = credit
      BY DEF BookTypeOK
  <2>5. ~ (attestedWeight'[h] >= thresholdWeight'[h])
      BY <1>3, <2>3, <2>4, ThresholdAssumption, UintAssumption DEF BookTypeOK
  <2>6. \A g \in Intents \ {h} : thresholdWeight'[g] = thresholdWeight[g]
                                 /\ terms'[g] = terms[g]
      BY DEF BookTypeOK
  <2> QED
      BY <2>3, <2>4, <2>5, <2>6 DEF ApprovalIsQuorum, Exists, Total, Units
<1>6. NoncesSpent' /\ NonceBacksOneIntent'
    BY DEF NoncesSpent, NonceBacksOneIntent
<1> QED
    BY <1>1, <1>2, <1>4, <1>5, <1>6
(* What a batch adds is the weight its verifiers have now, all of it new. *)
LEMMA CreditGrows ==
    ASSUME BookInv, NEW h \in Intents, NEW b \in Batches, AttestIntent(h, b)
    PROVE  /\ Total(credit'[h], Verifiers)
                = Total(credit[h], Verifiers) + Total(verifierWeight, DOMAIN b)
           /\ Total(credit[h], Verifiers) \in Nat
           /\ Total(verifierWeight, DOMAIN b) \in Nat
<1> DEFINE D == DOMAIN b
           R == Verifiers \ D
<1>1. D \subseteq Verifiers
    BY DEF Batches
<1>2. Verifiers = R \cup D /\ R \cap D = {} /\ R \subseteq Verifiers
    BY <1>1
<1>3. \A v \in Verifiers : credit'[h][v] = IF v \in D THEN verifierWeight[v]
                                                      ELSE credit[h][v]
    BY DEF AttestIntent, BookInv, BookTypeOK
<1>4. \A v \in D : credit[h][v] = 0
    BY <1>1 DEF AttestIntent, Acceptable, BookInv, CreditedOnce, BookTypeOK
<1> HIDE DEF R
<1>5. Total(credit'[h], R) = Total(credit[h], R)
    BY <1>2, <1>3, TotalOfSame
<1>6. Total(credit'[h], D) = Total(verifierWeight, D)
    BY <1>1, <1>3, TotalOfSame
<1>7. Total(credit[h], D) = 0
    BY <1>4, TotalOfZeros
<1>8. Total(credit'[h], Verifiers) = Total(credit'[h], R) + Total(credit'[h], D)
    BY <1>1, <1>2, TotalOfParts
<1>9. Total(credit[h], Verifiers) = Total(credit[h], R) + Total(credit[h], D)
    BY <1>1, <1>2, TotalOfParts
<1>10. /\ Total(credit[h], R) \in Nat
       /\ Total(verifierWeight, D) \in Nat
       /\ Total(credit[h], Verifiers) \in Nat
    BY <1>1, <1>2, TotalType
<1> QED
    BY <1>5, <1>6, <1>7, <1>8, <1>9, <1>10

(* A batch keeps sums, nonces and quorums in step. *)
LEMMA AttestInv ==
    ASSUME BookInv, NEW h \in Intents, NEW b \in Batches, AttestIntent(h, b)
    PROVE  BookInv'
<1> DEFINE D == DOMAIN b
           gain == Total(verifierWeight, D)
<1> USE DEF configVars
<1>1. D \subseteq Verifiers /\ D # {} /\ b \in [D -> Attestations]
    BY DEF Batches
<1>2. \A v \in D : /\ v \in isVerifier /\ v \notin hasAttested[h]
                   /\ b[v].nonce \in Nonces /\ b[v].nonce \notin usedNonce[v]
    BY <1>1 DEF AttestIntent, Acceptable, FreshNonce, Attestations
<1>3. /\ attestedWeight[h] \in 0..MaxUint
      /\ gain \in Nat
      /\ attestedWeight[h] = Total(credit[h], Verifiers)
    BY CreditGrows DEF BookInv, BookTypeOK, ApprovalIsQuorum
<1>4. /\ attestedWeight' = [attestedWeight EXCEPT ![h] = attestedWeight[h] + gain]
      /\ attestedWeight[h] + gain <= MaxUint
    BY DEF AttestIntent, RunningWeight, FitsUint
<1>5. BookTypeOK'
  <2>1. attestedWeight' \in [Intents -> 0..MaxUint]
      BY <1>3, <1>4, UintAssumption DEF BookInv, BookTypeOK
  <2>2. approved' \subseteq Intents
      BY DEF AttestIntent, BookInv, BookTypeOK
  <2>3. hasAttested' \in [Intents -> SUBSET Verifiers]
      BY <1>1 DEF AttestIntent, BookInv, BookTypeOK
  <2>4. usedNonce' \in [Verifiers -> SUBSET Nonces]
      BY <1>2 DEF AttestIntent, BookInv, BookTypeOK
  <2>5. credit' \in [Intents -> [Verifiers -> 0..MaxUint]]
      BY DEF AttestIntent, BookInv, BookTypeOK
  <2>6. signedFor' \in [Verifiers -> [Nonces -> SUBSET Intents]]
      BY DEF AttestIntent, BookInv, BookTypeOK
  <2> QED
      BY <2>1, <2>2, <2>3, <2>4, <2>5, <2>6 DEF AttestIntent, BookInv, BookTypeOK
<1>6. WeightsOfEnabled'
    BY DEF AttestIntent, BookInv, WeightsOfEnabled
<1>7. UnproposedIsEmpty'
    BY DEF AttestIntent, BookInv, BookTypeOK, UnproposedIsEmpty, Exists
<1>8. CreditedOnce'
  <2>1. \A v \in D : verifierWeight[v] > 0
      BY <1>1, <1>2 DEF BookInv, WeightsOfEnabled
  <2>2. \A g \in Intents, v \in Verifiers :
            credit'[g][v] = IF g = h /\ v \in D THEN verifierWeight[v] ELSE credit[g][v]
      BY DEF AttestIntent, BookInv, BookTypeOK
  <2>3. \A g \in Intents :
            hasAttested'[g] = IF g = h THEN hasAttested[g] \cup D ELSE hasAttested[g]
      BY DEF AttestIntent, BookInv, BookTypeOK
  <2> SUFFICES ASSUME NEW g \in Intents, NEW v \in Verifiers
               PROVE  v \in hasAttested'[g] <=> credit'[g][v] > 0
      BY DEF CreditedOnce
  <2>4. v \in hasAttested[g] <=> credit[g][v] > 0
      BY DEF BookInv, CreditedOnce
  <2>5. CASE g = h /\ v \in D
      BY <2>1, <2>2, <2>3, <2>5
  <2>6. CASE ~ (g = h /\ v \in D)
      BY <2>2, <2>3, <2>4, <2>6
  <2> QED
      BY <2>5, <2>6
<1>9. ApprovalIsQuorum'
  <2>1. attestedWeight'[h] = Total(credit'[h], Verifiers)
      BY <1>3, <1>4, CreditGrows DEF BookInv, BookTypeOK
  <2>2. \A g \in Intents \ {h} : attestedWeight'[g] = attestedWeight[g]
                                 /\ credit'[g] = credit[g]
      BY <1>4 DEF AttestIntent, BookInv, BookTypeOK
  <2>3. \A g \in Intents \ {h} : Total(credit'[g], Verifiers) = Total(credit[g], Verifiers)
      BY <2>2
  <2>4. h \in approved' <=> attestedWeight'[h] >= thresholdWeight'[h]
      BY <1>4 DEF AttestIntent, RunningWeight, Quorum, Open, BookInv, BookTypeOK
  <2>5. \A g \in Intents \ {h} : g \in approved' <=> g \in approved
      BY DEF AttestIntent
  <2>6. Exists(h)' /\ \A g \in Intents : Exists(g)' <=> Exists(g)
      BY DEF AttestIntent, Exists
  <2>7. thresholdWeight' = thresholdWeight
      BY DEF AttestIntent
  <2>8. \A g \in Intents : Total(credit[g], Verifiers)' = Total(credit'[g], Verifiers)
      BY DEF Total, Units
  <2> QED
      BY <2>1, <2>2, <2>3, <2>4, <2>5, <2>6, <2>7, <2>8 DEF BookInv, ApprovalIsQuorum
<1>10. \A v \in Verifiers, n \in Nonces :
         signedFor'[v][n] = IF v \in D /\ b[v].nonce = n THEN signedFor[v][n] \cup {h}
                                                         ELSE signedFor[v][n]
    BY DEF AttestIntent
<1>11. NoncesSpent'
  <2>1. \A v \in Verifiers :
           usedNonce'[v] = IF v \in D THEN usedNonce[v] \cup {b[v].nonce} ELSE usedNonce[v]
      BY DEF AttestIntent
  <2>2. \A g \in Intents :
            hasAttested'[g] = IF g = h THEN hasAttested[g] \cup D ELSE hasAttested[g]
      BY DEF AttestIntent, BookInv, BookTypeOK
  <2> SUFFICES ASSUME NEW v \in Verifiers, NEW n \in Nonces
               PROVE  /\ n \in usedNonce'[v] <=> signedFor'[v][n] # {}
                      /\ \A g \in signedFor'[v][n] : v \in hasAttested'[g]
      BY DEF NoncesSpent
  <2>3. /\ n \in usedNonce[v] <=> signedFor[v][n] # {}
        /\ signedFor[v][n] \subseteq Intents
        /\ \A g \in signedFor[v][n] : v \in hasAttested[g]
      BY DEF BookInv, BookTypeOK, NoncesSpent
  <2> HIDE DEF D
  <2>6. /\ \A g \in Intents : hasAttested[g] \subseteq hasAttested'[g]
        /\ v \in D => v \in hasAttested'[h]
      BY <2>2
  <2>4. CASE v \in D /\ b[v].nonce = n
    <3>1. usedNonce'[v] = usedNonce[v] \cup {n} /\ signedFor'[v][n] = signedFor[v][n] \cup {h}
        BY <1>10, <2>1, <2>4
    <3> QED
        BY <2>6, <2>3, <2>4, <3>1
  <2>5. CASE ~ (v \in D /\ b[v].nonce = n)
    <3>1. (n \in usedNonce'[v] <=> n \in usedNonce[v]) /\ signedFor'[v][n] = signedFor[v][n]
        BY <1>10, <2>1, <2>5
    <3> QED
        BY <2>6, <2>3, <3>1
  <2> QED
      BY <2>4, <2>5
<1>12. NonceBacksOneIntent'
  <2>1. \A v \in D : signedFor[v][b[v].nonce] = {}
      BY <1>1, <1>2 DEF BookInv, NoncesSpent
  <2>2. \A v \in D, n \in Nonces : h \notin signedFor[v][n]
      BY <1>1, <1>2 DEF BookInv, NoncesSpent
  <2>3. ASSUME NEW v \in Verifiers
        PROVE  /\ \A n \in Nonces : \A f, g \in signedFor'[v][n] : f = g
               /\ \A m, n \in Nonces :
                    signedFor'[v][m] \cap signedFor'[v][n] # {} => m = n
    <3>1. /\ \A n \in Nonces : \A f, g \in signedFor[v][n] : f = g
          /\ \A m, n \in Nonces :
                signedFor[v][m] \cap signedFor[v][n] # {} => m = n
        BY DEF BookInv, NonceBacksOneIntent
    <3> HIDE DEF D
    <3>2. CASE v \notin D
        BY <1>10, <3>1, <3>2
    <3>3. CASE v \in D
      <4>1. \A n \in Nonces : signedFor'[v][n] = IF n = b[v].nonce THEN {h}
                                                                  ELSE signedFor[v][n]
          BY <1>10, <2>1, <3>3
      <4> QED
          BY <2>2, <3>1, <3>3, <4>1
    <3> QED
        BY <3>2, <3>3
  <2> QED
      BY <2>3 DEF NonceBacksOneIntent
<1> QED
    BY <1>5, <1>6, <1>7, <1>8, <1>9, <1>11, <1>12 DEF BookInv

(* The book's invariant is kept by every call and by the clock. *)
LEMMA BookStepInv == BookInv /\ BookStep => BookInv'
    BY OwnerInv, ProposeInv, AttestInv DEF BookStep
(* No call changes what concerns an approved intent. *)
LEMMA BookKeepsApproved ==
    ASSUME BookInv, BookStep, NEW h \in approved
    PROVE  /\ h \in approved'
           /\ terms'[h] = terms[h]
           /\ attestedWeight'[h] = attestedWeight[h]
           /\ thresholdWeight'[h] = thresholdWeight[h]
           /\ credit'[h] = credit[h]
<1> USE DEF BookInv, BookTypeOK
<1>1. h \in Intents /\ Exists(h)
    BY DEF ApprovalIsQuorum
<1>2. CASE UNCHANGED <<intentVars, attestVars>>
    BY <1>2 DEF intentVars, attestVars
<1>3. ASSUME NEW g \in Intents, NEW s \in Snapshots, NEW t \in Terms,
             ProposeIntent(g, s, t)
      PROVE  /\ h \in approved'
             /\ terms'[h] = terms[h]
             /\ attestedWeight'[h] = attestedWeight[h]
             /\ thresholdWeight'[h] = thresholdWeight[h]
             /\ credit'[h] = credit[h]
    BY <1>1, <1>3 DEF ProposeIntent, attestVars
<1>4. ASSUME NEW g \in Intents, NEW b \in Batches, AttestIntent(g, b)
      PROVE  /\ h \in approved'
             /\ terms'[h] = terms[h]
             /\ attestedWeight'[h] = attestedWeight[h]
             /\ thresholdWeight'[h] = thresholdWeight[h]
             /\ credit'[h] = credit[h]
    BY <1>1, <1>4 DEF AttestIntent, Open
<1> QED
    BY <1>2, <1>3, <1>4, OwnerInv DEF BookStep

-----------------------------------------------------------------------------
(* The settlement core *)

(* Nothing executed, no call open: the whole invariant holds at first. *)
LEMMA InitInv == Init => IInv
<1> SUFFICES ASSUME Init PROVE IInv
    OBVIOUS
<1>1. BookInv
    BY BookInit DEF Init
<1>2. TypeOK
    BY <1>1 DEF BookInv, TypeOK, Init, InitCore
<1>3. OneCallOpen /\ SettledAtMostOnce /\ ExecutedWasApproved
    BY DEF OneCallOpen, SettledAtMostOnce, ExecutedWasApproved, Init, InitCore
<1> QED
    BY <1>1, <1>2, <1>3 DEF IInv

(* What the core's own steps leave of the book's invariant: all of it. *)
LEMMA BookUnchanged ==
    ASSUME BookInv, UNCHANGED bookVars
    PROVE  BookInv'
<1> USE DEF bookVars, configVars, intentVars, attestVars
<1>1. BookTypeOK' /\ WeightsOfEnabled'
    BY DEF BookInv, BookTypeOK, WeightsOfEnabled
<1> QED
    BY <1>1, QuietInv

(* Every call, and every half of executeIntent, keeps the whole invariant. *)
LEMMA NextInv == IInv /\ [Next]_vars => IInv'
<1> SUFFICES ASSUME IInv, [Next]_vars PROVE IInv'
    OBVIOUS
<1> USE DEF IInv, TypeOK
<1>1. CASE Idle /\ BookStep /\ UNCHANGED coreVars
  <2>1. BookInv'
      BY <1>1, BookStepInv
  <2>2. TypeOK'
      BY <1>1, <2>1 DEF BookInv, coreVars
  <2>3. OneCallOpen'
      BY <1>1 DEF OneCallOpen, Idle, coreVars
  <2>4. SettledAtMostOnce'
      BY <1>1 DEF SettledAtMostOnce, coreVars
  <2>5. ExecutedWasApproved'
      BY <1>1, BookKeepsApproved DEF ExecutedWasApproved, coreVars
  <2> QED
      BY <2>1, <2>2, <2>3, <2>4, <2>5
<1>2. ASSUME NEW h \in Intents, NEW r \in Routes, NEW a \in Amounts,
             BeginExecute(h, r, a)
      PROVE  IInv'
  <2> USE <1>2 DEF BeginExecute
  <2>1. BookInv'
      BY BookUnchanged
  <2>2. inFlight' = [inFlight EXCEPT ![h] = 1] /\ \A g \in Intents : inFlight[g] = 0
    <3>1. \A g \in Intents : inFlight[g] = 0
        BY DEF VaultUnlocked, Idle
    <3>2. inFlight[h] + 1 = 1
        BY <3>1
    <3> QED
        BY <3>1, <3>2
  <2>3. TypeOK'
      BY <2>1, <2>2 DEF BookInv
  <2>4. OneCallOpen'
      BY <2>2 DEF OneCallOpen, ValidExecution, Approved, NotExecuted, bookVars, intentVars
  <2>5. SettledAtMostOnce' /\ ExecutedWasApproved'
      BY DEF SettledAtMostOnce, ExecutedWasApproved, bookVars, intentVars
  <2> QED
      BY <2>1, <2>3, <2>4, <2>5
<1>3. ASSUME NEW h \in Intents, FinishExecute(h)
      PROVE  IInv'
  <2> USE <1>3 DEF FinishExecute
  <2>1. BookInv'
      BY BookUnchanged
  <2>2. /\ inFlight[h] = 1
        /\ h \in approved \ executedIntent
        /\ terms[h].route # NoRoute
        /\ \A g \in Intents \ {h} : inFlight[g] = 0
      BY DEF OneCallOpen
  <2>3. inFlight' = [g \in Intents |-> 0]
    <3>1. inFlight[h] - 1 = 0
        BY <2>2
    <3> QED
        BY <2>2, <3>1
  <2>4. traded[h] = 0 /\ traded' = [traded EXCEPT ![h] = 1]
    <3>1. traded[h] \in Nat /\ traded[h] <= 1 /\ traded[h] # 1
        BY <2>2 DEF SettledAtMostOnce
    <3>2. traded[h] = 0 /\ traded[h] + 1 = 1
        BY <3>1
    <3> QED
        BY <3>2
  <2>5. TypeOK'
      BY <2>1, <2>3, <2>4 DEF BookInv
  <2>6. OneCallOpen'
      BY <2>3 DEF OneCallOpen
  <2>7. SettledAtMostOnce'
      BY <2>4 DEF SettledAtMostOnce
  <2>8. ExecutedWasApproved'
      BY <2>2 DEF ExecutedWasApproved, bookVars, intentVars
  <2> QED
      BY <2>1, <2>5, <2>6, <2>7, <2>8
<1>4. ASSUME NEW h \in Intents, RevertExecute(h)
      PROVE  IInv'
  <2> USE <1>4 DEF RevertExecute
  <2>1. BookInv'
      BY BookUnchanged
  <2>2. inFlight' = [g \in Intents |-> 0]
    <3>1. inFlight[h] = 1
        BY DEF OneCallOpen
    <3>2. \A g \in Intents \ {h} : inFlight[g] = 0
        BY <3>1 DEF OneCallOpen
    <3>3. inFlight[h] - 1 = 0
        BY <3>1
    <3> QED
        BY <3>2, <3>3
  <2>3. TypeOK'
      BY <2>1, <2>2 DEF BookInv
  <2>4. OneCallOpen'
      BY <2>2 DEF OneCallOpen
  <2>5. SettledAtMostOnce' /\ ExecutedWasApproved'
      BY DEF SettledAtMostOnce, ExecutedWasApproved, bookVars, intentVars
  <2> QED
      BY <2>1, <2>3, <2>4, <2>5
<1>5. CASE \/ \E p \in BOOLEAN : SetPaused(p)
           \/ UNCHANGED vars
  <2>1. UNCHANGED <<bookVars, executedIntent, inFlight, traded>> /\ paused' \in BOOLEAN
      BY <1>5 DEF SetPaused, vars, coreVars
  <2>2. BookInv'
      BY <2>1, BookUnchanged
  <2>3. TypeOK'
      BY <2>1, <2>2 DEF BookInv
  <2>4. OneCallOpen' /\ SettledAtMostOnce' /\ ExecutedWasApproved'
      BY <2>1 DEF OneCallOpen, SettledAtMostOnce, ExecutedWasApproved, bookVars, intentVars
  <2> QED
      BY <2>2, <2>3, <2>4
<1> QED
    BY <1>1, <1>2, <1>3, <1>4, <1>5 DEF Next, CoreStep
-----------------------------------------------------------------------------
(* The safety theorems *)

(* IInv is inductive, hence invariant. *)
THEOREM Invariant == Spec => []IInv
<1>1. Init => IInv
    BY InitInv
<1>2. IInv /\ [Next]_vars => IInv'
    BY NextInv
<1> QED
    BY <1>1, <1>2, PTL DEF Spec

(* Every variable keeps its type; in particular no sum of weights overflows. *)
THEOREM TypeCorrect == Spec => []TypeOK
<1>1. IInv => TypeOK
    BY DEF IInv
<1> QED
    BY <1>1, Invariant, PTL

(* An intent is approved exactly when the weights its distinct verifiers had *)
(* as they attested add up to the threshold fixed at its proposal, under any *)
(* interleaving of proposals, attestations and owner configuration.          *)
THEOREM QuorumTheorem == Spec => []ApprovalIsQuorum
<1>1. IInv => ApprovalIsQuorum
    BY DEF IInv, BookInv
<1> QED
    BY <1>1, Invariant, PTL

(* No signature nonce ever backs two intents, or an intent twice. *)
THEOREM NonceTheorem == Spec => []NonceBacksOneIntent
<1>1. IInv => NonceBacksOneIntent
    BY DEF IInv, BookInv
<1> QED
    BY <1>1, Invariant, PTL

(* No intent trades twice, although executedIntent is written only after the *)
(* external call of executeIntent.                                           *)
THEOREM SettlementTheorem == Spec => []SettledAtMostOnce
<1>1. IInv => SettledAtMostOnce
    BY DEF IInv
<1> QED
    BY <1>1, Invariant, PTL

(* Every trade of the vault was covered by a quorum of verifier weight. *)
THEOREM BackingTheorem == Spec => []TradeBackedByQuorum
<1>1. IInv => TradeBackedByQuorum
  <2> SUFFICES ASSUME IInv, NEW h \in Intents, traded[h] > 0
               PROVE  /\ Exists(h)
                      /\ terms[h].route # NoRoute
                      /\ Total(credit[h], Verifiers) >= thresholdWeight[h]
      BY DEF TradeBackedByQuorum
  <2>1. h \in executedIntent
      BY DEF IInv, TypeOK, SettledAtMostOnce
  <2> QED
      BY <2>1 DEF IInv, BookInv, ExecutedWasApproved, ApprovalIsQuorum
<1> QED
    BY <1>1, Invariant, PTL

(* An approved intent is never touched again. *)
THEOREM FinalityTheorem == Spec => ApprovedIsFinal
<1> DEFINE Final == \A h \in approved :
        /\ h \in approved'
        /\ terms'[h] = terms[h]
        /\ attestedWeight'[h] = attestedWeight[h]
        /\ thresholdWeight'[h] = thresholdWeight[h]
        /\ credit'[h] = credit[h]
<1>1. IInv /\ [Next]_vars => [Final]_bookVars
  <2> SUFFICES ASSUME IInv, Next \/ UNCHANGED vars
               PROVE  Final \/ UNCHANGED bookVars
      OBVIOUS
  <2>1. CASE BookStep
      BY <2>1, BookKeepsApproved DEF IInv
  <2>2. CASE CoreStep \/ UNCHANGED vars
      BY <2>2 DEF CoreStep, BeginExecute, FinishExecute, RevertExecute, SetPaused, vars
  <2> QED
      BY <2>1, <2>2 DEF Next
<1> QED
    BY <1>1, Invariant, PTL DEF Spec, ApprovedIsFinal
-----------------------------------------------------------------------------
(* The frozen quorum *)

(* What an intent can still reach is a natural number. *)
LEMMA ReachableType ==
    ASSUME BookInv, NEW h \in Intents
    PROVE  /\ attestedWeight[h] \in Nat
           /\ Total(verifierWeight, Verifiers \ hasAttested[h]) \in Nat
<1>1. attestedWeight[h] \in Nat
    BY DEF BookInv, BookTypeOK
<1> QED
    BY <1>1, TotalType

(* An attestation moves weight from the verifiers left to the weight counted. *)
LEMMA AttestKeepsReachable ==
    ASSUME BookInv, NEW h \in Intents, NEW b \in Batches, AttestIntent(h, b),
           NEW g \in Intents
    PROVE  Reachable(g)' = Reachable(g)
<1> DEFINE D == DOMAIN b
           R == Verifiers \ hasAttested[g]
           Q == R \ D
<1>1. D \subseteq Verifiers
    BY DEF Batches
<1>2. /\ verifierWeight' = verifierWeight
      /\ attestedWeight' = [attestedWeight EXCEPT ![h] = attestedWeight[h] + Total(verifierWeight, D)]
      /\ hasAttested' = [hasAttested EXCEPT ![h] = hasAttested[h] \cup D]
    BY DEF AttestIntent, RunningWeight, configVars
<1>3. Reachable(g)' = attestedWeight'[g] + Total(verifierWeight, Verifiers \ hasAttested'[g])
    BY <1>2 DEF Reachable, Total, Units
<1>4. CASE g # h
  <2>1. attestedWeight'[g] = attestedWeight[g] /\ hasAttested'[g] = hasAttested[g]
      BY <1>2, <1>4 DEF BookInv, BookTypeOK
  <2> QED
      BY <1>3, <2>1 DEF Reachable
<1>5. CASE g = h
  <2>1. attestedWeight'[g] = attestedWeight[g] + Total(verifierWeight, D)
      BY <1>2, <1>5 DEF BookInv, BookTypeOK
  <2>2. Verifiers \ hasAttested'[g] = Q
      BY <1>2, <1>5 DEF BookInv, BookTypeOK
  <2>3. D \cap hasAttested[g] = {}
      BY <1>5 DEF AttestIntent, Acceptable
  <2>4. R = Q \cup D /\ Q \cap D = {} /\ Q \subseteq Verifiers
      BY <1>1, <2>3
  <2>5. Total(verifierWeight, R) = Total(verifierWeight, Q) + Total(verifierWeight, D)
      BY <1>1, <2>4, TotalOfParts
  <2>6. /\ Total(verifierWeight, Q) \in Nat
        /\ Total(verifierWeight, D) \in Nat
        /\ attestedWeight[g] \in Nat
      BY <1>1, <2>4, TotalType, ReachableType
  <2>7. Reachable(g)' = attestedWeight[g] + Total(verifierWeight, D) + Total(verifierWeight, Q)
      BY <1>3, <2>1, <2>2
  <2>8. Reachable(g) = attestedWeight[g] + Total(verifierWeight, R)
      BY DEF Reachable
  <2> QED
      BY <2>5, <2>6, <2>7, <2>8
<1> QED
    BY <1>4, <1>5

(* Once frozen, no call raises what an intent can still reach. *)
LEMMA FrozenReachable ==
    ASSUME BookInv, BookStep, configFrozen, NEW h \in Intents, Exists(h)
    PROVE  Reachable(h)' = Reachable(h) /\ thresholdWeight'[h] = thresholdWeight[h]
<1> USE DEF configVars, intentVars, attestVars
<1>1. ~ OwnerStep
    BY DEF OwnerStep, SetSnapshotBook, SetDefaultThresholdWeight, EnableVerifier,
           DisableVerifier, FreezeConfig, ConfigMutable
<1>2. CASE Tick \/ \E b \in SnapshotBooks, s \in Snapshots : PublishSnapshot(b, s)
  <2>1. /\ verifierWeight' = verifierWeight /\ attestedWeight' = attestedWeight
        /\ hasAttested' = hasAttested /\ thresholdWeight' = thresholdWeight
      BY <1>2 DEF Tick, PublishSnapshot
  <2> QED
      BY <2>1 DEF Reachable, Total, Units
<1>3. ASSUME NEW g \in Intents, NEW s \in Snapshots, NEW t \in Terms,
             ProposeIntent(g, s, t)
      PROVE  Reachable(h)' = Reachable(h) /\ thresholdWeight'[h] = thresholdWeight[h]
  <2>1. /\ verifierWeight' = verifierWeight /\ attestedWeight' = attestedWeight
        /\ hasAttested' = hasAttested /\ thresholdWeight'[h] = thresholdWeight[h]
      BY <1>3 DEF ProposeIntent, BookInv, BookTypeOK
  <2> QED
      BY <2>1 DEF Reachable, Total, Units
<1>4. ASSUME NEW g \in Intents, NEW b \in Batches, AttestIntent(g, b)
      PROVE  Reachable(h)' = Reachable(h) /\ thresholdWeight'[h] = thresholdWeight[h]
  <2>1. thresholdWeight' = thresholdWeight
      BY <1>4 DEF AttestIntent
  <2> QED
      BY <1>4, <2>1, AttestKeepsReachable
<1> QED
    BY <1>1, <1>2, <1>3, <1>4 DEF BookStep

(* Once the configuration is frozen, an intent whose remaining verifiers *)
(* cannot lift it over its threshold is never approved.                  *)
THEOREM FrozenTheorem == Spec => FrozenQuorumIsSettled
<1> DEFINE Settled == configFrozen => \A h \in Intents :
          /\ Exists(h) => Reachable(h)' <= Reachable(h)
          /\ Exists(h) /\ Reachable(h) < thresholdWeight[h] => h \notin approved'
<1>1. IInv /\ IInv' /\ [Next]_vars => [Settled]_bookVars
  <2> SUFFICES ASSUME BookInv, BookInv', Next, ~ UNCHANGED bookVars, configFrozen,
                      NEW h \in Intents, Exists(h)
               PROVE  /\ Reachable(h)' <= Reachable(h)
                      /\ Reachable(h) < thresholdWeight[h] => h \notin approved'
      BY DEF IInv, vars
  <2>1. BookStep
      BY DEF Next, CoreStep, BeginExecute, FinishExecute, RevertExecute, SetPaused
  <2>2. Reachable(h)' = Reachable(h) /\ thresholdWeight'[h] = thresholdWeight[h]
      BY <2>1, FrozenReachable
  <2>3. attestedWeight[h] \in Nat /\ Total(verifierWeight, Verifiers \ hasAttested[h]) \in Nat
      BY ReachableType
  <2>4. Reachable(h) \in Nat
      BY <2>3 DEF Reachable
  <2>5. /\ attestedWeight'[h] \in Nat
        /\ Total(verifierWeight', Verifiers \ hasAttested'[h]) \in Nat
      BY TotalType DEF BookInv, BookTypeOK
  <2>6. Reachable(h)' = attestedWeight'[h] + Total(verifierWeight', Verifiers \ hasAttested'[h])
      BY DEF Reachable, Total, Units
  <2>7. thresholdWeight[h] \in Nat
      BY DEF BookInv, BookTypeOK
  <2>8. h \in approved' => attestedWeight'[h] >= thresholdWeight'[h]
      BY DEF BookInv, ApprovalIsQuorum
  <2> QED
      BY <2>2, <2>4, <2>5, <2>6, <2>7, <2>8
<1> QED
    BY <1>1, Invariant, PTL DEF Spec, FrozenQuorumIsSettled
-----------------------------------------------------------------------------
(* The refinement *)

(* At first every intent is absent, with no backing. *)
LEMMA InitRefines == Init => Lifecycle!Init
<1> SUFFICES ASSUME Init PROVE Lifecycle!Init
    OBVIOUS
<1>1. \A h \in Intents : Phase(h) = "absent"
    BY DEF Init, InitBook, InitCore, Phase, Exists
<1> QED
    BY <1>1 DEF Lifecycle!Init, Init, InitBook

(* The abstract sum is the sum of the book. *)
LEMMA SumIsTotal ==
    ASSUME NEW w
    PROVE  Lifecycle!Sum(w) = Total(w, Verifiers)
    BY DEF Lifecycle!Sum, Total, Units, Lifecycle!Cardinality, Cardinality

(* The abstract variables see nothing of a step that leaves these alone. *)
LEMMA StutterRefines ==
    ASSUME UNCHANGED <<terms, approved, executedIntent, credit, thresholdWeight>>
    PROVE  UNCHANGED <<[h \in Intents |-> Phase(h)], credit, thresholdWeight>>
    BY DEF Phase, Exists

(* Proposing an intent on chain proposes it in the lifecycle. *)
LEMMA ProposeRefines ==
    ASSUME IInv, NEW h \in Intents, NEW s \in Snapshots, NEW t \in Terms,
           ProposeIntent(h, s, t), UNCHANGED coreVars
    PROVE  Lifecycle!Propose(h)
<1> DEFINE ph == [g \in Intents |-> Phase(g)]
<1> USE DEF IInv, BookInv, BookTypeOK, ProposeIntent, coreVars, attestVars
<1>1. h \notin approved /\ h \notin executedIntent
    BY DEF ApprovalIsQuorum, ExecutedWasApproved
<1>2. ph[h] = "absent" /\ Phase(h)' = "proposed"
    BY <1>1, TermsAssumption DEF Phase, Exists
<1>3. \A g \in Intents \ {h} : Phase(g)' = Phase(g)
    BY DEF Phase, Exists
<1>4. ph' = [ph EXCEPT ![h] = "proposed"]
    BY <1>2, <1>3
<1>5. defaultThresholdWeight \in 1..MaxUint
    BY ThresholdAssumption
<1> QED
    BY <1>2, <1>4, <1>5 DEF Lifecycle!Propose

(* A batch backs one intent and no other. *)
LEMMA AttestRefines ==
    ASSUME IInv, NEW h \in Intents, NEW b \in Batches, AttestIntent(h, b),
           UNCHANGED coreVars
    PROVE  Lifecycle!Back(h)
<1> DEFINE ph == [g \in Intents |-> Phase(g)]
           D == DOMAIN b
           w == credit'[h]
<1>1. D \subseteq Verifiers /\ D # {}
    BY DEF Batches
<1>2. h \notin approved /\ h \notin executedIntent /\ Exists(h)
    BY DEF AttestIntent, Open, IInv, ExecutedWasApproved
<1>3. ph[h] = "proposed"
    BY <1>2 DEF Phase
<1>4. BookInv'
    BY AttestInv DEF IInv
<1>5. /\ w \in [Verifiers -> 0..MaxUint]
      /\ credit' = [credit EXCEPT ![h] = w]
      /\ \A v \in Verifiers : w[v] = IF v \in D THEN verifierWeight[v] ELSE credit[h][v]
    BY DEF AttestIntent, IInv, BookInv, BookTypeOK
<1>6. \A v \in D : credit[h][v] = 0 /\ w[v] > 0
    BY <1>1, <1>5 DEF AttestIntent, Acceptable, IInv, BookInv, BookTypeOK, CreditedOnce,
                      WeightsOfEnabled
<1>7. w # credit[h]
    BY <1>1, <1>6
<1>8. \A v \in Verifiers : credit[h][v] # 0 => w[v] = credit[h][v]
    BY <1>5, <1>6
<1>9. Lifecycle!Sum(w) = Total(w, Verifiers)
    BY SumIsTotal
<1>10. Total(credit[h], Verifiers)' = Total(w, Verifiers)
    BY DEF Total, Units
<1>11. h \in approved' <=> Lifecycle!Sum(w) >= thresholdWeight[h]
    BY <1>2, <1>4, <1>9, <1>10 DEF BookInv, ApprovalIsQuorum, AttestIntent, Exists
<1>12. Phase(h)' = IF Lifecycle!Sum(w) >= thresholdWeight[h] THEN "approved" ELSE "proposed"
    BY <1>2, <1>11 DEF Phase, coreVars, AttestIntent, Exists
<1>13. \A g \in Intents \ {h} : Phase(g)' = Phase(g)
    BY DEF Phase, Exists, coreVars, AttestIntent
<1>14. ph' = [ph EXCEPT ![h] = IF Lifecycle!Sum(w) >= thresholdWeight[h]
                                THEN "approved" ELSE "proposed"]
    BY <1>12, <1>13
<1>15. thresholdWeight' = thresholdWeight
    BY DEF AttestIntent
<1> QED
    BY <1>3, <1>5, <1>7, <1>8, <1>14, <1>15 DEF Lifecycle!Back

(* The end of executeIntent executes the intent of the open call. *)
LEMMA FinishRefines ==
    ASSUME IInv, NEW h \in Intents, FinishExecute(h)
    PROVE  Lifecycle!Execute(h)
<1> DEFINE ph == [g \in Intents |-> Phase(g)]
<1> USE DEF FinishExecute, bookVars, intentVars, attestVars
<1>1. h \in approved \ executedIntent
    BY DEF IInv, OneCallOpen
<1>2. ph[h] = "approved" /\ Phase(h)' = "executed"
    BY <1>1 DEF Phase
<1>3. \A g \in Intents \ {h} : Phase(g)' = Phase(g)
    BY DEF Phase, Exists
<1>4. ph' = [ph EXCEPT ![h] = "executed"]
    BY <1>2, <1>3
<1> QED
    BY <1>2, <1>4 DEF Lifecycle!Execute

(* The contracts implement the abstract lifecycle of an intent. *)
THEOREM Refinement == Spec => ImplementsLifecycle
<1>1. Init => Lifecycle!Init
    BY InitRefines
<1>2. IInv /\ [Next]_vars => [Lifecycle!Next]_(Lifecycle!lifecycleVars)
  <2> SUFFICES ASSUME IInv, [Next]_vars
               PROVE  Lifecycle!Next \/ UNCHANGED Lifecycle!lifecycleVars
      OBVIOUS
  <2> USE DEF Lifecycle!lifecycleVars, Lifecycle!Next
  <2>1. ASSUME BookStep, UNCHANGED coreVars
        PROVE  Lifecycle!Next \/ UNCHANGED Lifecycle!lifecycleVars
    <3>1. CASE UNCHANGED <<intentVars, attestVars>>
        BY <2>1, <3>1, StutterRefines DEF intentVars, attestVars, coreVars
    <3>2. CASE \E h \in Intents, s \in Snapshots, t \in Terms : ProposeIntent(h, s, t)
        BY <2>1, <3>2, ProposeRefines
    <3>3. CASE \E h \in Intents, b \in Batches : AttestIntent(h, b)
        BY <2>1, <3>3, AttestRefines
    <3> QED
        BY <2>1, <3>1, <3>2, <3>3, OwnerInv DEF BookStep, IInv
  <2>2. ASSUME NEW h \in Intents, FinishExecute(h)
        PROVE  Lifecycle!Next
      BY <2>2, FinishRefines
  <2>3. ASSUME CoreStep \/ UNCHANGED vars, ~ \E h \in Intents : FinishExecute(h)
        PROVE  UNCHANGED Lifecycle!lifecycleVars
    <3>1. UNCHANGED <<terms, approved, executedIntent, credit, thresholdWeight>>
        BY <2>3 DEF CoreStep, BeginExecute, RevertExecute, SetPaused, vars, coreVars,
                    bookVars, intentVars, attestVars
    <3> QED
        BY <3>1, StutterRefines
  <2> QED
      BY <2>1, <2>2, <2>3 DEF Next
<1> QED
    BY <1>1, <1>2, Invariant, PTL DEF Spec, ImplementsLifecycle, Lifecycle!Spec
=============================================================================
