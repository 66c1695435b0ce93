------------------------- MODULE ExecutionJobsProofs -------------------------
(***************************************************************************)
(* Proofs about the life of an intent at the relayer, for any number of    *)
(* requests and runs at once, any finite set of verifiers and any weights. *)
(***************************************************************************)
EXTENDS ExecutionJobs, FiniteSetTheorems, TLAPS

-----------------------------------------------------------------------------
(* Sums of weights *)

(* A set of verifiers has a finite weight. *)
LEMMA WeightType ==
    ASSUME NEW V \in SUBSET Verifiers
    PROVE  IsFiniteSet(Units(V)) /\ WeightOf(V) \in Nat
<1> DEFINE unitsOf == [v \in V |-> {v} \X (1..Weight[v])]
           Image == {{v} \X (1..Weight[v]) : v \in V}
<1>1. IsFiniteSet(V)
    BY WeightAssumption, FS_Subset
<1>2. unitsOf \in Surjection(V, Image)
    BY DEF Surjection
<1>3. IsFiniteSet(Image)
    BY <1>1, <1>2, FS_Surjection
<1>4. \A T \in Image : IsFiniteSet(T)
  <2> SUFFICES ASSUME NEW v \in V PROVE IsFiniteSet({v} \X (1..Weight[v]))
      OBVIOUS
  <2>1. IsFiniteSet({v})
      BY FS_Singleton
  <2>2. Weight[v] \in Int
      BY WeightAssumption
  <2>3. IsFiniteSet(1..Weight[v])
      BY <2>2, FS_Interval
  <2> QED
      BY <2>1, <2>3, FS_Product
<1>5. IsFiniteSet(Units(V))
    BY <1>3, <1>4, FS_UNION DEF Units
<1> QED
    BY <1>5, FS_CardinalityType DEF WeightOf

(* A part weighs no more than the whole. *)
LEMMA WeightOfSubset ==
    ASSUME NEW V \in SUBSET Verifiers, NEW U \in SUBSET V
    PROVE  WeightOf(U) <= WeightOf(V)
<1>1. Units(U) \subseteq Units(V)
    BY DEF Units
<1> QED
    BY <1>1, WeightType, FS_Subset DEF WeightOf

(* The weights of disjoint sets add up. *)
LEMMA WeightOfParts ==
    ASSUME NEW U \in SUBSET Verifiers, NEW V \in SUBSET Verifiers, U \cap V = {}
    PROVE  WeightOf(U \cup V) = WeightOf(U) + WeightOf(V)
<1>1. Units(U \cup V) = Units(U) \cup Units(V)
    BY DEF Units
<1>2. Units(U) \cap Units(V) = {}
    BY DEF Units
<1>3. Cardinality(Units(U) \cap Units(V)) = 0
    BY <1>2, FS_EmptySet
<1>4. Cardinality(Units(U) \cup Units(V))
        = Cardinality(Units(U)) + Cardinality(Units(V)) - Cardinality(Units(U) \cap Units(V))
    BY WeightType, FS_Union
<1>5. /\ WeightOf(U) = Cardinality(Units(U)) /\ WeightOf(U) \in Nat
      /\ WeightOf(V) = Cardinality(Units(V)) /\ WeightOf(V) \in Nat
    BY WeightType DEF WeightOf
<1>6. WeightOf(U \cup V) = Cardinality(Units(U) \cup Units(V))
    BY <1>1 DEF WeightOf
<1> QED
    BY <1>3, <1>4, <1>5, <1>6

(* One verifier weighs its weight. *)
LEMMA WeightOfOne ==
    ASSUME NEW v \in Verifiers
    PROVE  WeightOf({v}) = Weight[v]
<1>1. Units({v}) = {v} \X (1..Weight[v])
    BY DEF Units
<1>2. Weight[v] \in Nat \ {0}
    BY WeightAssumption
<1>3. IsFiniteSet({v}) /\ Cardinality({v}) = 1
    BY FS_Singleton
<1>4. IsFiniteSet(1..Weight[v]) /\ Cardinality(1..Weight[v]) = Weight[v]
    BY <1>2, FS_Interval
<1>5. Cardinality({v} \X (1..Weight[v])) = 1 * Weight[v]
    BY <1>3, <1>4, FS_Product
<1>6. WeightOf({v}) = Cardinality({v} \X (1..Weight[v]))
    BY <1>1 DEF WeightOf
<1> QED
    BY <1>2, <1>5, <1>6

(* The empty set weighs nothing. *)
LEMMA WeightOfNone == WeightOf({}) = 0
<1>1. Units({}) = {}
    BY DEF Units
<1> QED
    BY <1>1, FS_EmptySet DEF WeightOf

-----------------------------------------------------------------------------
(* Requests *)

(* A request that goes on keeps all but its place; the others stay put. *)
LEMMA GotoType ==
    ASSUME TypeOK, NEW r \in Requests, NEW p \in Steps, Goto(r, p)
    PROVE  /\ request' \in [Requests -> [pc : Steps, verifier : Verifiers \cup {"none"},
                                         approved : BOOLEAN]]
           /\ request'[r].pc = p
           /\ request'[r].verifier = request[r].verifier
           /\ request'[r].approved = request[r].approved
           /\ \A q \in Requests \ {r} : request'[q] = request[q]
BY DEF TypeOK, IntakeTypeOK, Goto

(* So it is with one that ends. *)
LEMMA FinishType ==
    ASSUME TypeOK, NEW r \in Requests, Finish(r)
    PROVE  /\ request' \in [Requests -> [pc : Steps, verifier : Verifiers \cup {"none"},
                                         approved : BOOLEAN]]
           /\ request'[r] = NoRequest
           /\ \A q \in Requests \ {r} : request'[q] = request[q]
BY DEF TypeOK, IntakeTypeOK, Finish, NoRequest, Steps

(* What a request does before and after it adds a weight adds none. *)
LEMMA OthersIncrement ==
    ASSUME TypeOK, NEW r \in Requests, OneIncrementEach,
           \A q \in Requests \ {r} : request'[q] = request[q],
           ~At(r, "increment"), ~At(r, "increment")'
    PROVE  InFlight' = InFlight /\ OneIncrementEach'
<1>1. \A q \in Requests : At(q, "increment") <=> At(q, "increment")'
    BY DEF At
<1>2. \A q \in Requests : At(q, "increment") => request'[q].verifier = request[q].verifier
    OBVIOUS
<1> QED
    BY <1>1, <1>2 DEF InFlight, OneIncrementEach

(* A step that leaves the counted rows and the requests alone. *)
LEMMA RowsFrame ==
    ASSUME IInv, UNCHANGED <<subject, attestation, request, ready, abandoned>>,
           job # "NONE" => job' # "NONE", job = "NONE" => job' = "NONE"
    PROVE  /\ RequestsSound' /\ OneIncrementEach' /\ WeightIsCounted' /\ QuorumBehind'
           /\ MarksExplained' /\ SomebodyLooks' /\ QueuedBeforePublished'
<1>1. Attesters' = Attesters /\ Pending' = Pending /\ InFlight' = InFlight
    BY DEF Attesters, Pending, InFlight, At
<1>2. RequestsSound' /\ OneIncrementEach' /\ QueuedBeforePublished'
    BY DEF IInv, RequestsSound, OneIncrementEach, QueuedBeforePublished, At
<1>3. WeightIsCounted'
    BY <1>1 DEF IInv, WeightIsCounted, Counted
<1>4. QuorumBehind'
    BY <1>1 DEF IInv, QuorumBehind, Queued, Marking
<1>5. MarksExplained' /\ SomebodyLooks'
    BY <1>1 DEF IInv, MarksExplained, SomebodyLooks, Queued, Marking, Committed
<1> QED
    BY <1>2, <1>3, <1>4, <1>5

(* A step that leaves the bot and the chain alone. *)
LEMMA BotFrame ==
    ASSUME IInv, UNCHANGED jobVars,
           Queued => Queued',
           subject'.status = "APPROVED" => subject.status = "APPROVED",
           job # "NONE" => job' # "NONE"
    PROVE  SignersFollowChain' /\ ExecutorsWereOffered' /\ ApprovalFollowsChain'
BY DEF IInv, SignersFollowChain, ExecutorsWereOffered, ApprovalFollowsChain,
       jobVars, SignerAt, ExecutorAt

(* A request that only reads, or ends, keeps the invariant unless it was the one *)
(* to notice a quorum.                                                           *)
LEMMA ReadInv ==
    ASSUME IInv, NEW r \in Requests,
           UNCHANGED <<intentRow, subject, attestation, job, proposal, ready, abandoned, jobVars>>,
           request' \in [Requests -> [pc : Steps, verifier : Verifiers \cup {"none"},
                                     approved : BOOLEAN]],
           \A q \in Requests \ {r} : request'[q] = request[q],
           ~At(r, "idle")' => request'[r].verifier \in Verifiers,
           request'[r].approved => subject.status = "APPROVED",
           subject.status = "NONE" => request'[r].pc \in {"idle", "find", "create"},
           ~At(r, "increment"), ~At(r, "increment")', ~At(r, "publish")',
           ~Marking(r),
           Marking(r)' => WeightOf(Attesters) >= Threshold,
           Committed(r) =>
               \/ Committed(r)' \/ abandoned
               \/ ~(WeightOf(Attesters) >= Threshold)
               \/ ready /\ job # "NONE"
               \/ \E q \in Requests \ {r} : Committed(q)
    PROVE  IInv'
<1>1. Attesters' = Attesters /\ Pending' = Pending
    BY DEF Attesters, Pending
<1>2. InFlight' = InFlight /\ OneIncrementEach'
    BY OthersIncrement DEF IInv
<1>3. TypeOK'
    BY DEF IInv, TypeOK, IntakeTypeOK, jobVars
<1>4. RequestsSound'
    BY DEF IInv, RequestsSound, At
<1>5. SubjectFirst'
    BY <1>1 DEF IInv, SubjectFirst, jobVars, SignerAt
<1>6. WeightIsCounted'
    BY <1>1, <1>2 DEF IInv, WeightIsCounted, Counted
<1>7. \A q \in Requests \ {r} : (Marking(q) <=> Marking(q)') /\ (Committed(q) <=> Committed(q)')
    BY DEF Marking, Committed
<1>8. QuorumBehind'
    BY <1>1, <1>7 DEF IInv, QuorumBehind, Queued
<1>9. MarksExplained'
    BY <1>1, <1>7 DEF IInv, MarksExplained, Queued
<1>10. SomebodyLooks'
    BY <1>1, <1>7 DEF IInv, SomebodyLooks
<1>11. QueuedBeforePublished'
    BY DEF IInv, QueuedBeforePublished, At
<1>12. SignersFollowChain' /\ ExecutorsWereOffered' /\ ApprovalFollowsChain'
    BY BotFrame DEF Queued
<1> QED
    BY <1>2, <1>3, <1>4, <1>5, <1>6, <1>8, <1>9, <1>10, <1>11, <1>12 DEF IInv

(* No row, no request and no run of the bot: nothing to explain. *)
LEMMA InitInv == Init => IInv
<1> SUFFICES ASSUME Init PROVE IInv
    OBVIOUS
<1> USE DEF Init, InitIntake
<1>1. TypeOK
    BY DEF TypeOK, IntakeTypeOK, NoRequest, NoBundle, Status, JobStatus, Steps
<1>2. Attesters = {} /\ Pending = {} /\ InFlight = {}
    BY DEF Attesters, Pending, InFlight, At, NoRequest
<1>3. RequestsSound /\ OneIncrementEach /\ QueuedBeforePublished
    BY DEF RequestsSound, OneIncrementEach, QueuedBeforePublished, At, NoRequest
<1>4. SubjectFirst
    BY <1>2 DEF SubjectFirst, NoRequest, NoBundle, SignerAt
<1>5. WeightIsCounted
  <2>1. Counted({})
      BY <1>2, WeightOfNone DEF Counted
  <2> QED
      BY <2>1 DEF WeightIsCounted
<1>6. QuorumBehind /\ MarksExplained
    BY <1>2 DEF QuorumBehind, MarksExplained, Queued, Marking, NoRequest
<1>7. SomebodyLooks
    BY <1>2, WeightOfNone, WeightAssumption DEF SomebodyLooks
<1>8. SignersFollowChain /\ ExecutorsWereOffered /\ ApprovalFollowsChain
    BY DEF SignersFollowChain, ExecutorsWereOffered, ApprovalFollowsChain, SignerAt,
           ExecutorAt, NoBundle
<1> QED
    BY <1>1, <1>3, <1>4, <1>5, <1>6, <1>7, <1>8 DEF IInv

-----------------------------------------------------------------------------
(* Requests that read *)

(* What each reading step of a request leaves, one case per step. *)
LEMMA ReadingInv ==
    ASSUME IInv, NEW r \in Requests, UNCHANGED jobVars,
           \/ \E v \in Verifiers : Attest(r, v)
           \/ FindSubject(r) \/ ReadSubject(r) \/ ReadState(r) \/ ListPending(r)
           \/ InsertSubject(r) /\ subject.status # "NONE"
           \/ InsertAttestation(r) /\ Duplicate(request[r].verifier)
    PROVE  IInv'
<1>1. TypeOK
    BY DEF IInv
<1>2. request[r].verifier \in Verifiers \/ At(r, "idle")
    BY DEF IInv, RequestsSound
<1>3. request[r].approved => subject.status = "APPROVED"
    BY DEF IInv, RequestsSound
<1>4. CASE \E v \in Verifiers : Attest(r, v)
  <2> PICK v \in Verifiers : Attest(r, v)
      BY <1>4
  <2>1. /\ request' \in [Requests -> [pc : Steps, verifier : Verifiers \cup {"none"},
                                      approved : BOOLEAN]]
        /\ request'[r] = [pc |-> "find", verifier |-> v, approved |-> FALSE]
        /\ \A q \in Requests \ {r} : request'[q] = request[q]
      BY <1>1 DEF Attest, TypeOK, IntakeTypeOK, Steps
  <2> QED
      BY <2>1, ReadInv DEF Attest, At, Marking, Committed
<1>5. CASE FindSubject(r)
  <2>1. PICK p \in {"create", "read"} :
            Goto(r, p) /\ (subject.status = "NONE" => p = "create")
      BY <1>5 DEF FindSubject
  <2> QED
      BY <1>1, <1>2, <1>3, <1>5, <2>1, GotoType, ReadInv
      DEF FindSubject, At, Marking, Committed, Steps
<1>6. CASE ReadSubject(r)
  <2>1. /\ request' \in [Requests -> [pc : Steps, verifier : Verifiers \cup {"none"},
                                      approved : BOOLEAN]]
        /\ request'[r].pc = "insert" /\ request'[r].verifier = request[r].verifier
        /\ request'[r].approved => subject.status = "APPROVED"
        /\ \A q \in Requests \ {r} : request'[q] = request[q]
      BY <1>1, <1>6 DEF ReadSubject, TypeOK, IntakeTypeOK, Steps
  <2>2. subject.status # "NONE"
      BY <1>6 DEF IInv, SubjectFirst, ReadSubject, At
  <2> QED
      BY <1>2, <1>6, <2>1, <2>2, ReadInv DEF ReadSubject, At, Marking, Committed
<1>7. CASE ReadState(r)
  <2>1. subject.status # "NONE"
      BY <1>7 DEF IInv, SubjectFirst, ReadState, At
  <2>2. CASE subject.status = "APPROVED"
    <3>1. Finish(r)
        BY <1>7, <2>2 DEF ReadState
    <3>2. ~abandoned => (ready /\ job # "NONE") \/ \E q \in Requests : Marking(q)
        BY <2>2 DEF IInv, MarksExplained, Queued
    <3>3. ~Marking(r)
        BY <1>7 DEF ReadState, At, Marking
    <3>4. \A q \in Requests : Marking(q) => Committed(q)
        BY DEF Marking, Committed
    <3> QED
        BY <1>1, <1>7, <3>1, <3>2, <3>3, <3>4, FinishType, ReadInv
        DEF ReadState, At, Marking, Committed, NoRequest
  <2>3. CASE subject.status # "APPROVED"
    <3>1. Goto(r, "list")
        BY <1>7, <2>3 DEF ReadState
    <3> QED
        BY <1>1, <1>2, <1>3, <1>7, <2>1, <3>1, GotoType, ReadInv
        DEF ReadState, At, Marking, Committed, Steps
  <2> QED
      BY <2>2, <2>3
<1>8. CASE ListPending(r)
  <2>1. subject.status # "NONE"
      BY <1>8 DEF IInv, SubjectFirst, ListPending, At
  <2>2. CASE ReachesThreshold(Pending)
    <3>1. Goto(r, "markSubject")
        BY <1>8, <2>2 DEF ListPending
    <3>2. WeightOf(Attesters) >= Threshold
      <4>1. Pending \in SUBSET Attesters /\ Attesters \in SUBSET Verifiers
          BY DEF Pending, Attesters
      <4>2. WeightOf(Pending) <= WeightOf(Attesters)
          BY <4>1, WeightOfSubset
      <4>3. WeightOf(Pending) \in Nat /\ WeightOf(Attesters) \in Nat
          BY <4>1, WeightType
      <4> QED
          BY <2>2, <4>2, <4>3, WeightAssumption DEF ReachesThreshold
    <3> QED
        BY <1>1, <1>2, <1>3, <1>8, <2>1, <3>1, <3>2, GotoType, ReadInv
        DEF ListPending, At, Marking, Committed, Steps
  <2>3. CASE ~ReachesThreshold(Pending)
    <3>1. Finish(r)
        BY <1>8, <2>3 DEF ListPending
    <3>2. \/ abandoned \/ ~(WeightOf(Attesters) >= Threshold)
          \/ ready /\ job # "NONE"
          \/ \E q \in Requests : Marking(q)
      <4>1. CASE Pending = Attesters
          BY <2>3, <4>1 DEF ReachesThreshold
      <4>2. CASE Pending # Attesters
          BY <4>2 DEF IInv, MarksExplained
      <4> QED
          BY <4>1, <4>2
    <3>3. ~Marking(r)
        BY <1>8 DEF ListPending, At, Marking
    <3>4. \A q \in Requests : Marking(q) => Committed(q)
        BY DEF Marking, Committed
    <3> QED
        BY <1>1, <1>8, <3>1, <3>2, <3>3, <3>4, FinishType, ReadInv
        DEF ListPending, At, Marking, Committed, NoRequest
  <2> QED
      BY <2>2, <2>3
<1>9. CASE InsertSubject(r) /\ subject.status # "NONE"
  <2>1. Finish(r) /\ UNCHANGED subject
      BY <1>9 DEF InsertSubject
  <2> QED
      BY <1>1, <1>9, <2>1, FinishType, ReadInv
      DEF InsertSubject, At, Marking, Committed, NoRequest
<1>10. CASE InsertAttestation(r) /\ Duplicate(request[r].verifier)
  <2>1. Finish(r) /\ UNCHANGED attestation
      BY <1>10 DEF InsertAttestation
  <2> QED
      BY <1>1, <1>10, <2>1, FinishType, ReadInv
      DEF InsertAttestation, At, Marking, Committed, NoRequest
<1> QED
    BY <1>4, <1>5, <1>6, <1>7, <1>8, <1>9, <1>10

-----------------------------------------------------------------------------
(* Requests that write *)

(* The subject's row appears while nothing rests on it. *)
LEMMA SubjectCreatedInv ==
    ASSUME IInv, subject.status = "NONE", CreateSubject,
           UNCHANGED <<intentRow, attestation, job, ready, abandoned, jobVars>>,
           proposal' \in {"new", "find", "create", "done"},
           request' \in [Requests -> [pc : Steps, verifier : Verifiers \cup {"none"},
                                     approved : BOOLEAN]],
           \A r \in Requests :
               /\ request'[r].pc \in {"idle", "find", "create", "read"}
               /\ ~At(r, "idle")' => request'[r].verifier \in Verifiers
               /\ ~request'[r].approved
    PROVE  IInv'
<1>1. Attesters = {} /\ Pending = {} /\ Attesters' = {} /\ Pending' = {}
    BY DEF IInv, SubjectFirst, Attesters, Pending
<1>2. InFlight' = {}
    BY DEF InFlight, At
<1>3. ~(WeightOf(Attesters) >= Threshold)
    BY <1>1, WeightOfNone, WeightAssumption
<1>4. job = "NONE" /\ ~ready
    BY <1>3 DEF IInv, QuorumBehind
<1>5. TypeOK'
    BY DEF IInv, TypeOK, IntakeTypeOK, CreateSubject, jobVars, Status
<1>6. RequestsSound' /\ OneIncrementEach' /\ QueuedBeforePublished'
    BY DEF RequestsSound, OneIncrementEach, QueuedBeforePublished, At
<1>7. SubjectFirst' /\ ~Queued'
    BY DEF SubjectFirst, CreateSubject, Queued
<1>8. WeightIsCounted'
  <2>1. Counted({})'
      BY <1>1, <1>2, WeightOfNone DEF Counted, CreateSubject
  <2> QED
      BY <2>1 DEF WeightIsCounted
<1>9. QuorumBehind' /\ MarksExplained' /\ SomebodyLooks'
    BY <1>1, <1>3, <1>4, <1>7 DEF QuorumBehind, MarksExplained, SomebodyLooks, Marking
<1>10. SignersFollowChain' /\ ExecutorsWereOffered' /\ ApprovalFollowsChain'
    BY BotFrame DEF CreateSubject, Queued
<1> QED
    BY <1>5, <1>6, <1>7, <1>8, <1>9, <1>10 DEF IInv

(* A verifier's attestation is stored, to be counted or after the approval. *)
LEMMA AttestationStoredInv ==
    ASSUME IInv, NEW r \in Requests, UNCHANGED jobVars,
           InsertAttestation(r), ~Duplicate(request[r].verifier)
    PROVE  IInv'
<1> DEFINE v == request[r].verifier
<1>1. v \in Verifiers /\ v \notin Attesters
    BY DEF IInv, RequestsSound, InsertAttestation, At, Duplicate, Attesters
<1>2. TypeOK /\ subject.status # "NONE"
    BY DEF IInv, SubjectFirst, InsertAttestation, At
<1>3. UNCHANGED <<intentRow, subject, job, proposal, ready, abandoned>>
    BY DEF InsertAttestation
<1>4. SignersFollowChain' /\ ExecutorsWereOffered' /\ ApprovalFollowsChain'
    BY <1>3, BotFrame DEF Queued
<1>5. SubjectFirst'
    BY <1>2, <1>3 DEF SubjectFirst
<1>6. ~Marking(r) /\ ~At(r, "increment")
    BY DEF InsertAttestation, At, Marking
<1>7. ASSUME Attesters' = Attesters \cup {v}
      PROVE  WeightOf(Attesters) >= Threshold => WeightOf(Attesters)' >= Threshold
  <2>1. Attesters' \in SUBSET Verifiers /\ Attesters \in SUBSET Attesters'
      BY <1>1, <1>7 DEF Attesters
  <2>2. Attesters \in SUBSET Verifiers
      BY DEF Attesters
  <2>3. WeightOf(Attesters) <= WeightOf(Attesters')
      BY <2>1, WeightOfSubset
  <2>4. WeightOf(Attesters) \in Nat /\ WeightOf(Attesters') \in Nat
      BY <2>1, <2>2, WeightType
  <2> QED
      BY <2>3, <2>4, WeightAssumption
<1>8. CASE request[r].approved
  <2>1. Finish(r) /\ attestation' = [attestation EXCEPT ![v] = "APPROVED"]
      BY <1>8 DEF InsertAttestation
  <2>2. /\ request' \in [Requests -> [pc : Steps, verifier : Verifiers \cup {"none"},
                                      approved : BOOLEAN]]
        /\ request'[r] = NoRequest
        /\ \A q \in Requests \ {r} : request'[q] = request[q]
      BY <1>2, <2>1, FinishType
  <2>3. Attesters' = Attesters \cup {v} /\ attestation' \in [Verifiers -> Status]
      BY <1>1, <1>2, <2>1 DEF Attesters, TypeOK, IntakeTypeOK, Status
  <2>4. subject.status = "APPROVED"
      BY <1>8 DEF IInv, RequestsSound
  <2>5. TypeOK'
      BY <1>2, <1>3, <2>2, <2>3 DEF TypeOK, IntakeTypeOK, jobVars
  <2>6. RequestsSound' /\ QueuedBeforePublished'
      BY <1>3, <2>2 DEF IInv, RequestsSound, QueuedBeforePublished, At, NoRequest
  <2>7. InFlight' = InFlight /\ OneIncrementEach'
      BY <1>2, <1>6, <2>2, OthersIncrement DEF IInv, At, NoRequest
  <2>8. WeightIsCounted'
      BY <1>3, <2>3, <2>4, <2>7 DEF IInv, WeightIsCounted, Counted
  <2>9. QuorumBehind'
      BY <1>3, <1>7, <2>2, <2>3, <2>4 DEF IInv, QuorumBehind, Queued, Marking, NoRequest
  <2>10. ~abandoned => (ready /\ job # "NONE") \/ \E q \in Requests : Marking(q)
      BY <2>4 DEF IInv, MarksExplained, Queued
  <2>11. \A q \in Requests : Marking(q) => Marking(q)' /\ Committed(q)'
      BY <1>6, <2>2 DEF Marking, Committed
  <2>12. MarksExplained' /\ SomebodyLooks'
      BY <1>3, <2>10, <2>11 DEF MarksExplained, SomebodyLooks
  <2> QED
      BY <1>4, <1>5, <2>5, <2>6, <2>7, <2>8, <2>9, <2>12 DEF IInv
<1>9. CASE ~request[r].approved
  <2>1. Goto(r, "increment") /\ attestation' = [attestation EXCEPT ![v] = "PENDING"]
      BY <1>9 DEF InsertAttestation
  <2>2. /\ request' \in [Requests -> [pc : Steps, verifier : Verifiers \cup {"none"},
                                      approved : BOOLEAN]]
        /\ request'[r].pc = "increment" /\ request'[r].verifier = v
        /\ request'[r].approved = request[r].approved
        /\ \A q \in Requests \ {r} : request'[q] = request[q]
      BY <1>2, <2>1, GotoType DEF Steps
  <2>3. /\ Attesters' = Attesters \cup {v} /\ Pending' = Pending \cup {v}
        /\ attestation' \in [Verifiers -> Status]
      BY <1>1, <1>2, <2>1 DEF Attesters, Pending, TypeOK, IntakeTypeOK, Status
  <2>4. TypeOK'
      BY <1>2, <1>3, <2>2, <2>3 DEF TypeOK, IntakeTypeOK, jobVars
  <2>5. RequestsSound' /\ QueuedBeforePublished'
      BY <1>1, <1>3, <1>9, <2>2 DEF IInv, RequestsSound, QueuedBeforePublished, At
  <2>6. PICK C \in SUBSET Verifiers : Counted(C)
      BY DEF IInv, WeightIsCounted
  <2>7. InFlight' = InFlight \cup {v} /\ v \notin InFlight
    <3>1. v \notin InFlight
        BY <1>1, <2>6 DEF Counted
    <3>2. \A q \in Requests : At(q, "increment")' <=> At(q, "increment") \/ q = r
        BY <2>2 DEF At
    <3> QED
        BY <1>6, <2>2, <3>1, <3>2 DEF InFlight
  <2>8. OneIncrementEach'
    <3>1. \A q \in Requests \ {r} : At(q, "increment") => request[q].verifier # v
        BY <2>7 DEF InFlight
    <3> QED
        BY <2>2, <3>1 DEF IInv, OneIncrementEach, At
  <2>9. WeightIsCounted'
    <3>1. Counted(C)'
        BY <1>1, <1>3, <2>3, <2>6, <2>7 DEF Counted
    <3> QED
        BY <3>1 DEF WeightIsCounted
  <2>10. \A q \in Requests \ {r} : Marking(q) <=> Marking(q)'
      BY <2>2 DEF Marking
  <2>11. QuorumBehind'
      BY <1>3, <1>7, <2>2, <2>3, <2>10 DEF IInv, QuorumBehind, Queued, Marking
  <2>12. MarksExplained'
    <3>1. Pending' # Attesters' => Pending # Attesters
        BY <2>3
    <3> QED
        BY <1>3, <1>6, <2>10, <3>1 DEF IInv, MarksExplained, Queued
  <2>13. SomebodyLooks'
      BY <2>2 DEF SomebodyLooks, Committed
  <2> QED
      BY <1>4, <1>5, <2>4, <2>5, <2>8, <2>9, <2>11, <2>12, <2>13 DEF IInv
<1> QED
    BY <1>8, <1>9

(* Its weight is added: a verifier moves from those in flight to those counted. *)
LEMMA IncrementInv ==
    ASSUME IInv, NEW r \in Requests, UNCHANGED jobVars, Increment(r)
    PROVE  IInv'
<1> DEFINE v == request[r].verifier
<1>1. At(r, "increment") /\ v \in Verifiers /\ TypeOK
    BY DEF IInv, RequestsSound, Increment, At
<1>2. UNCHANGED <<intentRow, attestation, job, proposal, ready, abandoned>>
    BY DEF Increment
<1>3. /\ request' \in [Requests -> [pc : Steps, verifier : Verifiers \cup {"none"},
                                    approved : BOOLEAN]]
      /\ request'[r].pc = "state" /\ request'[r].verifier = v
      /\ request'[r].approved = request[r].approved
      /\ \A q \in Requests \ {r} : request'[q] = request[q]
    BY <1>1, GotoType DEF Increment, Steps
<1>4. /\ subject' \in [status : Status, attested : Nat]
      /\ subject'.status = subject.status
      /\ subject'.attested = subject.attested + Weight[v]
    BY <1>1, WeightAssumption DEF Increment, TypeOK, IntakeTypeOK
<1>5. subject.status # "NONE"
    BY <1>1 DEF IInv, SubjectFirst, At
<1>6. Attesters' = Attesters /\ Pending' = Pending
    BY <1>2 DEF Attesters, Pending
<1>7. TypeOK'
    BY <1>1, <1>2, <1>3, <1>4 DEF TypeOK, IntakeTypeOK, jobVars
<1>8. RequestsSound' /\ QueuedBeforePublished'
    BY <1>1, <1>2, <1>3, <1>4 DEF IInv, RequestsSound, QueuedBeforePublished, At
<1>9. SubjectFirst'
    BY <1>4, <1>5 DEF SubjectFirst
<1>10. OneIncrementEach'
    BY <1>3 DEF IInv, OneIncrementEach, At
<1>11. InFlight' = InFlight \ {v} /\ v \in InFlight
  <2>1. \A q \in Requests : At(q, "increment")' <=> At(q, "increment") /\ q # r
      BY <1>3 DEF At
  <2>2. \A q \in Requests \ {r} : At(q, "increment") => request[q].verifier # v
      BY <1>1 DEF IInv, OneIncrementEach
  <2> QED
      BY <1>1, <1>3, <2>1, <2>2 DEF InFlight
<1>12. WeightIsCounted'
  <2>1. PICK C \in SUBSET Verifiers : Counted(C)
      BY DEF IInv, WeightIsCounted
  <2>2. C \cap {v} = {} /\ {v} \in SUBSET Verifiers
      BY <1>1, <1>11, <2>1 DEF Counted
  <2>3. WeightOf(C \cup {v}) = WeightOf(C) + Weight[v]
      BY <1>1, <2>2, WeightOfParts, WeightOfOne
  <2>4. PICK D \in SUBSET Verifiers : D = C \cup {v}
      BY <1>1
  <2>5. subject'.attested = WeightOf(D)
      BY <1>4, <2>1, <2>3, <2>4 DEF Counted
  <2>6. D \cap InFlight' = {}
      BY <1>11, <2>1, <2>4 DEF Counted
  <2>7. D \cup InFlight' = C \cup InFlight
      BY <1>11, <2>4
  <2>8. /\ D \cup InFlight' \subseteq Attesters'
        /\ ~abandoned' /\ subject'.status # "APPROVED" => D \cup InFlight' = Attesters'
      BY <1>2, <1>4, <1>6, <2>1, <2>7 DEF Counted
  <2>9. Counted(D)'
      BY <2>5, <2>6, <2>8 DEF Counted
  <2> QED
      BY <2>4, <2>9 DEF WeightIsCounted
<1>13. ~Marking(r) /\ ~Marking(r)' /\ Committed(r)'
    BY <1>1, <1>3 DEF Marking, Committed, At
<1>14. \A q \in Requests \ {r} : Marking(q) <=> Marking(q)'
    BY <1>3 DEF Marking
<1>15. QuorumBehind' /\ MarksExplained' /\ SomebodyLooks'
    BY <1>2, <1>4, <1>6, <1>13, <1>14
    DEF IInv, QuorumBehind, MarksExplained, SomebodyLooks, Queued
<1>16. SignersFollowChain' /\ ExecutorsWereOffered' /\ ApprovalFollowsChain'
    BY <1>2, <1>4, BotFrame DEF Queued
<1> QED
    BY <1>7, <1>8, <1>9, <1>10, <1>12, <1>15, <1>16 DEF IInv

(* A finalizer's write touches neither weights nor attesters, and its request marks *)
(* on, or leaves the intent queued and published.                                   *)
LEMMA FinalizerFrame ==
    ASSUME IInv, NEW r \in Requests, Marking(r),
           UNCHANGED <<proposal, abandoned, jobVars>>,
           intentRow' \in Status, job' \in JobStatus, ready' \in BOOLEAN,
           subject' \in [status : Status, attested : Nat],
           subject'.attested = subject.attested,
           subject'.status = subject.status
               \/ (subject.status # "APPROVED" /\ subject'.status = "READY_FOR_ONCHAIN"),
           attestation' \in [Verifiers -> Status], Attesters' = Attesters,
           request' \in [Requests -> [pc : Steps, verifier : Verifiers \cup {"none"},
                                     approved : BOOLEAN]],
           \A q \in Requests \ {r} : request'[q] = request[q],
           ~At(r, "idle")' => request'[r].verifier \in Verifiers,
           request'[r].approved => request[r].approved,
           At(r, "publish")' => job' # "NONE",
           job # "NONE" => job' # "NONE", ready => ready',
           Marking(r)' \/ (At(r, "idle")' /\ ready' /\ job' # "NONE")
    PROVE  IInv'
<1>1. TypeOK /\ subject.status # "NONE"
    BY DEF IInv, SubjectFirst, Marking
<1>2. ~At(r, "increment") /\ ~At(r, "increment")'
    BY DEF Marking, At
<1>3. InFlight' = InFlight /\ OneIncrementEach'
    BY <1>1, <1>2, OthersIncrement DEF IInv
<1>4. TypeOK'
    BY <1>1 DEF TypeOK, IntakeTypeOK, jobVars
<1>5. RequestsSound' /\ QueuedBeforePublished'
    BY DEF IInv, RequestsSound, QueuedBeforePublished, At
<1>6. SubjectFirst'
    BY <1>1 DEF SubjectFirst
<1>7. WeightIsCounted'
    BY <1>3 DEF IInv, WeightIsCounted, Counted
<1>8. WeightOf(Attesters) >= Threshold
    BY DEF IInv, QuorumBehind
<1>9. QuorumBehind'
    BY <1>8 DEF QuorumBehind
<1>10. (ready' /\ job' # "NONE") \/ Marking(r)'
    OBVIOUS
<1>11. MarksExplained' /\ SomebodyLooks'
    BY <1>10 DEF MarksExplained, SomebodyLooks, Marking, Committed
<1>12. SignersFollowChain' /\ ExecutorsWereOffered' /\ ApprovalFollowsChain'
    BY BotFrame DEF Queued
<1> QED
    BY <1>3, <1>4, <1>5, <1>6, <1>7, <1>9, <1>11, <1>12 DEF IInv

(* The four writes of a finalizer and its event, one case per step. *)
LEMMA MarkingInv ==
    ASSUME IInv, NEW r \in Requests, UNCHANGED jobVars,
           \/ MarkSubjectReady(r) \/ MarkAttestationsReady(r) \/ MarkIntentReady(r)
           \/ QueueJob(r) \/ PublishReady(r)
    PROVE  IInv'
<1>1. TypeOK /\ (~At(r, "idle") => request[r].verifier \in Verifiers)
    BY DEF IInv, RequestsSound
<1>2. intentRow \in Status /\ job \in JobStatus /\ ready \in BOOLEAN
      /\ subject \in [status : Status, attested : Nat]
      /\ attestation \in [Verifiers -> Status]
    BY <1>1 DEF TypeOK, IntakeTypeOK
<1>3. At(r, "publish") => job # "NONE"
    BY DEF IInv, QueuedBeforePublished
<1>4. CASE MarkSubjectReady(r)
  <2>1. PICK status \in Status :
            /\ subject' = [subject EXCEPT !.status = status]
            /\ status = subject.status
                 \/ (subject.status # "APPROVED" /\ status = "READY_FOR_ONCHAIN")
    <3>1. Readied(subject.status) \in Status
        BY <1>2 DEF Readied, Status
    <3>2. subject' = [subject EXCEPT !.status = Readied(subject.status)]
        BY <1>4 DEF MarkSubjectReady
    <3>3. Readied(subject.status) = subject.status
            \/ (subject.status # "APPROVED" /\ Readied(subject.status) = "READY_FOR_ONCHAIN")
        BY DEF Readied
    <3> QED
        BY <3>1, <3>2, <3>3, Zenon
  <2> QED
      BY <1>1, <1>2, <1>4, <2>1, GotoType, FinalizerFrame
      DEF MarkSubjectReady, At, Marking, Attesters, Steps
<1>5. CASE MarkAttestationsReady(r)
  <2>1. attestation' \in [Verifiers -> Status] /\ Attesters' = Attesters
      BY <1>2, <1>5 DEF MarkAttestationsReady, Readied, Status, Attesters
  <2> QED
      BY <1>1, <1>2, <1>5, <2>1, GotoType, FinalizerFrame
      DEF MarkAttestationsReady, At, Marking, Steps
<1>6. CASE MarkIntentReady(r)
  <2>1. intentRow' \in Status
      BY <1>2, <1>6 DEF MarkIntentReady, Readied, Status
  <2> QED
      BY <1>1, <1>2, <1>6, <2>1, GotoType, FinalizerFrame
      DEF MarkIntentReady, At, Marking, Attesters, Steps
<1>7. CASE QueueJob(r)
    BY <1>1, <1>2, <1>7, GotoType, FinalizerFrame
    DEF QueueJob, At, Marking, Attesters, Steps, JobStatus
<1>8. CASE PublishReady(r)
    BY <1>1, <1>2, <1>3, <1>8, FinishType, FinalizerFrame
    DEF PublishReady, At, Marking, Attesters, NoRequest
<1> QED
    BY <1>4, <1>5, <1>6, <1>7, <1>8

(* A request that dies past its insert is on record as abandoned. *)
LEMMA DieInv ==
    ASSUME IInv, NEW r \in Requests, UNCHANGED jobVars, Die(r)
    PROVE  IInv'
<1>1. TypeOK
    BY DEF IInv
<1>2. /\ request' \in [Requests -> [pc : Steps, verifier : Verifiers \cup {"none"},
                                    approved : BOOLEAN]]
      /\ request'[r] = NoRequest
      /\ \A q \in Requests \ {r} : request'[q] = request[q]
    BY <1>1, FinishType DEF Die
<1>3. UNCHANGED <<intentRow, subject, attestation, job, proposal, ready>>
    BY DEF Die
<1>4. abandoned' \in BOOLEAN /\ (abandoned' <=> abandoned \/ Committed(r))
    BY <1>1 DEF Die, TypeOK, IntakeTypeOK, Committed
<1>5. Attesters' = Attesters /\ Pending' = Pending
    BY <1>3 DEF Attesters, Pending
<1>6. CASE ~Committed(r)
  <2>1. abandoned' = abandoned
      BY <1>1, <1>4, <1>6 DEF TypeOK, IntakeTypeOK
  <2> QED
      BY <1>2, <1>3, <1>6, <2>1, ReadInv DEF At, Marking, Committed, NoRequest
<1>7. CASE Committed(r)
  <2>1. abandoned'
      BY <1>4, <1>7
  <2>2. TypeOK'
      BY <1>1, <1>2, <1>3, <1>4 DEF TypeOK, IntakeTypeOK, jobVars
  <2>3. RequestsSound' /\ QueuedBeforePublished' /\ OneIncrementEach'
      BY <1>2, <1>3
      DEF IInv, RequestsSound, QueuedBeforePublished, OneIncrementEach, At, NoRequest
  <2>4. SubjectFirst'
      BY <1>2, <1>3, <1>5 DEF IInv, SubjectFirst, NoRequest, jobVars, SignerAt
  <2>5. InFlight' \subseteq InFlight
      BY <1>2 DEF InFlight, At, NoRequest
  <2>6. WeightIsCounted'
      BY <1>3, <1>5, <2>1, <2>5 DEF IInv, WeightIsCounted, Counted
  <2>7. QuorumBehind'
      BY <1>2, <1>3, <1>5 DEF IInv, QuorumBehind, Queued, Marking, NoRequest
  <2>8. MarksExplained' /\ SomebodyLooks'
      BY <2>1 DEF MarksExplained, SomebodyLooks
  <2>9. SignersFollowChain' /\ ExecutorsWereOffered' /\ ApprovalFollowsChain'
      BY <1>3, BotFrame DEF Queued
  <2> QED
      BY <2>2, <2>3, <2>4, <2>6, <2>7, <2>8, <2>9 DEF IInv
<1> QED
    BY <1>6, <1>7

-----------------------------------------------------------------------------
(* The propose request *)

(* The row of the intent, and the subject's row if nobody was faster. *)
LEMMA ProposeInv ==
    ASSUME IInv, UNCHANGED jobVars,
           InsertIntent \/ FindProposed \/ CreateProposed \/ DieProposing
    PROVE  IInv'
<1>1. TypeOK
    BY DEF IInv
<1>2. CASE CreateProposed /\ subject.status = "NONE"
  <2>1. \A r \in Requests : /\ request[r].pc \in {"idle", "find", "create"}
                            /\ ~At(r, "idle") => request[r].verifier \in Verifiers
                            /\ ~request[r].approved
      BY <1>2 DEF IInv, SubjectFirst, RequestsSound
  <2> QED
      BY <1>1, <1>2, <2>1, SubjectCreatedInv DEF CreateProposed, TypeOK, IntakeTypeOK, At
<1>3. CASE InsertIntent \/ FindProposed \/ DieProposing
           \/ (CreateProposed /\ subject.status # "NONE")
  <2>1. /\ UNCHANGED <<subject, attestation, job, request, ready, abandoned>>
        /\ intentRow' \in Status /\ proposal' \in {"new", "find", "create", "done"}
      BY <1>1, <1>3
      DEF InsertIntent, FindProposed, DieProposing, CreateProposed, TypeOK, IntakeTypeOK, Status
  <2>2. TypeOK'
      BY <1>1, <2>1 DEF TypeOK, IntakeTypeOK, jobVars
  <2>3. SubjectFirst'
      BY <2>1 DEF IInv, SubjectFirst, Attesters, jobVars, SignerAt
  <2>4. SignersFollowChain' /\ ExecutorsWereOffered' /\ ApprovalFollowsChain'
      BY <2>1, BotFrame DEF Queued
  <2> QED
      BY <2>1, <2>2, <2>3, <2>4, RowsFrame DEF IInv
<1> QED
    BY <1>2, <1>3

(* The attestation request that creates the subject's row. *)
LEMMA InsertSubjectInv ==
    ASSUME IInv, NEW r \in Requests, UNCHANGED jobVars,
           InsertSubject(r), subject.status = "NONE"
    PROVE  IInv'
<1>1. TypeOK
    BY DEF IInv
<1>2. \A q \in Requests : /\ request[q].pc \in {"idle", "find", "create"}
                          /\ ~At(q, "idle") => request[q].verifier \in Verifiers
                          /\ ~request[q].approved
    BY DEF IInv, SubjectFirst, RequestsSound
<1>3. /\ request' \in [Requests -> [pc : Steps, verifier : Verifiers \cup {"none"},
                                    approved : BOOLEAN]]
      /\ request'[r].pc = "read" /\ request'[r].verifier = request[r].verifier
      /\ request'[r].approved = request[r].approved
      /\ \A q \in Requests \ {r} : request'[q] = request[q]
    BY <1>1, GotoType DEF InsertSubject, Steps
<1>4. request[r].verifier \in Verifiers
    BY <1>2 DEF InsertSubject, At
<1>5. \A q \in Requests :
          /\ request'[q].pc \in {"idle", "find", "create", "read"}
          /\ ~At(q, "idle")' => request'[q].verifier \in Verifiers
          /\ ~request'[q].approved
    BY <1>2, <1>3, <1>4 DEF At
<1>6. proposal' \in {"new", "find", "create", "done"}
    BY <1>1 DEF InsertSubject, TypeOK, IntakeTypeOK
<1> QED
    BY <1>3, <1>5, <1>6, SubjectCreatedInv DEF InsertSubject

-----------------------------------------------------------------------------
(* The bot and the chain *)

(* A step of theirs that leaves the relayer alone, and undoes no approval. *)
LEMMA ElsewhereInv ==
    ASSUME IInv, UNCHANGED intakeVars,
           chain' \in [phase : {"absent", "proposed", "approved", "executed"},
                       attested : SUBSET Verifiers],
           expired' \subseteq Verifiers,
           signer' \in [Signers -> [pc : {"idle", "rows", "send", "check", "ack",
                                          "approve", "fail"},
                                    bundle : SUBSET Verifiers]],
           executor' \in [Executors -> {"idle", "dryRun", "send", "ack", "fail"}],
           IsIntentApproved => IsIntentApproved',
           \A s \in Signers :
               \/ signer'[s].pc = signer[s].pc
               \/ signer'[s].pc = "idle"
               \/ /\ subject.status # "NONE"
                  /\ signer'[s].pc \in {"ack", "approve"} => IsIntentApproved'
                  /\ signer'[s].pc = "approve" => Queued,
           \A x \in Executors : executor'[x] # "idle" => executor[x] # "idle" \/ job # "NONE"
    PROVE  IInv'
<1> USE DEF intakeVars
<1>1. TypeOK'
    BY DEF IInv, TypeOK, IntakeTypeOK
<1>2. SubjectFirst'
    BY DEF IInv, SubjectFirst, Attesters, SignerAt
<1>3. SignersFollowChain' /\ ApprovalFollowsChain'
    BY DEF IInv, SignersFollowChain, ApprovalFollowsChain, SignerAt, Queued, IsIntentApproved
<1>4. ExecutorsWereOffered'
    BY DEF IInv, ExecutorsWereOffered, ExecutorAt
<1> QED
    BY <1>1, <1>2, <1>3, <1>4, RowsFrame DEF IInv

(* What a command reads, sends or gives up, one case per step. *)
LEMMA CommandInv ==
    ASSUME IInv,
           \/ ProposeOnChain \/ \E v \in Verifiers : Expire(v)
           \/ \E s \in Signers :
                  \/ FetchBundle(s) \/ FilterBundle(s) \/ SendAttestations(s)
                  \/ CheckApproved(s) \/ ReadAttested(s) \/ DieSigning(s)
           \/ \E x \in Executors :
                  ListReady(x) \/ DryRun(x) \/ SendExecution(x) \/ DieExecuting(x)
    PROVE  IInv'
<1> USE DEF SignerAt, SignerGoto, SignerEnd, ExecutorAt, ExecutorGoto, NoBundle,
            IsIntentApproved
<1>1. /\ chain \in [phase : {"absent", "proposed", "approved", "executed"},
                    attested : SUBSET Verifiers]
      /\ expired \subseteq Verifiers
      /\ signer \in [Signers -> [pc : {"idle", "rows", "send", "check", "ack",
                                       "approve", "fail"},
                                 bundle : SUBSET Verifiers]]
      /\ executor \in [Executors -> {"idle", "dryRun", "send", "ack", "fail"}]
    BY DEF IInv, TypeOK
<1>2. \A s \in Signers : signer[s].pc # "idle" => subject.status # "NONE"
    BY DEF IInv, SubjectFirst
<1>3. CASE ProposeOnChain
    BY <1>1, <1>3, ElsewhereInv DEF ProposeOnChain
<1>4. CASE \E v \in Verifiers : Expire(v)
    BY <1>1, <1>4, ElsewhereInv DEF Expire
<1>5. ASSUME NEW s \in Signers, FetchBundle(s) PROVE IInv'
    BY <1>1, <1>5, ElsewhereInv DEF FetchBundle
<1>6. ASSUME NEW s \in Signers, FilterBundle(s) PROVE IInv'
    BY <1>1, <1>2, <1>6, ElsewhereInv DEF FilterBundle, Attesters
<1>7. ASSUME NEW s \in Signers, SendAttestations(s) PROVE IInv'
  <2>1. \/ UNCHANGED chain
        \/ /\ chain.phase = "proposed"
           /\ chain' \in [phase : {"proposed", "approved"}, attested : SUBSET Verifiers]
      BY <1>1, <1>7 DEF SendAttestations, Accepts
  <2>2. \E pc \in {"idle", "check", "fail"} :
            signer' = [signer EXCEPT ![s].pc = pc]
            \/ signer' = [signer EXCEPT ![s] = [pc |-> "idle", bundle |-> {}]]
      BY <1>7 DEF SendAttestations
  <2> QED
      BY <1>1, <1>2, <1>7, <2>1, <2>2, ElsewhereInv DEF SendAttestations
<1>8. ASSUME NEW s \in Signers, CheckApproved(s) PROVE IInv'
    BY <1>1, <1>2, <1>8, ElsewhereInv DEF CheckApproved
<1>9. ASSUME NEW s \in Signers, ReadAttested(s) PROVE IInv'
  <2>1. signer[s].pc = "ack" => IsIntentApproved
      BY DEF IInv, SignersFollowChain
  <2> QED
      BY <1>1, <1>2, <1>9, <2>1, ElsewhereInv DEF ReadAttested, Queued
<1>10. ASSUME NEW s \in Signers, DieSigning(s) PROVE IInv'
    BY <1>1, <1>10, ElsewhereInv DEF DieSigning
<1>11. ASSUME NEW x \in Executors, ListReady(x) PROVE IInv'
    BY <1>1, <1>11, ElsewhereInv DEF ListReady, Offered
<1>12. ASSUME NEW x \in Executors, DryRun(x) PROVE IInv'
    BY <1>1, <1>12, ElsewhereInv DEF DryRun
<1>13. ASSUME NEW x \in Executors, SendExecution(x) PROVE IInv'
    BY <1>1, <1>13, ElsewhereInv DEF SendExecution
<1>14. ASSUME NEW x \in Executors, DieExecuting(x) PROVE IInv'
    BY <1>1, <1>14, ElsewhereInv DEF DieExecuting
<1> QED
    BY <1>3, <1>4, <1>5, <1>6, <1>7, <1>8, <1>9, <1>10, <1>11, <1>12, <1>13, <1>14

(* A report writes the job's status, never where there was no job. *)
LEMMA ReportInv ==
    ASSUME IInv,
           \/ \E s \in Signers : ReportUnattested(s)
           \/ \E x \in Executors : ReportExecuted(x) \/ ReportFailed(x)
    PROVE  IInv'
<1>1. TypeOK
    BY DEF IInv
<1>2. UNCHANGED <<intentRow, subject, attestation, proposal, request, ready, abandoned,
                  chain, expired>>
    BY DEF ReportUnattested, ReportExecuted, ReportFailed
<1>3. /\ job' \in JobStatus
      /\ job # "NONE" <=> job' # "NONE"
  <2>1. \A x \in Executors : ~ExecutorAt(x, "idle") => job # "NONE"
      BY DEF IInv, ExecutorsWereOffered
  <2> QED
      BY <1>1, <2>1 DEF ReportUnattested, ReportExecuted, ReportFailed, MarkFailed,
                        JobStatus, TypeOK, IntakeTypeOK, ExecutorAt
<1>4. /\ signer' \in [Signers -> [pc : {"idle", "rows", "send", "check", "ack",
                                        "approve", "fail"},
                                  bundle : SUBSET Verifiers]]
      /\ \A s \in Signers : signer'[s].pc \in {signer[s].pc, "idle"}
    BY <1>1 DEF ReportUnattested, ReportExecuted, ReportFailed, SignerEnd, NoBundle, TypeOK
<1>5. /\ executor' \in [Executors -> {"idle", "dryRun", "send", "ack", "fail"}]
      /\ \A x \in Executors : executor'[x] # "idle" => executor[x] # "idle"
    BY <1>1 DEF ReportUnattested, ReportExecuted, ReportFailed, ExecutorAt, ExecutorGoto, TypeOK
<1>6. TypeOK'
    BY <1>1, <1>2, <1>3, <1>4, <1>5 DEF TypeOK, IntakeTypeOK
<1>7. SubjectFirst'
    BY <1>2, <1>4 DEF IInv, SubjectFirst, Attesters, SignerAt
<1>8. SignersFollowChain' /\ ApprovalFollowsChain'
    BY <1>2, <1>4 DEF IInv, SignersFollowChain, ApprovalFollowsChain, SignerAt, Queued
<1>9. ExecutorsWereOffered'
    BY <1>3, <1>5 DEF IInv, ExecutorsWereOffered, ExecutorAt
<1> QED
    BY <1>2, <1>3, <1>6, <1>7, <1>8, <1>9, RowsFrame DEF IInv

(* The relayer is told of an approval: all four tables change at once. *)
LEMMA ApproveInv ==
    ASSUME IInv, NEW s \in Signers, MarkSubjectApproved(s)
    PROVE  IInv'
<1>1. TypeOK
    BY DEF IInv
<1>2. Queued /\ chain.phase \in {"approved", "executed"}
    BY DEF IInv, SignersFollowChain, MarkSubjectApproved
<1>3. UNCHANGED <<proposal, request, ready, abandoned, chain, expired, executor>>
    BY DEF MarkSubjectApproved
<1>4. /\ subject' \in [status : Status, attested : Nat]
      /\ subject'.status = "APPROVED" /\ subject'.attested = subject.attested
    BY <1>1 DEF MarkSubjectApproved, TypeOK, IntakeTypeOK, Status
<1>5. attestation' \in [Verifiers -> Status] /\ Attesters' = Attesters
    BY <1>1 DEF MarkSubjectApproved, TypeOK, IntakeTypeOK, Status, Attesters
<1>6. intentRow' \in Status /\ job' = "READY" /\ job' \in JobStatus
    BY DEF MarkSubjectApproved, Status, JobStatus
<1>7. /\ signer' \in [Signers -> [pc : {"idle", "rows", "send", "check", "ack",
                                        "approve", "fail"},
                                  bundle : SUBSET Verifiers]]
      /\ \A t \in Signers : signer'[t].pc \in {signer[t].pc, "idle"}
    BY <1>1 DEF MarkSubjectApproved, SignerEnd, NoBundle, TypeOK
<1>8. TypeOK'
    BY <1>1, <1>3, <1>4, <1>5, <1>6, <1>7 DEF TypeOK, IntakeTypeOK
<1>9. RequestsSound' /\ OneIncrementEach' /\ QueuedBeforePublished' /\ InFlight' = InFlight
    BY <1>3, <1>4, <1>6
    DEF IInv, RequestsSound, OneIncrementEach, QueuedBeforePublished, InFlight, At
<1>10. SubjectFirst' /\ Queued'
    BY <1>4 DEF SubjectFirst, Queued
<1>11. WeightIsCounted'
    BY <1>4, <1>5, <1>9 DEF IInv, WeightIsCounted, Counted
<1>12. QuorumBehind'
    BY <1>2, <1>5 DEF IInv, QuorumBehind
<1>13. ~abandoned => (ready /\ job # "NONE") \/ \E r \in Requests : Marking(r)
    BY <1>2 DEF IInv, MarksExplained
<1>14. MarksExplained' /\ SomebodyLooks'
    BY <1>3, <1>6, <1>13 DEF MarksExplained, SomebodyLooks, Marking, Committed
<1>15. SignersFollowChain' /\ ExecutorsWereOffered' /\ ApprovalFollowsChain'
    BY <1>2, <1>3, <1>6, <1>7, <1>10
    DEF IInv, SignersFollowChain, ExecutorsWereOffered, ApprovalFollowsChain, SignerAt
<1> QED
    BY <1>8, <1>9, <1>10, <1>11, <1>12, <1>14, <1>15 DEF IInv

-----------------------------------------------------------------------------
(* The theorems *)

(* Every step of the relayer, the bot and the chain keeps the invariant. *)
LEMMA NextInv == IInv /\ [Next]_vars => IInv'
<1> SUFFICES ASSUME IInv, [Next]_vars PROVE IInv'
    OBVIOUS
<1>1. ASSUME IntakeStep, UNCHANGED jobVars PROVE IInv'
  <2>1. CASE Propose \/ DieProposing
      BY <1>1, <2>1, ProposeInv DEF Propose
  <2>2. ASSUME NEW r \in Requests, Die(r) \/ \E v \in Verifiers : Attest(r, v)
        PROVE  IInv'
      BY <1>1, <2>2, DieInv, ReadingInv
  <2>3. ASSUME NEW r \in Requests, Serve(r) PROVE IInv'
      BY <1>1, <2>3, ReadingInv, InsertSubjectInv, AttestationStoredInv, IncrementInv,
         MarkingInv DEF Serve
  <2> QED
      BY <1>1, <2>1, <2>2, <2>3 DEF IntakeStep
<1>2. CASE ProposeOnChain \/ \E v \in Verifiers : Expire(v)
    BY <1>2, CommandInv
<1>3. ASSUME NEW s \in Signers, Sign(s) \/ DieSigning(s) PROVE IInv'
    BY <1>3, CommandInv, ReportInv, ApproveInv DEF Sign
<1>4. ASSUME NEW x \in Executors, Execute(x) \/ DieExecuting(x) PROVE IInv'
    BY <1>4, CommandInv, ReportInv DEF Execute
<1>5. CASE UNCHANGED vars
  <2>1. UNCHANGED intakeVars /\ UNCHANGED jobVars
      BY <1>5 DEF vars
  <2>2. IsIntentApproved => IsIntentApproved'
      BY <2>1 DEF IsIntentApproved, jobVars
  <2> QED
      BY <2>1, <2>2, ElsewhereInv DEF IInv, TypeOK, jobVars
<1> QED
    BY <1>1, <1>2, <1>3, <1>4, <1>5 DEF Next

(* The inductive invariant holds throughout. *)
THEOREM Invariant == Spec => []IInv
<1>1. Init => IInv
    BY InitInv
<1>2. IInv /\ [Next]_vars => IInv'
    BY NextInv
<1> QED
    BY <1>1, <1>2, PTL DEF Spec

(* Rows, requests and runs keep their types: the statuses are those of the schema. *)
THEOREM TypeCorrect == Spec => []TypeOK
<1>1. IInv => TypeOK
    BY DEF IInv
<1> QED
    BY <1>1, Invariant, PTL

(* The stored weight counts every attesting verifier once, whatever interleaves. *)
THEOREM WeightTheorem == Spec => []WeightCountedOnce
<1>1. IInv => WeightCountedOnce
  <2> SUFFICES ASSUME IInv PROVE WeightCountedOnce
      OBVIOUS
  <2>1. PICK C \in SUBSET Verifiers : Counted(C)
      BY DEF IInv, WeightIsCounted
  <2>2. InFlight \in SUBSET Verifiers /\ Attesters \in SUBSET Verifiers
      BY <2>1 DEF Counted, Attesters
  <2>3. C \cup InFlight \in SUBSET Attesters
      BY <2>1 DEF Counted
  <2>4. subject.attested + WeightOf(InFlight) = WeightOf(C \cup InFlight)
      BY <2>1, <2>2, WeightOfParts DEF Counted
  <2>5. WeightOf(C \cup InFlight) <= WeightOf(Attesters)
      BY <2>2, <2>3, WeightOfSubset
  <2> QED
      BY <2>1, <2>4, <2>5 DEF WeightCountedOnce, Counted
<1> QED
    BY <1>1, Invariant, PTL

(* No interleaving of attestations leaves a quorum without its job and its event. *)
THEOREM NoticedTheorem == Spec => []QuorumNoticed
<1>1. IInv => QuorumNoticed
    BY DEF IInv, SomebodyLooks, QuorumNoticed
<1> QED
    BY <1>1, Invariant, PTL

(* Nothing is queued, or called ready, below the threshold. *)
THEOREM QueuedTheorem == Spec => []QueuedHasQuorum
<1>1. IInv => QueuedHasQuorum
    BY DEF IInv, QuorumBehind, QueuedHasQuorum, Queued
<1> QED
    BY <1>1, Invariant, PTL

(* What the relayer calls approved is approved on chain. *)
THEOREM ChainTheorem == Spec => []ApprovalFollowsChain
<1>1. IInv => ApprovalFollowsChain
    BY DEF IInv
<1> QED
    BY <1>1, Invariant, PTL

(* The row of the intent comes with its proposal. *)
LEMMA NoRowBeforeInv == Spec => []NoRowBefore
<1>1. Init => NoRowBefore
    BY DEF Init, InitIntake, NoRowBefore
<1>2. NoRowBefore /\ [Next]_vars => NoRowBefore'
  <2> SUFFICES ASSUME NoRowBefore, [Next]_vars PROVE NoRowBefore'
      OBVIOUS
  <2> USE DEF NoRowBefore
  <2>1. CASE IntakeStep
      BY <2>1 DEF IntakeStep, Propose, InsertIntent, FindProposed, CreateProposed,
         DieProposing, Serve, Die, Attest, FindSubject, InsertSubject, ReadSubject,
         InsertAttestation, Increment, ReadState, ListPending, MarkSubjectReady,
         MarkAttestationsReady, MarkIntentReady, Readied, QueueJob, PublishReady
  <2>2. CASE \E s \in Signers : MarkSubjectApproved(s)
      BY <2>2 DEF MarkSubjectApproved
  <2>3. CASE UNCHANGED <<proposal, intentRow>>
      BY <2>3
  <2> QED
      BY <2>1, <2>2, <2>3
      DEF Next, vars, intakeVars, ProposeOnChain, Expire, Sign, DieSigning, Execute,
          DieExecuting, FetchBundle, FilterBundle, SendAttestations, CheckApproved,
          ReadAttested, ReportUnattested, ListReady, DryRun, SendExecution,
          ReportExecuted, ReportFailed
<1> QED
    BY <1>1, <1>2, PTL DEF Spec

(* The statuses are ranked, and readying or approving moves up. *)
LEMMA RankOrder ==
    ASSUME NEW status \in Status
    PROVE  /\ Rank(status) \in 0..3 /\ Rank("NONE") = 0 /\ Rank("APPROVED") = 3
           /\ Readied(status) \in Status /\ Rank(Readied(status)) >= Rank(status)
BY DEF Rank, Status, Readied

(* No writer, however late, takes a row back to an earlier status. *)
THEOREM DemotionTheorem == Spec => NeverDemoted
<1>1. TypeOK /\ NoRowBefore /\ [Next]_vars => NoDemotion \/ UNCHANGED intakeVars
  <2> SUFFICES ASSUME TypeOK, NoRowBefore, [Next]_vars, ~UNCHANGED intakeVars
               PROVE  NoDemotion
      OBVIOUS
  <2>1. /\ intentRow \in Status /\ subject.status \in Status
        /\ subject \in [status : Status, attested : Nat]
        /\ attestation \in [Verifiers -> Status]
      BY DEF TypeOK, IntakeTypeOK
  <2>2. ASSUME UNCHANGED intentRow, UNCHANGED subject.status, UNCHANGED attestation
        PROVE  NoDemotion
      BY <2>1, <2>2, RankOrder DEF NoDemotion
  <2>3. CASE IntakeStep
    <3>1. CASE InsertIntent
      <4>1. intentRow = "NONE" /\ intentRow' = "PENDING" /\ "PENDING" \in Status
          BY <3>1 DEF InsertIntent, NoRowBefore, Status
      <4>2. UNCHANGED subject /\ UNCHANGED attestation
          BY <3>1 DEF InsertIntent
      <4>3. Rank(intentRow') >= Rank(intentRow)
          BY <4>1, RankOrder
      <4>4. /\ Rank(subject'.status) >= Rank(subject.status)
            /\ \A v \in Verifiers : Rank(attestation'[v]) >= Rank(attestation[v])
          BY <2>1, <4>2, RankOrder
      <4> QED
          BY <4>3, <4>4 DEF NoDemotion
    <3>2. ASSUME subject.status = "NONE", CreateSubject,
                 UNCHANGED intentRow, UNCHANGED attestation
          PROVE  NoDemotion
      <4>1. subject'.status = "PENDING" /\ "PENDING" \in Status
          BY <3>2 DEF CreateSubject, Status
      <4> QED
          BY <2>1, <3>2, <4>1, RankOrder DEF NoDemotion
    <3>3. CASE CreateProposed
        BY <2>2, <3>2, <3>3 DEF CreateProposed
    <3>4. CASE FindProposed \/ DieProposing
        BY <2>2, <3>4 DEF FindProposed, DieProposing
    <3>5. ASSUME NEW r \in Requests,
                 \/ FindSubject(r) \/ ReadSubject(r) \/ ReadState(r) \/ ListPending(r)
                 \/ QueueJob(r) \/ PublishReady(r) \/ Die(r)
                 \/ \E v \in Verifiers : Attest(r, v)
          PROVE  NoDemotion
        BY <2>2, <3>5 DEF FindSubject, ReadSubject, ReadState, ListPending, QueueJob,
                          PublishReady, Die, Attest
    <3>6. ASSUME NEW r \in Requests, InsertSubject(r) PROVE NoDemotion
        BY <2>2, <3>2, <3>6 DEF InsertSubject
    <3>7. ASSUME NEW r \in Requests, InsertAttestation(r) PROVE NoDemotion
      <4>1. UNCHANGED intentRow /\ UNCHANGED subject
          BY <3>7 DEF InsertAttestation
      <4>2. \A v \in Verifiers :
                \/ attestation'[v] = attestation[v]
                \/ attestation[v] = "NONE" /\ attestation'[v] \in Status
          BY <2>1, <3>7 DEF InsertAttestation, Duplicate, Status
      <4> QED
          BY <2>1, <4>1, <4>2, RankOrder DEF NoDemotion
    <3>8. ASSUME NEW r \in Requests, Increment(r) PROVE NoDemotion
      <4>1. subject'.status = subject.status
          BY <2>1, <3>8 DEF Increment
      <4> QED
          BY <2>2, <3>8, <4>1 DEF Increment
    <3>9. ASSUME NEW r \in Requests, MarkSubjectReady(r) PROVE NoDemotion
      <4>1. subject' = [subject EXCEPT !.status = Readied(subject.status)]
          BY <3>9, Zenon DEF MarkSubjectReady
      <4>2. Readied(subject.status) \in Status
          BY <2>1, RankOrder
      <4>3. subject'.status = Readied(subject.status)
          BY <2>1, <4>1, <4>2
      <4>4. UNCHANGED intentRow /\ UNCHANGED attestation
          BY <3>9 DEF MarkSubjectReady
      <4> QED
          BY <2>1, <4>3, <4>4, RankOrder DEF NoDemotion
    <3>10. ASSUME NEW r \in Requests, MarkAttestationsReady(r) PROVE NoDemotion
      <4>1. \A v \in Verifiers : attestation'[v] = Readied(attestation[v])
          BY <3>10 DEF MarkAttestationsReady
      <4>2. UNCHANGED intentRow /\ UNCHANGED subject
          BY <3>10 DEF MarkAttestationsReady
      <4> QED
          BY <2>1, <4>1, <4>2, RankOrder DEF NoDemotion
    <3>11. ASSUME NEW r \in Requests, MarkIntentReady(r) PROVE NoDemotion
        BY <2>1, <3>11, RankOrder DEF MarkIntentReady, NoDemotion
    <3> QED
        BY <2>3, <3>1, <3>3, <3>4, <3>5, <3>6, <3>7, <3>8, <3>9, <3>10, <3>11
        DEF IntakeStep, Propose, Serve
  <2>4. ASSUME NEW s \in Signers, MarkSubjectApproved(s) PROVE NoDemotion
    <3>1. subject'.status = "APPROVED"
        BY <2>1, <2>4 DEF MarkSubjectApproved
    <3>2. /\ intentRow' \in {intentRow, "APPROVED"}
          /\ \A v \in Verifiers : attestation'[v] \in {attestation[v], "APPROVED"}
        BY <2>4 DEF MarkSubjectApproved
    <3> QED
        BY <2>1, <3>1, <3>2, RankOrder DEF NoDemotion
  <2>5. CASE UNCHANGED <<intentRow, subject, attestation>>
      BY <2>2, <2>5
  <2> QED
      BY <2>3, <2>4, <2>5
      DEF Next, vars, intakeVars, ProposeOnChain, Expire, Sign, DieSigning, Execute,
          DieExecuting, FetchBundle, FilterBundle, SendAttestations, CheckApproved,
          ReadAttested, ReportUnattested, ListReady, DryRun, SendExecution,
          ReportExecuted, ReportFailed
<1> QED
    BY <1>1, TypeCorrect, NoRowBeforeInv, PTL DEF Spec, NeverDemoted

-----------------------------------------------------------------------------
(* The relay *)

(* An attestation that is stored stays stored, and its verifiers only grow. *)
LEMMA AttestersGrow ==
    ASSUME IInv, [Next]_vars
    PROVE  Attesters \subseteq Attesters'
<1>1. \A v \in Verifiers : attestation[v] # "NONE" => attestation'[v] # "NONE"
  <2>1. attestation \in [Verifiers -> Status]
      BY DEF IInv, TypeOK, IntakeTypeOK
  <2>2. CASE \E r \in Requests : InsertAttestation(r)
      BY <2>1, <2>2 DEF InsertAttestation
  <2>3. CASE \E r \in Requests : MarkAttestationsReady(r)
      BY <2>3 DEF MarkAttestationsReady, Readied
  <2>4. CASE \E s \in Signers : MarkSubjectApproved(s)
      BY <2>4 DEF MarkSubjectApproved
  <2>5. CASE UNCHANGED attestation
      BY <2>5
  <2> QED
      BY <2>2, <2>3, <2>4, <2>5
      DEF Next, vars, intakeVars, IntakeStep, Propose, InsertIntent, FindProposed,
          CreateProposed, DieProposing, Serve, Die, Attest, FindSubject, InsertSubject,
          ReadSubject, Increment, ReadState, ListPending, MarkSubjectReady,
          MarkIntentReady, QueueJob, PublishReady, ProposeOnChain, Expire, Sign,
          DieSigning, Execute, DieExecuting, FetchBundle, FilterBundle,
          SendAttestations, CheckApproved, ReadAttested, ReportUnattested, ListReady,
          DryRun, SendExecution, ReportExecuted, ReportFailed
<1> QED
    BY <1>1 DEF Attesters

(* So a quorum stays one. *)
LEMMA QuorumLasts ==
    ASSUME IInv, [Next]_vars, WeightOf(Attesters) >= Threshold
    PROVE  WeightOf(Attesters') >= Threshold
<1>1. Attesters \in SUBSET Attesters' /\ Attesters' \in SUBSET Verifiers
    BY AttestersGrow DEF Attesters
<1>2. WeightOf(Attesters) <= WeightOf(Attesters')
    BY <1>1, WeightOfSubset
<1>3. WeightOf(Attesters) \in Nat /\ WeightOf(Attesters') \in Nat
    BY <1>1, WeightType
<1> QED
    BY <1>2, <1>3, WeightAssumption

(* The weight the bundle's request reads is that of attestations that are stored. *)
LEMMA StoredWeightIsBacked ==
    ASSUME IInv, subject.attested >= Threshold
    PROVE  WeightOf(Attesters) >= Threshold
<1>1. PICK C \in SUBSET Verifiers : Counted(C)
    BY DEF IInv, WeightIsCounted
<1>2. C \in SUBSET Attesters /\ Attesters \in SUBSET Verifiers
    BY <1>1 DEF Counted, Attesters
<1>3. WeightOf(C) <= WeightOf(Attesters)
    BY <1>2, WeightOfSubset
<1>4. WeightOf(C) \in Nat /\ WeightOf(Attesters) \in Nat
    BY <1>2, WeightType
<1>5. subject.attested = WeightOf(C)
    BY <1>1 DEF Counted
<1> QED
    BY <1>3, <1>4, <1>5, WeightAssumption

(* What the other steps do to a signer: nothing, or end it. *)
LEMMA CarryInv == IInv /\ SignersCarry /\ [Next]_vars => SignersCarry'
<1> SUFFICES ASSUME IInv, SignersCarry, [Next]_vars PROVE SignersCarry'
    OBVIOUS
<1> DEFINE Carries(t) ==
              /\ ~SignerAt(t, "idle") => WeightOf(Attesters) >= Threshold
              /\ signer[t].bundle \subseteq Attesters
              /\ SignerAt(t, "send") => signer[t].bundle # {}
<1>1. \A t \in Signers : Carries(t)
    BY DEF SignersCarry
<1>2. /\ Attesters \subseteq Attesters'
      /\ WeightOf(Attesters) >= Threshold => WeightOf(Attesters)' >= Threshold
  <2>1. WeightOf(Attesters)' = WeightOf(Attesters')
      BY DEF WeightOf, Units
  <2> QED
      BY <2>1, AttestersGrow, QuorumLasts
<1>3. signer \in [Signers -> [pc : {"idle", "rows", "send", "check", "ack", "approve", "fail"},
                              bundle : SUBSET Verifiers]]
    BY DEF IInv, TypeOK
<1>4. ASSUME NEW t \in Signers, signer'[t] = signer[t] \/ signer'[t] = NoBundle PROVE Carries(t)'
    BY <1>1, <1>2, <1>4 DEF SignerAt, NoBundle
<1>5. ASSUME NEW t \in Signers, signer'[t].bundle = signer[t].bundle, signer'[t].pc # "send",
             signer[t].pc # "idle"
      PROVE  Carries(t)'
    BY <1>1, <1>2, <1>5 DEF SignerAt
<1>6. ASSUME NEW s \in Signers, Sign(s) \/ DieSigning(s) PROVE SignersCarry'
  <2>1. \A t \in Signers \ {s} : signer'[t] = signer[t]
      BY <1>3, <1>6 DEF Sign, DieSigning, FetchBundle, FilterBundle, SendAttestations,
         CheckApproved, ReadAttested, MarkSubjectApproved, ReportUnattested,
         SignerGoto, SignerEnd
  <2>2. ASSUME FetchBundle(s) PROVE Carries(s)'
    <3>1. WeightOf(Attesters)' >= Threshold
        BY <2>2, <1>2, StoredWeightIsBacked DEF FetchBundle
    <3>2. signer'[s].bundle = signer[s].bundle /\ signer'[s].pc = "rows"
        BY <1>3, <2>2 DEF FetchBundle, SignerGoto
    <3> QED
        BY <1>1, <1>2, <3>1, <3>2 DEF SignerAt
  <2>3. ASSUME FilterBundle(s) PROVE Carries(s)'
    <3>1. signer[s].pc # "idle"
        BY <2>3 DEF FilterBundle, SignerAt
    <3>2. /\ signer'[s].bundle \subseteq Attesters
          /\ signer'[s].pc = "send" => signer'[s].bundle # {}
        BY <1>3, <2>3 DEF FilterBundle
    <3> QED
        BY <1>1, <1>2, <3>1, <3>2 DEF SignerAt
  <2>4. ASSUME SendAttestations(s) \/ CheckApproved(s) \/ ReadAttested(s) PROVE Carries(s)'
    <3>1. /\ signer[s].pc # "idle"
          /\ \/ signer'[s] = NoBundle
             \/ signer'[s].bundle = signer[s].bundle /\ signer'[s].pc # "send"
        BY <1>3, <2>4 DEF SendAttestations, CheckApproved, ReadAttested, SignerAt,
                          SignerGoto, SignerEnd
    <3> QED
        BY <1>4, <1>5, <3>1
  <2>5. ASSUME MarkSubjectApproved(s) \/ ReportUnattested(s) \/ DieSigning(s) PROVE Carries(s)'
    <3>1. signer'[s] = NoBundle
        BY <1>3, <2>5 DEF MarkSubjectApproved, ReportUnattested, DieSigning, SignerEnd
    <3> QED
        BY <1>4, <3>1
  <2>6. Carries(s)'
      BY <1>6, <2>2, <2>3, <2>4, <2>5 DEF Sign
  <2>7. \A t \in Signers : Carries(t)'
      BY <1>4, <2>1, <2>6
  <2> QED
      BY <2>7 DEF SignersCarry
<1>7. CASE UNCHANGED signer
  <2>1. \A t \in Signers : Carries(t)'
      BY <1>4, <1>7
  <2> QED
      BY <2>1 DEF SignersCarry
<1> QED
    BY <1>6, <1>7
    DEF Next, vars, jobVars, ProposeOnChain, Expire, Execute, DieExecuting, ListReady,
        DryRun, SendExecution, ReportExecuted, ReportFailed

(* A job, once there, is overwritten and never removed. *)
LEMMA JobStays ==
    ASSUME [Next]_vars, job # "NONE"
    PROVE  job' # "NONE"
BY DEF Next, vars, intakeVars, IntakeStep, Propose, InsertIntent, FindProposed,
       CreateProposed, DieProposing, Serve, Die, Attest, FindSubject, InsertSubject,
       ReadSubject, InsertAttestation, Increment, ReadState, ListPending,
       MarkSubjectReady, MarkAttestationsReady, MarkIntentReady, QueueJob, PublishReady,
       ProposeOnChain, Expire, Sign, DieSigning, Execute, DieExecuting, FetchBundle,
       FilterBundle, SendAttestations, CheckApproved, ReadAttested,
       MarkSubjectApproved, ReportUnattested, ListReady, DryRun, SendExecution,
       ReportExecuted, ReportFailed, MarkFailed

(* Only the chain's approval makes an intent approved, and it brings the job. *)
LEMMA OfferedInv == IInv /\ ApprovedIsOffered /\ [Next]_vars => ApprovedIsOffered'
<1> SUFFICES ASSUME IInv, ApprovedIsOffered, [Next]_vars,
                    subject'.status = "APPROVED", subject.status # "APPROVED"
             PROVE  job' # "NONE"
    BY JobStays DEF ApprovedIsOffered
<1>1. subject \in [status : Status, attested : Nat]
    BY DEF IInv, TypeOK, IntakeTypeOK
<1>2. ASSUME NEW r \in Requests PROVE ~MarkSubjectReady(r)
  <2> SUFFICES ASSUME MarkSubjectReady(r) PROVE FALSE
      OBVIOUS
  <2>1. subject' = [subject EXCEPT !.status = Readied(subject.status)]
      BY Zenon DEF MarkSubjectReady
  <2>2. subject'.status = Readied(subject.status)
      BY <1>1, <2>1
  <2> QED
      BY <2>2 DEF Readied
<1>3. ASSUME NEW r \in Requests PROVE ~Increment(r) /\ ~InsertSubject(r)
    BY <1>1 DEF Increment, InsertSubject, CreateSubject
<1>4. ~CreateProposed
    BY DEF CreateProposed, CreateSubject
<1>5. ASSUME NEW s \in Signers, MarkSubjectApproved(s) PROVE job' # "NONE"
    BY <1>5 DEF MarkSubjectApproved
<1> QED
    BY <1>2, <1>3, <1>4, <1>5
    DEF Next, vars, intakeVars, IntakeStep, Propose, InsertIntent, FindProposed,
        DieProposing, Serve, Die, Attest, FindSubject, ReadSubject, InsertAttestation,
        ReadState, ListPending, MarkAttestationsReady, MarkIntentReady, QueueJob,
        PublishReady, ProposeOnChain, Expire, Sign, DieSigning, Execute, DieExecuting,
        FetchBundle, FilterBundle, SendAttestations, CheckApproved, ReadAttested,
        ReportUnattested, ListReady, DryRun, SendExecution, ReportExecuted, ReportFailed

(* What the relay does not see. *)
LEMMA SameVoices ==
    ASSUME UNCHANGED attestation
    PROVE  Attesters' = Attesters
BY DEF Attesters

LEMMA HiddenFromRelay ==
    ASSUME UNCHANGED <<attestation, subject, job, chain>>
    PROVE  UNCHANGED Relay!relayVars
BY SameVoices DEF Relay!relayVars

LEMMA InitRelay == Init => Relay!Init
<1> SUFFICES ASSUME Init PROVE Relay!Init
    OBVIOUS
<1>1. Attesters = {} /\ (job # "NONE") = FALSE
    BY DEF Init, InitIntake, Attesters
<1>2. subject.status = "NONE" /\ chain.attested = {} /\ chain.phase = "absent"
    BY DEF Init, InitIntake
<1> QED
    BY <1>1, <1>2 DEF Relay!Init

(* The subject's row is created once. *)
LEMMA OpenRefines ==
    ASSUME subject.status = "NONE", CreateSubject, UNCHANGED <<attestation, job, chain>>
    PROVE  Relay!Next
<1>1. Relay!Open
    BY SameVoices DEF CreateSubject, Relay!Open
<1> QED
    BY <1>1 DEF Relay!Next

LEMMA HearRefines ==
    ASSUME IInv, NEW r \in Requests, InsertAttestation(r), UNCHANGED jobVars
    PROVE  Relay!Next \/ UNCHANGED Relay!relayVars
<1>1. CASE Duplicate(request[r].verifier)
    BY <1>1, HiddenFromRelay DEF InsertAttestation, jobVars
<1>2. CASE ~Duplicate(request[r].verifier)
  <2>1. PICK v \in Verifiers : v = request[r].verifier
      BY DEF InsertAttestation, IInv, RequestsSound, At
  <2>2. PICK stored \in {"PENDING", "APPROVED"} :
            attestation' = [attestation EXCEPT ![v] = stored]
      BY <1>2, <2>1 DEF InsertAttestation
  <2>3. attestation \in [Verifiers -> Status] /\ attestation[v] = "NONE"
      BY <1>2, <2>1 DEF Duplicate, IInv, TypeOK, IntakeTypeOK
  <2>4. Attesters' = Attesters \cup {v} /\ v \notin Attesters
      BY <2>2, <2>3 DEF Attesters
  <2>5. subject.status # "NONE"
      BY DEF InsertAttestation, IInv, SubjectFirst, At
  <2>6. UNCHANGED <<subject, job, chain>>
      BY DEF InsertAttestation, jobVars
  <2>7. Relay!Hear(v)
      BY <2>4, <2>5, <2>6 DEF Relay!Hear
  <2> QED
      BY <2>7 DEF Relay!Next
<1> QED
    BY <1>1, <1>2

LEMMA IncrementHidden ==
    ASSUME IInv, NEW r \in Requests, Increment(r), UNCHANGED jobVars
    PROVE  UNCHANGED Relay!relayVars
<1>1. subject' = [subject EXCEPT !.attested = subject.attested + Weight[request[r].verifier]]
    BY DEF Increment
<1>2. subject'.status = subject.status
    BY <1>1 DEF IInv, TypeOK, IntakeTypeOK
<1> QED
    BY <1>2, SameVoices DEF Increment, jobVars, Relay!relayVars

(* Whoever marks the intent saw a quorum, which is one still. *)
LEMMA ReadyRefines ==
    ASSUME IInv, NEW r \in Requests, MarkSubjectReady(r), UNCHANGED jobVars
    PROVE  Relay!Next \/ UNCHANGED Relay!relayVars
<1>1. subject' = [subject EXCEPT !.status = Readied(subject.status)]
    BY Zenon DEF MarkSubjectReady
<1>2. subject'.status = Readied(subject.status)
    BY <1>1 DEF IInv, TypeOK, IntakeTypeOK
<1>3. UNCHANGED <<attestation, job, chain>>
    BY DEF MarkSubjectReady, jobVars
<1>4. CASE subject.status = "PENDING"
  <2>1. WeightOf(Attesters) >= Threshold /\ Attesters \in SUBSET Verifiers
      BY DEF MarkSubjectReady, IInv, QuorumBehind, Marking, At, Attesters
  <2>2. Relay!MakeReady
      BY <1>2, <1>3, <1>4, <2>1, SameVoices DEF Readied, Relay!MakeReady
  <2> QED
      BY <2>2 DEF Relay!Next
<1>5. CASE subject.status # "PENDING"
    BY <1>2, <1>3, <1>5, SameVoices DEF Readied, Relay!relayVars
<1> QED
    BY <1>4, <1>5

LEMMA MarkRowsHidden ==
    ASSUME NEW r \in Requests, MarkAttestationsReady(r), UNCHANGED jobVars
    PROVE  UNCHANGED Relay!relayVars
<1>1. Attesters' = Attesters
    BY DEF MarkAttestationsReady, Readied, Attesters
<1> QED
    BY <1>1 DEF MarkAttestationsReady, jobVars, Relay!relayVars

LEMMA OfferRefines ==
    ASSUME IInv, NEW r \in Requests, QueueJob(r), UNCHANGED jobVars
    PROVE  Relay!Next
<1>1. WeightOf(Attesters) >= Threshold /\ Attesters \in SUBSET Verifiers
    BY DEF QueueJob, IInv, QuorumBehind, Marking, At, Attesters
<1>2. (job # "NONE")' = TRUE
    BY DEF QueueJob
<1>3. UNCHANGED <<attestation, subject, chain>>
    BY DEF QueueJob, jobVars
<1>4. Relay!Offer
    BY <1>1, <1>2, <1>3, SameVoices DEF Relay!Offer
<1> QED
    BY <1>4 DEF Relay!Next

LEMMA IntakeRefines ==
    ASSUME IInv, IntakeStep, UNCHANGED jobVars
    PROVE  Relay!Next \/ UNCHANGED Relay!relayVars
<1>1. CASE Propose \/ DieProposing
    BY <1>1, OpenRefines, HiddenFromRelay
    DEF Propose, InsertIntent, FindProposed, CreateProposed, DieProposing, jobVars
<1>2. ASSUME NEW r \in Requests, Die(r) \/ \E v \in Verifiers : Attest(r, v)
      PROVE  UNCHANGED Relay!relayVars
    BY <1>2, HiddenFromRelay DEF Die, Attest, jobVars
<1>3. ASSUME NEW r \in Requests, Serve(r)
      PROVE  Relay!Next \/ UNCHANGED Relay!relayVars
  <2>1. CASE \/ FindSubject(r) \/ ReadSubject(r) \/ ReadState(r) \/ ListPending(r)
             \/ MarkIntentReady(r) \/ PublishReady(r)
      BY <2>1, HiddenFromRelay DEF FindSubject, ReadSubject, ReadState, ListPending,
         MarkIntentReady, PublishReady, jobVars
  <2>2. CASE InsertSubject(r)
      BY <2>2, OpenRefines, HiddenFromRelay DEF InsertSubject, jobVars
  <2> QED
      BY <1>3, <2>1, <2>2, HearRefines, IncrementHidden, ReadyRefines, MarkRowsHidden,
         OfferRefines DEF Serve
<1> QED
    BY <1>1, <1>2, <1>3 DEF IntakeStep

-----------------------------------------------------------------------------
(* The bot and the chain *)

LEMMA ProposeRefines == ASSUME ProposeOnChain, IInv PROVE Relay!Next
<1>1. UNCHANGED <<attestation, subject, job>>
    BY DEF ProposeOnChain, intakeVars
<1>2. /\ chain.phase = "absent" /\ chain'.phase = "proposed"
      /\ chain'.attested = chain.attested
    BY DEF ProposeOnChain, IInv, TypeOK
<1>3. Relay!Propose
    BY <1>1, <1>2, SameVoices DEF Relay!Propose
<1> QED
    BY <1>3 DEF Relay!Next

(* A batch the chain takes is of verifiers the relayer heard, and the chain did not. *)
LEMMA AttestRefines ==
    ASSUME IInv, SignersCarry, NEW s \in Signers, SendAttestations(s)
    PROVE  Relay!Next \/ UNCHANGED Relay!relayVars
<1>1. UNCHANGED <<attestation, subject, job>>
    BY DEF SendAttestations, intakeVars
<1>2. CASE UNCHANGED chain
    BY <1>1, <1>2, HiddenFromRelay
<1>3. CASE ~UNCHANGED chain
  <2> DEFINE batch == signer[s].bundle
  <2>1. /\ Accepts(batch) /\ SignerAt(s, "send")
        /\ \E phase \in {"proposed", "approved"} :
               chain' = [phase |-> phase, attested |-> chain.attested \cup batch]
      BY <1>3 DEF SendAttestations
  <2>2. /\ WeightOf(Attesters) >= Threshold /\ Attesters \in SUBSET Verifiers
        /\ batch \subseteq Attesters /\ batch # {}
      BY <2>1 DEF SignersCarry, SignerAt, Attesters
  <2>3. batch \in (SUBSET (Attesters \ chain.attested)) \ {{}}
      BY <2>1, <2>2 DEF Accepts
  <2>4. /\ chain.phase = "proposed" /\ chain'.phase \in {"proposed", "approved"}
        /\ chain'.attested = chain.attested \cup batch
      BY <2>1 DEF Accepts
  <2>5. Relay!Attest
      BY <1>1, <2>2, <2>3, <2>4, SameVoices DEF Relay!Attest
  <2> QED
      BY <2>5 DEF Relay!Next
<1> QED
    BY <1>2, <1>3

LEMMA ApproveRefines ==
    ASSUME IInv, ApprovedIsOffered, NEW s \in Signers, MarkSubjectApproved(s)
    PROVE  Relay!Next \/ UNCHANGED Relay!relayVars
<1>1. chain.phase \in {"approved", "executed"} /\ Queued
    BY DEF MarkSubjectApproved, IInv, SignersFollowChain
<1>2. subject'.status = "APPROVED"
    BY DEF MarkSubjectApproved, IInv, TypeOK, IntakeTypeOK
<1>3. Attesters' = Attesters
    BY DEF MarkSubjectApproved, Attesters
<1>4. UNCHANGED chain /\ (job # "NONE")' = TRUE
    BY DEF MarkSubjectApproved
<1>5. CASE subject.status = "READY_FOR_ONCHAIN"
  <2>1. Relay!Approve
      BY <1>1, <1>2, <1>3, <1>4, <1>5 DEF Relay!Approve
  <2> QED
      BY <2>1 DEF Relay!Next
<1>6. CASE subject.status = "APPROVED"
  <2>1. (job # "NONE") = TRUE
      BY <1>6 DEF ApprovedIsOffered
  <2> QED
      BY <1>2, <1>3, <1>4, <1>6, <2>1 DEF Relay!relayVars
<1> QED
    BY <1>1, <1>5, <1>6 DEF Queued

(* A failure or a success is reported of a job that is there. *)
LEMMA ReportsHidden ==
    ASSUME UNCHANGED <<attestation, subject, chain>>, job' = "NONE" <=> job = "NONE"
    PROVE  UNCHANGED Relay!relayVars
BY SameVoices DEF Relay!relayVars

LEMMA SignRefines ==
    ASSUME IInv, SignersCarry, ApprovedIsOffered, NEW s \in Signers, Sign(s) \/ DieSigning(s)
    PROVE  Relay!Next \/ UNCHANGED Relay!relayVars
<1>1. CASE FetchBundle(s) \/ FilterBundle(s) \/ CheckApproved(s) \/ ReadAttested(s) \/ DieSigning(s)
    BY <1>1, HiddenFromRelay DEF FetchBundle, FilterBundle, CheckApproved, ReadAttested,
       DieSigning, intakeVars
<1>2. CASE ReportUnattested(s)
    BY <1>2, ReportsHidden DEF ReportUnattested, MarkFailed
<1> QED
    BY <1>1, <1>2, AttestRefines, ApproveRefines DEF Sign

LEMMA ExecuteRefines ==
    ASSUME IInv, NEW x \in Executors, Execute(x) \/ DieExecuting(x)
    PROVE  Relay!Next \/ UNCHANGED Relay!relayVars
<1>1. CASE ListReady(x) \/ DryRun(x) \/ DieExecuting(x)
    BY <1>1, HiddenFromRelay DEF ListReady, DryRun, DieExecuting, intakeVars
<1>2. CASE SendExecution(x)
  <2>1. UNCHANGED <<attestation, subject, job>>
      BY <1>2 DEF SendExecution, intakeVars
  <2>2. CASE UNCHANGED chain
      BY <2>1, <2>2, HiddenFromRelay
  <2>3. CASE ~UNCHANGED chain
    <3>1. /\ chain.phase = "approved" /\ chain'.phase = "executed"
          /\ chain'.attested = chain.attested
        BY <1>2, <2>3 DEF SendExecution, IInv, TypeOK
    <3>2. job # "NONE"
        BY <1>2 DEF SendExecution, IInv, ExecutorsWereOffered, ExecutorAt
    <3>3. Relay!Execute
        BY <2>1, <3>1, <3>2, SameVoices DEF Relay!Execute
    <3> QED
        BY <3>3 DEF Relay!Next
  <2> QED
      BY <2>2, <2>3
<1>3. CASE ReportExecuted(x)
  <2>1. job # "NONE"
      BY <1>3 DEF ReportExecuted, IInv, ExecutorsWereOffered, ExecutorAt
  <2> QED
      BY <1>3, <2>1, ReportsHidden DEF ReportExecuted
<1>4. CASE ReportFailed(x)
    BY <1>4, ReportsHidden DEF ReportFailed, MarkFailed
<1> QED
    BY <1>1, <1>2, <1>3, <1>4 DEF Execute

LEMMA StepRefines ==
    IInv /\ SignersCarry /\ ApprovedIsOffered /\ [Next]_vars => [Relay!Next]_(Relay!relayVars)
<1> SUFFICES ASSUME IInv, SignersCarry, ApprovedIsOffered, [Next]_vars
             PROVE  Relay!Next \/ UNCHANGED Relay!relayVars
    OBVIOUS
<1>1. ASSUME NEW v \in Verifiers, Expire(v) PROVE UNCHANGED Relay!relayVars
    BY <1>1, HiddenFromRelay DEF Expire, intakeVars
<1>2. CASE UNCHANGED vars
    BY <1>2, HiddenFromRelay DEF vars, intakeVars, jobVars
<1> QED
    BY <1>1, <1>2, IntakeRefines, ProposeRefines, SignRefines, ExecuteRefines DEF Next

(* However requests and commands overlap, repeat and die, for any number of them  *)
(* and any verifiers and weights, the intent goes the way IntentRelay describes:  *)
(* ready, offered and attested on chain only with a quorum, by verifiers who have *)
(* been heard and by each once, approved only after the chain, executed only when *)
(* offered.                                                                       *)
THEOREM IntentIsRelayed == Spec => ImplementsRelay
<1>1. Init => SignersCarry /\ ApprovedIsOffered
    BY DEF Init, InitIntake, SignersCarry, ApprovedIsOffered, SignerAt, NoBundle
<1> QED
    BY <1>1, InitRelay, CarryInv, OfferedInv, StepRefines, Invariant, PTL
    DEF Spec, ImplementsRelay, Relay!Spec

(* Each step of the signers and executors reaches the chain with that much behind it. *)
LEMMA ChainBackedInv == IInv /\ SignersCarry /\ ChainIsBacked /\ [Next]_vars => ChainIsBacked'
<1> SUFFICES ASSUME IInv, SignersCarry, ChainIsBacked, [Next]_vars PROVE ChainIsBacked'
    OBVIOUS
<1>1. /\ Attesters \subseteq Attesters'
      /\ WeightOf(Attesters) >= Threshold => WeightOf(Attesters)' >= Threshold
      /\ job # "NONE" => job' # "NONE"
  <2>1. WeightOf(Attesters)' = WeightOf(Attesters')
      BY DEF WeightOf, Units
  <2> QED
      BY <2>1, AttestersGrow, QuorumLasts, JobStays
<1>2. /\ chain \in [phase : {"absent", "proposed", "approved", "executed"},
                     attested : SUBSET Verifiers]
      /\ \A x \in Executors : ~ExecutorAt(x, "idle") => job # "NONE"
    BY DEF IInv, TypeOK, ExecutorsWereOffered
<1>3. CASE UNCHANGED chain
    BY <1>1, <1>3 DEF ChainIsBacked, IsIntentApproved
<1>4. CASE ProposeOnChain
  <2>1. chain'.phase = "proposed" /\ chain'.attested = chain.attested
      BY <1>2, <1>4 DEF ProposeOnChain
  <2> QED
      BY <1>1, <2>1 DEF ChainIsBacked, IsIntentApproved
<1>5. ASSUME NEW s \in Signers, SendAttestations(s), ~UNCHANGED chain PROVE ChainIsBacked'
  <2>1. /\ SignerAt(s, "send") /\ chain'.attested = chain.attested \cup signer[s].bundle
        /\ chain'.phase \in {"proposed", "approved"}
      BY <1>5 DEF SendAttestations
  <2>2. WeightOf(Attesters) >= Threshold /\ signer[s].bundle \subseteq Attesters
      BY <2>1 DEF SignersCarry, SignerAt
  <2> QED
      BY <1>1, <2>1, <2>2 DEF ChainIsBacked
<1>6. ASSUME NEW x \in Executors, SendExecution(x), ~UNCHANGED chain PROVE ChainIsBacked'
  <2>1. /\ ExecutorAt(x, "send") /\ chain.phase = "approved"
        /\ chain'.phase = "executed" /\ chain'.attested = chain.attested
      BY <1>2, <1>6 DEF SendExecution
  <2>2. job # "NONE"
      BY <1>2, <2>1 DEF ExecutorAt
  <2> QED
      BY <1>1, <2>1, <2>2 DEF ChainIsBacked, IsIntentApproved
<1> QED
    BY <1>3, <1>4, <1>5, <1>6
    DEF Next, vars, jobVars, Expire, Sign, DieSigning, Execute, DieExecuting, FetchBundle,
        FilterBundle, CheckApproved, ReadAttested, MarkSubjectApproved,
        ReportUnattested, ListReady, DryRun, ReportExecuted, ReportFailed

(* Whatever the chain holds of an intent the relayer stores, with a quorum and, once *)
(* it is executed, a job: for any requests, commands, verifiers and weights.         *)
THEOREM ChainHasTheRelayersBacking == Spec => []ChainIsBacked
<1>1. Init => SignersCarry /\ ChainIsBacked
    BY DEF Init, InitIntake, SignersCarry, SignerAt, NoBundle, ChainIsBacked, IsIntentApproved
<1> QED
    BY <1>1, CarryInv, ChainBackedInv, Invariant, PTL DEF Spec

=============================================================================
