-------------------------- MODULE IntentAttestation --------------------------
(******************************************************************************)
(* How the relayer takes in one intent and its attestations (the propose and  *)
(* attestations/batch routes, aggregator.ts, and the rows of supabase.ts they *)
(* share).  Rows are keyed by intent, so one intent is enough.                *)
(*                                                                            *)
(* Every request is a process that loses control at each await: each database *)
(* access is a step of its own, what was read earlier may be stale, and a     *)
(* request may die between two steps.  Attestations that come this far carry  *)
(* an unexpired signature of a verifier of the weight snapshot.  The fund's   *)
(* threshold and the snapshot stay the same.                                  *)
(******************************************************************************)
EXTENDS Naturals, FiniteSets

CONSTANTS
    Requests,     \* attestation requests the relayer may serve at once
    Verifiers,    \* verifiers of the weight snapshot
    Weight,       \* Weight[v]: their weights
    Threshold     \* intent_threshold_weight of the fund

ASSUME WeightAssumption ==
    /\ IsFiniteSet(Verifiers)
    /\ Weight \in [Verifiers -> Nat \ {0}]
    /\ Threshold \in Nat \ {0}

VARIABLES
    intentRow,    \* intents.status, "NONE" when there is no row
    subject,      \* subject_state: [status, attested]
    attestation,  \* attestation[v]: status of the row of verifier v
    job,          \* execution_jobs.status
    proposal,     \* progress of the propose request
    request,      \* local state of each attestation request
    ready,        \* history: an intent:ready event was published
    abandoned     \* history: a request died after it inserted an attestation

intakeVars ==
    <<intentRow, subject, attestation, job, proposal, request, ready, abandoned>>

NoRequest == [pc |-> "idle", verifier |-> "none", approved |-> FALSE]

(* The sum of the weights of V, as the number of its units of weight. *)
Units(V) == UNION {{v} \X (1..Weight[v]) : v \in V}
WeightOf(V) == Cardinality(Units(V))

Attesters == {v \in Verifiers : attestation[v] # "NONE"}
Pending == {v \in Verifiers : attestation[v] = "PENDING"}

InitIntake ==
    /\ intentRow = "NONE"
    /\ subject = [status |-> "NONE", attested |-> 0]
    /\ attestation = [v \in Verifiers |-> "NONE"]
    /\ job = "NONE"
    /\ proposal = "new"
    /\ request = [r \in Requests |-> NoRequest]
    /\ ready = FALSE
    /\ abandoned = FALSE

At(r, pc) == request[r].pc = pc
Goto(r, pc) == request' = [request EXCEPT ![r].pc = pc]
Finish(r) == request' = [request EXCEPT ![r] = NoRequest]

CreateSubject == subject' = [status |-> "PENDING", attested |-> 0]

-----------------------------------------------------------------------------
(* The propose request: the intent's row, then upsertSubjectState, which reads *)
(* before it writes.  Later proposals of the same intent are refused.          *)

InsertIntent ==
    /\ proposal = "new"
    /\ intentRow' = "PENDING"
    /\ proposal' = "find"
    /\ UNCHANGED <<subject, attestation, job, request, ready, abandoned>>

FindProposed ==
    /\ proposal = "find"
    /\ proposal' = IF subject.status = "NONE" THEN "create" ELSE "done"
    /\ UNCHANGED <<intentRow, subject, attestation, job, request, ready, abandoned>>

(* The insert fails when an attestation created the row in between. *)
CreateProposed ==
    /\ proposal = "create"
    /\ IF subject.status = "NONE" THEN CreateSubject ELSE UNCHANGED subject
    /\ proposal' = "done"
    /\ UNCHANGED <<intentRow, attestation, job, request, ready, abandoned>>

DieProposing ==
    /\ proposal \in {"find", "create"}
    /\ proposal' = "done"
    /\ UNCHANGED <<intentRow, subject, attestation, job, request, ready, abandoned>>

-----------------------------------------------------------------------------
(* An attestation request: upsertSubjectState, a read, the insert, the weight. *)

Attest(r, v) ==
    /\ At(r, "idle")
    /\ request' = [request EXCEPT ![r] = [pc |-> "find", verifier |-> v, approved |-> FALSE]]
    /\ UNCHANGED <<intentRow, subject, attestation, job, proposal, ready, abandoned>>

FindSubject(r) ==
    /\ At(r, "find")
    /\ Goto(r, IF subject.status = "NONE" THEN "create" ELSE "read")
    /\ UNCHANGED <<intentRow, subject, attestation, job, proposal, ready, abandoned>>

(* Whoever comes second fails on the unique key, and its request with it. *)
InsertSubject(r) ==
    /\ At(r, "create")
    /\ IF subject.status = "NONE"
       THEN CreateSubject /\ Goto(r, "read")
       ELSE UNCHANGED subject /\ Finish(r)
    /\ UNCHANGED <<intentRow, attestation, job, proposal, ready, abandoned>>

ReadSubject(r) ==
    /\ At(r, "read")
    /\ request' = [request EXCEPT ![r].pc = "insert",
                                  ![r].approved = subject.status = "APPROVED"]
    /\ UNCHANGED <<intentRow, subject, attestation, job, proposal, ready, abandoned>>

NeverDuplicate(v) == FALSE                     \* mutant
Duplicate(v) == attestation[v] # "NONE"

(* insertAttestation: one row per verifier.  An attestation that comes after the *)
(* approval is recorded as approved, and not counted.                            *)
InsertAttestation(r) ==
    LET v == request[r].verifier IN
    /\ At(r, "insert")
    /\ IF Duplicate(v)
       THEN UNCHANGED attestation /\ Finish(r)
       ELSE IF request[r].approved
       THEN attestation' = [attestation EXCEPT ![v] = "APPROVED"] /\ Finish(r)
       ELSE attestation' = [attestation EXCEPT ![v] = "PENDING"] /\ Goto(r, "increment")
    /\ UNCHANGED <<intentRow, subject, job, proposal, ready, abandoned>>

(* The database adds atomically. *)
Increment(r) ==
    /\ At(r, "increment")
    /\ subject' = [subject EXCEPT !.attested = @ + Weight[request[r].verifier]]
    /\ Goto(r, "state")
    /\ UNCHANGED <<intentRow, attestation, job, proposal, ready, abandoned>>

-----------------------------------------------------------------------------
(* maybeFinalizeIntent, and the four writes of markIntentReadyForOnchain. *)

ReadState(r) ==
    /\ At(r, "state")
    /\ IF subject.status = "APPROVED" THEN Finish(r) ELSE Goto(r, "list")
    /\ UNCHANGED <<intentRow, subject, attestation, job, proposal, ready, abandoned>>

ExceedsThreshold(V) == WeightOf(V) > Threshold \* mutant
ReachesThreshold(V) == WeightOf(V) >= Threshold

(* Only the rows still pending count. *)
ListPending(r) ==
    /\ At(r, "list")
    /\ IF ReachesThreshold(Pending) THEN Goto(r, "markSubject") ELSE Finish(r)
    /\ UNCHANGED <<intentRow, subject, attestation, job, proposal, ready, abandoned>>

ReadyRegardless(status) ==                     \* mutant
    IF status = "NONE" THEN "NONE" ELSE "READY_FOR_ONCHAIN"
Readied(status) == IF status = "PENDING" THEN "READY_FOR_ONCHAIN" ELSE status

MarkSubjectReady(r) ==
    /\ At(r, "markSubject")
    /\ subject' = [subject EXCEPT !.status = Readied(@)]
    /\ Goto(r, "markRows")
    /\ UNCHANGED <<intentRow, attestation, job, proposal, ready, abandoned>>

MarkAttestationsReady(r) ==
    /\ At(r, "markRows")
    /\ attestation' = [v \in Verifiers |-> Readied(attestation[v])]
    /\ Goto(r, "markIntent")
    /\ UNCHANGED <<intentRow, subject, job, proposal, ready, abandoned>>

MarkIntentReady(r) ==
    /\ At(r, "markIntent")
    /\ intentRow' = Readied(intentRow)
    /\ Goto(r, "queue")
    /\ UNCHANGED <<subject, attestation, job, proposal, ready, abandoned>>

(* The job's upsert looks at no status: whatever the row held is overwritten. *)
QueueJob(r) ==
    /\ At(r, "queue")
    /\ job' = "READY_FOR_ONCHAIN"
    /\ Goto(r, "publish")
    /\ UNCHANGED <<intentRow, subject, attestation, proposal, ready, abandoned>>

PublishReady(r) ==
    /\ At(r, "publish")
    /\ ready' = TRUE
    /\ Finish(r)
    /\ UNCHANGED <<intentRow, subject, attestation, job, proposal, abandoned>>

-----------------------------------------------------------------------------
(* Past its insert, a request holds an attestation nobody else will finish. *)
Committed(r) == request[r].pc \in {"increment", "state", "list", "markSubject",
                                   "markRows", "markIntent", "queue", "publish"}

Die(r) ==
    /\ ~At(r, "idle")
    /\ abandoned' = (abandoned \/ Committed(r))
    /\ Finish(r)
    /\ UNCHANGED <<intentRow, subject, attestation, job, proposal, ready>>

Serve(r) ==
    \/ FindSubject(r) \/ InsertSubject(r) \/ ReadSubject(r)
    \/ InsertAttestation(r) \/ Increment(r)
    \/ ReadState(r) \/ ListPending(r)
    \/ MarkSubjectReady(r) \/ MarkAttestationsReady(r) \/ MarkIntentReady(r)
    \/ QueueJob(r) \/ PublishReady(r)

Propose == InsertIntent \/ FindProposed \/ CreateProposed

IntakeStep ==
    \/ Propose \/ DieProposing
    \/ \E r \in Requests : Serve(r) \/ Die(r) \/ \E v \in Verifiers : Attest(r, v)

IntakeSpec == InitIntake /\ [][IntakeStep]_intakeVars

-----------------------------------------------------------------------------
Status == {"NONE", "PENDING", "READY_FOR_ONCHAIN", "APPROVED"}
JobStatus == {"NONE", "READY_FOR_ONCHAIN", "READY", "EXECUTED", "FAILED_RETRYABLE"}
Steps == {"idle", "find", "create", "read", "insert", "increment", "state", "list",
          "markSubject", "markRows", "markIntent", "queue", "publish"}

IntakeTypeOK ==
    /\ intentRow \in Status
    /\ subject \in [status : Status, attested : Nat]
    /\ attestation \in [Verifiers -> Status]
    /\ job \in JobStatus
    /\ proposal \in {"new", "find", "create", "done"}
    /\ request \in [Requests -> [pc : Steps, verifier : Verifiers \cup {"none"},
                                 approved : BOOLEAN]]
    /\ ready \in BOOLEAN /\ abandoned \in BOOLEAN

(* Verifiers whose attestation is stored and whose weight is not added yet. *)
InFlight == {request[r].verifier : r \in {q \in Requests : At(q, "increment")}}

(* The stored weight, with what is on its way, is never more than what distinct  *)
(* verifiers attested (a repeated attestation adds nothing), and no less as long *)
(* as no request died half-way and the intent is not yet approved.               *)
WeightCountedOnce ==
    LET counted == subject.attested + WeightOf(InFlight) IN
    /\ counted <= WeightOf(Attesters)
    /\ ~abandoned /\ subject.status # "APPROVED" => counted = WeightOf(Attesters)

(* However attestations interleave, the one that completes the quorum is noticed: *)
(* when every request is through and none died, enough weight has its job and its *)
(* intent:ready event.                                                            *)
QuorumNoticed ==
    /\ \A r \in Requests : ~Committed(r)
    /\ ~abandoned
    /\ WeightOf(Attesters) >= Threshold
    => ready /\ job # "NONE"

(* An intent is queued, or called ready, only with enough weight attested. *)
QueuedHasQuorum ==
    \/ job # "NONE" \/ ready \/ subject.status \in {"READY_FOR_ONCHAIN", "APPROVED"}
    => WeightOf(Attesters) >= Threshold

Rank(status) ==
    CASE status = "NONE" -> 0 [] status = "PENDING" -> 1
      [] status = "READY_FOR_ONCHAIN" -> 2 [] OTHER -> 3

NoDemotion ==
    /\ Rank(intentRow') >= Rank(intentRow)
    /\ Rank(subject'.status) >= Rank(subject.status)
    /\ \A v \in Verifiers : Rank(attestation'[v]) >= Rank(attestation[v])

(* A late finalizer, working from a list read long before, never takes an intent, *)
(* its subject or an attestation back to an earlier status.                       *)
NeverDemoted == [][NoDemotion]_intakeVars
=============================================================================
