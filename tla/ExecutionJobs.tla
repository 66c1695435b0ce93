---------------------------- MODULE ExecutionJobs ----------------------------
(********************************************************************************)
(* What becomes of an intent the relayer has queued: the strategy bot takes     *)
(* its attestations to the chain, reports back, executes what is offered and    *)
(* reports again (strategy-cli.ts, the onchain-* and ready-execution routes).   *)
(*                                                                              *)
(* Signers and executors are runs of the bot's commands, which may overlap and  *)
(* die at any await.  The contracts appear through what the bot sees of them:   *)
(* whether the intent is proposed, approved or executed, and who has attested   *)
(* it.  They weigh verifiers by weights of their own, and may refuse a call for *)
(* reasons the bot does not know (ClawCore models them).                        *)
(********************************************************************************)
EXTENDS IntentAttestation

CONSTANTS
    Signers,      \* runs of strategy-attest-onchain
    Executors     \* runs of strategy-execute-ready

VARIABLES
    chain,        \* the intent on chain: [phase, attested]
    expired,      \* verifiers whose attestation has expired since it came
    signer,       \* local state of each signer: [pc, bundle]
    executor      \* progress of each executor

jobVars == <<chain, expired, signer, executor>>
vars == <<intakeVars, jobVars>>

NoBundle == [pc |-> "idle", bundle |-> {}]

Init ==
    /\ InitIntake
    /\ chain = [phase |-> "absent", attested |-> {}]
    /\ expired = {}
    /\ signer = [s \in Signers |-> NoBundle]
    /\ executor = [x \in Executors |-> "idle"]

(* The strategy registers the intent on chain as well (external). *)
ProposeOnChain ==
    /\ chain.phase = "absent"
    /\ chain' = [chain EXCEPT !.phase = "proposed"]
    /\ UNCHANGED <<intakeVars, expired, signer, executor>>

(* Time passes (external). *)
Expire(v) ==
    /\ v \in Attesters \ expired
    /\ expired' = expired \cup {v}
    /\ UNCHANGED <<intakeVars, chain, signer, executor>>

(* Mutant of MarkFailed: the attempts are counted, and the last one is final. *)
MarkFailedForGood == job' = IF job = "NONE" THEN "NONE" ELSE "FAILED_FINAL"

(* markExecutionJobRetryableByIntent: an update, whatever the status, of the row *)
(* if there is one.                                                              *)
MarkFailed == job' = IF job = "NONE" THEN "NONE" ELSE "FAILED_RETRYABLE"

-----------------------------------------------------------------------------
(* strategy-attest-onchain. *)

SignerAt(s, pc) == signer[s].pc = pc
SignerGoto(s, pc) == signer' = [signer EXCEPT ![s].pc = pc]
SignerEnd(s) == signer' = [signer EXCEPT ![s] = NoBundle]

(* The onchain-bundle request reads the subject, then the rows, of any status; the *)
(* command stops if the weight it reads is too low.                                *)
FetchBundle(s) ==
    /\ SignerAt(s, "idle")
    /\ subject.status # "NONE"
    /\ subject.attested >= Threshold
    /\ SignerGoto(s, "rows")
    /\ UNCHANGED <<intakeVars, chain, expired, executor>>

FilterBundle(s) ==
    LET valid == Attesters \ expired IN
    /\ SignerAt(s, "rows")
    /\ signer' = [signer EXCEPT ![s] = IF valid = {} THEN [pc |-> "fail", bundle |-> {}]
                                       ELSE [pc |-> "send", bundle |-> valid]]
    /\ UNCHANGED <<intakeVars, chain, expired, executor>>

(* IntentBook takes all of a batch or nothing. *)
Accepts(batch) ==
    /\ chain.phase = "proposed"
    /\ batch \cap (chain.attested \cup expired) = {}

SendAttestations(s) ==
    LET batch == signer[s].bundle IN
    /\ SignerAt(s, "send")
    /\ \/ /\ Accepts(batch)
          /\ \E phase \in {"proposed", "approved"} :
                chain' = [phase |-> phase, attested |-> chain.attested \cup batch]
          /\ SignerGoto(s, "check")
       \/ UNCHANGED chain /\ SignerEnd(s)               \* the simulation throws
       \/ UNCHANGED chain /\ SignerGoto(s, "fail")      \* included and reverted
    /\ UNCHANGED <<intakeVars, expired, executor>>

ReceiptEnough == TRUE                          \* mutant
IsIntentApproved == chain.phase \in {"approved", "executed"}

CheckApproved(s) ==
    /\ SignerAt(s, "check")
    /\ SignerGoto(s, IF IsIntentApproved THEN "ack" ELSE "fail")
    /\ UNCHANGED <<intakeVars, chain, expired, executor>>

(* The onchain-attested request: a read, then mark_subject_approved, one         *)
(* transaction over the four tables, whose job upsert looks at no status either. *)
ReadAttested(s) ==
    /\ SignerAt(s, "ack")
    /\ IF subject.status = "READY_FOR_ONCHAIN" THEN SignerGoto(s, "approve") ELSE SignerEnd(s)
    /\ UNCHANGED <<intakeVars, chain, expired, executor>>

MarkSubjectApproved(s) ==
    /\ SignerAt(s, "approve")
    /\ subject' = [subject EXCEPT !.status = "APPROVED"]
    /\ attestation' = [v \in Verifiers |->
           IF attestation[v] = "NONE" THEN "NONE" ELSE "APPROVED"]
    /\ intentRow' = IF intentRow = "NONE" THEN "NONE" ELSE "APPROVED"
    /\ job' = "READY"
    /\ SignerEnd(s)
    /\ UNCHANGED <<proposal, request, ready, abandoned, chain, expired, executor>>

ReportUnattested(s) ==
    /\ SignerAt(s, "fail")
    /\ MarkFailed
    /\ SignerEnd(s)
    /\ UNCHANGED <<intentRow, subject, attestation, proposal, request,
                   ready, abandoned, chain, expired, executor>>

DieSigning(s) ==
    /\ ~SignerAt(s, "idle")
    /\ SignerEnd(s)
    /\ UNCHANGED <<intakeVars, chain, expired, executor>>

Sign(s) ==
    \/ FetchBundle(s) \/ FilterBundle(s) \/ SendAttestations(s) \/ CheckApproved(s)
    \/ ReadAttested(s) \/ MarkSubjectApproved(s) \/ ReportUnattested(s)

-----------------------------------------------------------------------------
(* strategy-execute-ready. *)

ExecutorAt(x, pc) == executor[x] = pc
ExecutorGoto(x, pc) == executor' = [executor EXCEPT ![x] = pc]

Offered == job \in {"READY", "READY_FOR_ONCHAIN"} /\ intentRow # "NONE"

ListReady(x) ==
    /\ ExecutorAt(x, "idle")
    /\ Offered
    /\ ExecutorGoto(x, "dryRun")
    /\ UNCHANGED <<intakeVars, chain, expired, signer>>

(* The dry run fails unless the intent is approved and not executed, and may *)
(* fail in any case: prices, pauses and the deadline are the chain's.        *)
DryRun(x) ==
    /\ ExecutorAt(x, "dryRun")
    /\ \/ chain.phase = "approved" /\ ExecutorGoto(x, "send")
       \/ ExecutorGoto(x, "fail")
    /\ UNCHANGED <<intakeVars, chain, expired, signer>>

(* The transaction lands, unless the simulation or the call throws.  Its receipt *)
(* is awaited and not looked at: one that was reverted is reported all the same. *)
(* The wait itself may fail after the transaction has landed.                    *)
SendExecution(x) ==
    /\ ExecutorAt(x, "send")
    /\ \/ /\ chain.phase = "approved"
          /\ chain' = [chain EXCEPT !.phase = "executed"]
          /\ ExecutorGoto(x, "ack") \/ ExecutorGoto(x, "fail")
       \/ /\ UNCHANGED chain
          /\ ExecutorGoto(x, "ack") \/ ExecutorGoto(x, "fail")
    /\ UNCHANGED <<intakeVars, expired, signer>>

(* The onchain-executed request; if its answer is lost, a failure is reported. *)
ReportExecuted(x) ==
    /\ ExecutorAt(x, "ack")
    /\ \/ job' = "EXECUTED" /\ (ExecutorGoto(x, "idle") \/ ExecutorGoto(x, "fail"))
       \/ UNCHANGED job /\ ExecutorGoto(x, "fail")
    /\ UNCHANGED <<intentRow, subject, attestation, proposal, request,
                   ready, abandoned, chain, expired, signer>>

ReportFailed(x) ==
    /\ ExecutorAt(x, "fail")
    /\ MarkFailed
    /\ ExecutorGoto(x, "idle")
    /\ UNCHANGED <<intentRow, subject, attestation, proposal, request,
                   ready, abandoned, chain, expired, signer>>

DieExecuting(x) ==
    /\ ~ExecutorAt(x, "idle")
    /\ ExecutorGoto(x, "idle")
    /\ UNCHANGED <<intakeVars, chain, expired, signer>>

Execute(x) ==
    ListReady(x) \/ DryRun(x) \/ SendExecution(x) \/ ReportExecuted(x) \/ ReportFailed(x)

-----------------------------------------------------------------------------
Next ==
    \/ IntakeStep /\ UNCHANGED jobVars
    \/ ProposeOnChain
    \/ \E v \in Verifiers : Expire(v)
    \/ \E s \in Signers : Sign(s) \/ DieSigning(s)
    \/ \E x \in Executors : Execute(x) \/ DieExecuting(x)

Spec == Init /\ [][Next]_vars

(* Requests are served, and the bot runs its commands again and again. *)
FairSpec ==
    /\ Spec
    /\ \A r \in Requests : WF_vars(Serve(r) /\ UNCHANGED jobVars)
    /\ \A s \in Signers : WF_vars(Sign(s))
    /\ \A x \in Executors : WF_vars(Execute(x))

-----------------------------------------------------------------------------
TypeOK ==
    /\ IntakeTypeOK
    /\ chain \in [phase : {"absent", "proposed", "approved", "executed"},
                  attested : SUBSET Verifiers]
    /\ expired \subseteq Verifiers
    /\ signer \in [Signers -> [pc : {"idle", "rows", "send", "check", "ack",
                                     "approve", "fail"},
                               bundle : SUBSET Verifiers]]
    /\ executor \in [Executors -> {"idle", "dryRun", "send", "ack", "fail"}]

(* The relayer calls an intent approved only when the chain has approved it. *)
ApprovalFollowsChain ==
    subject.status = "APPROVED" => chain.phase \in {"approved", "executed"}

Relay == INSTANCE IntentRelay WITH
    Quorums <- {V \in SUBSET Verifiers : WeightOf(V) >= Threshold},
    voices <- Attesters, stage <- subject.status, offered <- job # "NONE",
    heard <- chain.attested, onChain <- chain.phase

(* However requests and commands overlap, repeat and die, an intent goes its way *)
(* as IntentRelay describes it: it is made ready, offered and attested on chain  *)
(* only with a quorum, by verifiers the relayer has heard and by each once, is   *)
(* approved at the relayer only after the chain, and executed only when offered  *)
(* (aggregator.ts, supabase.ts, strategy-cli.ts).                                *)
ImplementsRelay == Relay!Spec

-----------------------------------------------------------------------------
(* The inductive invariant: what the properties rest on. *)

Marking(r) == request[r].pc \in {"markSubject", "markRows", "markIntent", "queue", "publish"}
Queued == subject.status \in {"READY_FOR_ONCHAIN", "APPROVED"}

(* A request works for a verifier, and remembers an approval only after it. *)
RequestsSound ==
    \A r \in Requests :
        /\ ~At(r, "idle") => request[r].verifier \in Verifiers
        /\ request[r].approved => subject.status = "APPROVED"

(* The subject's row comes before every attestation and every bundle. *)
SubjectFirst ==
    subject.status = "NONE" =>
        /\ subject.attested = 0 /\ Attesters = {}
        /\ \A r \in Requests : request[r].pc \in {"idle", "find", "create"}
        /\ \A s \in Signers : SignerAt(s, "idle")

(* No two requests are adding the weight of the same verifier. *)
OneIncrementEach ==
    \A q, r \in Requests :
        At(q, "increment") /\ At(r, "increment")
            /\ request[q].verifier = request[r].verifier => q = r

(* The stored weight is that of some verifiers whose attestations are stored. *)
Counted(C) ==
    /\ subject.attested = WeightOf(C)
    /\ C \cap InFlight = {}
    /\ C \cup InFlight \subseteq Attesters
    /\ ~abandoned /\ subject.status # "APPROVED" => C \cup InFlight = Attesters
WeightIsCounted == \E C \in SUBSET Verifiers : Counted(C)

(* Whoever marks, or has marked, the intent ready saw a quorum. *)
QuorumBehind ==
    \/ job # "NONE" \/ ready \/ Queued
    \/ \E r \in Requests : Marking(r)
    => WeightOf(Attesters) >= Threshold

(* Marks found in the rows are somebody's who is still at it, or is through. *)
MarksExplained ==
    (Queued \/ Pending # Attesters) /\ ~abandoned =>
        (ready /\ job # "NONE") \/ \E r \in Requests : Marking(r)

(* A quorum nobody has noticed yet will be: some request is on its way to look. *)
SomebodyLooks ==
    WeightOf(Attesters) >= Threshold /\ ~abandoned =>
        (ready /\ job # "NONE") \/ \E r \in Requests : Committed(r)

QueuedBeforePublished ==
    \A r \in Requests : At(r, "publish") => job # "NONE"

(* A signer reports what the chain has approved, of an intent that was queued. *)
SignersFollowChain ==
    \A s \in Signers :
        /\ SignerAt(s, "ack") \/ SignerAt(s, "approve") =>
              chain.phase \in {"approved", "executed"}
        /\ SignerAt(s, "approve") => Queued

(* An executor has been offered a job. *)
ExecutorsWereOffered == \A x \in Executors : ~ExecutorAt(x, "idle") => job # "NONE"

(* Whoever is at work for the chain saw a quorum, and carries attestations that *)
(* are stored; an intent that is approved has a job.                            *)
SignersCarry ==
    \A s \in Signers :
        /\ ~SignerAt(s, "idle") => WeightOf(Attesters) >= Threshold
        /\ signer[s].bundle \subseteq Attesters
        /\ SignerAt(s, "send") => signer[s].bundle # {}
ApprovedIsOffered == subject.status = "APPROVED" => job # "NONE"

(* Whatever the chain holds of an intent came through the relayer: attestations it *)
(* stores, sent with a quorum of them, and an execution it has offered             *)
(* (strategy-cli.ts:524-690).                                                      *)
ChainIsBacked ==
    /\ chain.attested \subseteq Attesters
    /\ chain.attested # {} \/ IsIntentApproved => WeightOf(Attesters) >= Threshold
    /\ chain.phase = "executed" => job # "NONE"

(* Nothing writes the intent's row before it is proposed. *)
NoRowBefore == proposal = "new" => intentRow = "NONE"

IInv ==
    /\ TypeOK /\ RequestsSound /\ SubjectFirst /\ OneIncrementEach /\ WeightIsCounted
    /\ QuorumBehind /\ MarksExplained /\ SomebodyLooks /\ QueuedBeforePublished
    /\ SignersFollowChain /\ ExecutorsWereOffered /\ ApprovalFollowsChain

-----------------------------------------------------------------------------
(* onchain-executed acknowledges the transaction of a successful execution      *)
(* (packages/relayer/README.md): an EXECUTED job's intent is executed on chain. *)
ExecutedOnChain == job = "EXECUTED" => chain.phase = "executed"

(* onchain-failed records a failure as retryable (packages/relayer/README.md): an *)
(* approved intent whose job failed is offered, or at least taken up, again.      *)
FailedIsRetried ==
    job = "FAILED_RETRYABLE" /\ subject.status = "APPROVED" ~> job # "FAILED_RETRYABLE"
=============================================================================
