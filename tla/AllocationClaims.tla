-------------------------- MODULE AllocationClaims --------------------------
(******************************************************************************)
(* The way of an allocation claim: a participant's bot mines it, keeps it in  *)
(* a file, checks it and sends it; the relayer checks it again and stores it; *)
(* the aggregation turns the claims of an epoch into the fund's target        *)
(* weights (skills/participant, participant-cli.ts, strategies/participant,   *)
(* claims/route.ts, claim-validation.ts, epoch-aggregator.ts, sdk).           *)
(*                                                                            *)
(* EpochLifecycle has the interleavings of the relayer's own requests; here a *)
(* request of the relayer is one step and the arithmetic is in full.  Weights *)
(* are numbers on a small ClaimScale, and a claim hash is what it hashes.     *)
(******************************************************************************)
EXTENDS Integers, Sequences, FiniteSets, FiniteSetsExt, Functions

CONSTANTS
    Participants,
    Drafts,        \* weight vectors people type or edit
    Scores,        \* score vectors of the daemon's fixed token list
    Lengths,       \* lengths of allowlists, 0 for an empty one
    Stakes,        \* stake weights a strategy bot sets
    ClaimScale,    \* CLAIM_WEIGHT_SCALE
    DaemonScale,   \* DEFAULT_WEIGHT_SCALE of the participant strategies
    MaxEpoch,      \* bound on epoch ids
    MaxClaims      \* bound on stored claims

ASSUME WeightAssumption ==
    /\ \A d \in Drafts : d \in Seq(Nat) /\ Len(d) > 0
    /\ \A s \in Scores : s \in Seq(Nat) /\ Len(s) > 0
    /\ Lengths \subseteq Nat /\ Stakes \subseteq Nat
ASSUME ScaleAssumption == {ClaimScale, DaemonScale, MaxEpoch} \subseteq Nat \ {0}

VARIABLES
    bot,        \* each participant's bot: its command and its claim file
    listed,     \* number of tokens in funds.allowlist_tokens_json
    active,     \* the OPEN epoch, 0 if none
    opened,     \* epochs that have a lifecycle row
    claims,     \* allocation_claims, in the order of created_at
    stake,      \* stake_weights
    published,  \* claim sets whose hash SnapshotBook holds
    target,     \* epoch_states: claim_hashes and aggregate weights, by epoch
    relisted    \* history: the allowlist was replaced by one of another length

relayerVars == <<listed, active, opened, claims, stake, published, target, relisted>>
vars == <<bot, relayerVars>>

Epochs == 1..MaxEpoch
NoFile == [epoch |-> 0, as |-> "none", weights |-> <<>>, intact |-> TRUE]
NoTarget == [claims |-> {}, weights |-> <<>>]

Total(w) == MapThenSumSet(LAMBDA i : w[i], DOMAIN w)

(* buildCanonicalAllocationClaimRecord accepts the weights. *)
Canonical(w) == Len(w) > 0 /\ Total(w) = ClaimScale

(* What rounding down left over goes to the first token. *)
WithRemainder(w, scale) == [w EXCEPT ![1] = @ + (scale - Total(w))]

(* intifyNumberScores, intifyBigintScores *)
Intify(scores, scale) ==
    WithRemainder([i \in DOMAIN scores |->
                     IF Total(scores) = 0 THEN scale \div Len(scores)
                     ELSE (scale * scores[i]) \div Total(scores)], scale)

(* The participant strategies score a fixed token list and give the weights on *)
(* a scale of their own.                                                       *)
DaemonWeights(scores) == Intify(scores, DaemonScale)

Init ==
    /\ bot = [p \in Participants |->
                [pc |-> "idle", file |-> NoFile, checked |-> TRUE]]
    /\ listed \in Lengths
    /\ active = 0 /\ opened = {}
    /\ claims = <<>>
    /\ stake = [p \in Participants |-> 1]      \* joined, or no row at all
    /\ published = {} /\ target = [e \in Epochs |-> NoTarget]
    /\ relisted = FALSE

Aggregated == {e \in Epochs : target[e] # NoTarget}
Latest == Max(Aggregated \cup {0})

-----------------------------------------------------------------------------
(* The participant's bot. *)

Idle(p) == bot[p].pc # "sending"
HasFile(p) == bot[p].file # NoFile
End(p, pc) == bot' = [bot EXCEPT ![p] = [pc |-> pc, file |-> NoFile, checked |-> TRUE]]

(* proposeAllocation: a claim that is not canonical is not written at all. *)
Propose(p, e, author, w) ==
    IF Canonical(w)
    THEN bot' = [bot EXCEPT ![p].pc = "idle",
                            ![p].file = [epoch |-> e, as |-> author, weights |-> w, intact |-> TRUE]]
    ELSE End(p, "unmined")

(* The address may be another's: --participant overrides the environment. *)
Mine(p) ==
    /\ Idle(p) /\ ~HasFile(p)
    /\ \E e \in 0..MaxEpoch, author \in Participants, w \in Drafts : Propose(p, e, author, w)
    /\ UNCHANGED relayerVars

(* One turn of the daemon: the epoch after the latest state, 1 if that cannot *)
(* be read, and weights computed from market scores.                          *)
DaemonMine(p) ==
    /\ Idle(p) /\ ~HasFile(p)
    /\ \E e \in {Latest + 1, 1}, s \in Scores : Propose(p, e, p, DaemonWeights(s))
    /\ UNCHANGED relayerVars

(* The claim file lies on disk between mining and submitting. *)
Edit(p) ==
    /\ Idle(p) /\ HasFile(p) /\ bot[p].file.intact
    /\ \E w \in Drafts \ {bot[p].file.weights} :
         bot' = [bot EXCEPT ![p].file =
                    [epoch |-> @.epoch, as |-> @.as, weights |-> w, intact |-> FALSE]]
    /\ UNCHANGED relayerVars

(* validateAllocationOrIntent on the file: the hash is that of its claim. *)
Unverified(f) == TRUE                                \* mutant
Verified(f) == f.intact /\ Canonical(f.weights)

(* The claim is checked whenever submission is asked for.  Without --submit *)
(* and --verify it is sent unchecked if PARTICIPANT_AUTO_SUBMIT is on and   *)
(* PARTICIPANT_REQUIRE_EXPLICIT_SUBMIT is off.                              *)
Send(p) ==
    /\ Idle(p) /\ HasFile(p)
    /\ \E explicit \in BOOLEAN :
         IF (explicit /\ ~Verified(bot[p].file)) \/ ~Canonical(bot[p].file.weights)
         THEN End(p, "idle")
         ELSE bot' = [bot EXCEPT ![p].pc = "sending", ![p].checked = explicit]
    /\ UNCHANGED relayerVars

(* The request, or every retry of it, is lost. *)
GiveUp(p) ==
    /\ bot[p].pc = "sending"
    /\ End(p, "idle")
    /\ UNCHANGED relayerVars

-----------------------------------------------------------------------------
(* The relayer receives a claim. *)

AnyDimensions(w) == TRUE                             \* mutant
ValidDimensions(w) == listed = 0 \/ Len(w) = listed

(* Epoch 0 stands for the active one; any other must be it. *)
Accepts(p) ==
    LET f == bot[p].file IN
    /\ f.as = p
    /\ ValidDimensions(f.weights)
    /\ active # 0 /\ f.epoch \in {0, active}

Row(p) ==
    [by |-> p, epoch |-> active, weights |-> bot[p].file.weights]

(* A row stands for its hash: a second claim with the same one is refused. *)
Duplicate(p) == Row(p) \in Range(claims)

(* If the answer is lost, the retry is refused for its spent nonce. *)
Deliver(p) ==
    /\ bot[p].pc = "sending"
    /\ IF Accepts(p) /\ ~Duplicate(p)
       THEN Len(claims) < MaxClaims /\ claims' = Append(claims, Row(p))
       ELSE UNCHANGED claims
    /\ End(p, "idle")
    /\ UNCHANGED <<listed, active, opened, stake, published, target, relisted>>

-----------------------------------------------------------------------------
(* Aggregation. *)

Rows(e) == {i \in DOMAIN claims : claims[i].epoch = e}

(* Only the latest claim of each participant is heard. *)
Voices(e) == {i \in Rows(e) : \A j \in Rows(e) : claims[j].by = claims[i].by => j <= i}
Heard(e) == {claims[i] : i \in Voices(e)}

TotalStake(e) == MapThenSumSet(LAMBDA i : stake[claims[i].by], Voices(e))
PerHead(e) == Cardinality(Voices(e))                 \* mutant
Divisor(e) == TotalStake(e)

SameShape(v, w) == Len(v) = Len(w) /\ Total(v) = Total(w)
Aggregable(e) ==
    /\ Rows(e) # {}
    /\ \A i, j \in Voices(e) : SameShape(claims[i].weights, claims[j].weights)
    /\ TotalStake(e) > 0

(* The stake-weighted average of the voices, rounded down. *)
Aggregate(e) ==
    LET voice == CHOOSE c \in Heard(e) : TRUE
        sum(k) == MapThenSumSet(LAMBDA i : stake[claims[i].by] * claims[i].weights[k], Voices(e))
    IN  WithRemainder([k \in DOMAIN voice.weights |-> sum(k) \div Divisor(e)],
                      Total(voice.weights))

AlreadyAggregated(e) == Heard(e) \in published /\ e \in Aggregated

StoreTarget(e) ==
    IF AlreadyAggregated(e) THEN UNCHANGED <<published, target>>
    ELSE /\ published' = published \cup {Heard(e)}
         /\ target' = [target EXCEPT ![e] = [claims |-> Heard(e), weights |-> Aggregate(e)]]

(* A tick opens the epoch after the latest state, unless its row is there. *)
OpenEpoch ==
    /\ active = 0 /\ Latest + 1 \in Epochs \ opened
    /\ active' = Latest + 1
    /\ opened' = opened \cup {Latest + 1}
    /\ UNCHANGED <<bot, listed, claims, stake, published, target, relisted>>

(* A tick closes an epoch that has claims; the row stays when the aggregation *)
(* is refused.                                                                *)
CloseEpoch ==
    /\ active # 0 /\ Rows(active) # {}
    /\ active' = 0
    /\ IF Aggregable(active) THEN StoreTarget(active) ELSE UNCHANGED <<published, target>>
    /\ UNCHANGED <<bot, listed, opened, claims, stake, relisted>>

(* A strategy bot aggregates any epoch by hand. *)
AggregateByHand(e) ==
    /\ Aggregable(e)
    /\ StoreTarget(e)
    /\ UNCHANGED <<bot, listed, active, opened, claims, stake, relisted>>

SetStake(p) ==
    /\ \E s \in Stakes : stake' = [stake EXCEPT ![p] = s]
    /\ UNCHANGED <<bot, listed, active, opened, claims, published, target, relisted>>

(* sync-by-strategy again, with other tokens. *)
Relist ==
    /\ \E n \in Lengths \ {listed} : listed' = n
    /\ relisted' = TRUE
    /\ UNCHANGED <<bot, active, opened, claims, stake, published, target>>

Next ==
    \/ \E p \in Participants : \/ Mine(p) \/ DaemonMine(p) \/ Edit(p) \/ Send(p)
                               \/ GiveUp(p) \/ Deliver(p) \/ SetStake(p)
    \/ \E e \in Epochs : AggregateByHand(e)
    \/ OpenEpoch \/ CloseEpoch \/ Relist

Spec == Init /\ [][Next]_vars

-----------------------------------------------------------------------------
(* Properties. *)

Weights == UNION {[1..n -> 0..ClaimScale] : n \in 1..Max(Lengths \cup {Len(d) : d \in Drafts})}

TypeOK ==
    /\ \A p \in Participants :
         /\ bot[p].pc \in {"idle", "unmined", "sending"} /\ bot[p].checked \in BOOLEAN
         /\ HasFile(p) => bot[p].file.epoch \in 0..(MaxEpoch + 1) /\ bot[p].file.as \in Participants
         /\ bot[p].pc = "sending" => bot[p].file.weights \in Weights
    /\ listed \in Lengths /\ active \in Epochs \cup {0} /\ opened \subseteq Epochs
    /\ Range(claims) \subseteq [by : Participants, epoch : Epochs, weights : Weights]
    /\ stake \in [Participants -> Nat] /\ relisted \in BOOLEAN

(* The stored target of an epoch is a distribution on the claim scale, and no *)
(* token gets more, or less, than the participants asked for: rounding takes  *)
(* less than one unit off each token, and the first token alone receives what *)
(* rounding left over (epoch-aggregator.ts:172-185).                          *)
TargetWithinVoices ==
    \A e \in Aggregated :
      LET w == target[e].weights
          asked(i) == {c.weights[i] : c \in target[e].claims}
      IN  /\ Total(w) = ClaimScale
          /\ \A i \in DOMAIN w :
               w[i] \in Min(asked(i)) .. (Max(asked(i)) + IF i = 1 THEN Len(w) - 1 ELSE 0)

(* In a fund that never replaced its tokens, any epoch somebody with stake    *)
(* voted in can be aggregated: one malformed claim cannot spoil it for the    *)
(* others (claims/route.ts:98-111, :155-166 against epoch-aggregator.ts:133). *)
VotedEpochAggregates ==
    \A e \in Epochs :
      Rows(e) # {} /\ TotalStake(e) > 0 /\ ~relisted /\ listed # 0 => Aggregable(e)

(* A claim that was checked on the way to the relayer is stored as it was *)
(* mined, whatever happened to its file (participant-cli.ts:300-332).     *)
StoredAsMined ==
    [][\A p \in Participants :
         claims' # claims /\ bot'[p] # bot[p] /\ bot[p].checked => bot[p].file.intact]_vars

(* Every turn of the daemon mines a claim ("submits AllocationClaimV1 to the *)
(* relayer on a timer", SKILL.md of the participant pack).                   *)
DaemonMinesClaims == [][\A p \in Participants : DaemonMine(p) => HasFile(p)']_vars
=============================================================================
