--------------------------- MODULE EpochLifecycle ---------------------------
(******************************************************************************)
(* The epochs of one fund, as the relayer runs them (epoch-manager.ts,        *)
(* epoch-aggregator.ts, the claims and aggregate routes, and the rows of      *)
(* supabase.ts they share).                                                   *)
(*                                                                            *)
(* Every request is a process: cron ticks may overlap one another, a strategy *)
(* bot may aggregate any epoch by hand at any time, and claims arrive at the  *)
(* same time.  A request loses control at each await, so each database or     *)
(* chain access is a step of its own and what it read earlier may be stale.   *)
(* A request may die between any two of its steps.                            *)
(*                                                                            *)
(* Time is the flag due[e], closes_at <= now: it comes on by itself and an    *)
(* extension takes it off.  A tick reads its clock when it starts; an older   *)
(* clock only makes it see an epoch as not yet due, as an earlier tick would. *)
(******************************************************************************)
EXTENDS Naturals, FiniteSets

CONSTANTS
    Ticks,        \* cron requests that may overlap
    Bots,         \* strategy bot requests to aggregate by hand
    Claims,       \* allocation claims participants submit
    Participants,
    Author,       \* Author[c]: the participant of claim c
    MinClaims,    \* epoch_min_claims of the fund
    MaxClaims,    \* epoch_max_claims of the fund
    MaxEpoch      \* bound on epoch ids

ASSUME AuthorAssumption == Author \in [Claims -> Participants]
ASSUME ClaimsFinite == IsFiniteSet(Claims)
ASSUME WorkersAssumption == Ticks \cap Bots = {}      \* a request is of one kind
ASSUME LimitAssumption ==
    /\ MinClaims \in Nat \ {0} /\ MaxClaims \in Nat /\ MaxEpoch \in Nat \ {0}

Workers == Ticks \cup Bots
Epochs == 1..MaxEpoch

VARIABLES
    status,     \* epoch_lifecycle.status, "NONE" when there is no row
    due,        \* closes_at has passed
    count,      \* epoch_lifecycle.claim_count
    claim,      \* progress of each claim request, with its epoch and created_at
    finalized,  \* epoch_states: the claims an epoch's state is made of, {} if no row
    latest,     \* the epoch whose state was upserted last, 0 if none
    published,  \* epoch state hashes finalized in SnapshotBook
    announced,  \* history: epoch:aggregated events per epoch
    job         \* local state of each worker's request

epochVars == <<status, due, count>>
stateVars == <<finalized, latest, published>>
vars == <<epochVars, claim, stateVars, announced, job>>

(* rows is history: the epochs with a row when the tick began, if it was alone. *)
IdleJob == [pc |-> "idle", epoch |-> 0, due |-> FALSE, count |-> 0,
            claims |-> {}, rows |-> {}]

Stored(c) == claim[c].pc \in {"filed", "counted", "missed"}
Filed(e) == {c \in Claims : Stored(c) /\ claim[c].epoch = e}
Counted(e) == {c \in Claims : claim[c].pc = "counted" /\ claim[c].epoch = e}
Rows == {e \in Epochs : status[e] # "NONE"}
OpenEpochs == {e \in Epochs : status[e] = "OPEN"}

Init ==
    /\ status = [e \in Epochs |-> "NONE"]
    /\ due = [e \in Epochs |-> FALSE]
    /\ count = [e \in Epochs |-> 0]
    /\ claim = [c \in Claims |-> [pc |-> "new", epoch |-> 0, at |-> 0]]
    /\ finalized = [e \in Epochs |-> {}]
    /\ latest = 0
    /\ published = {}
    /\ announced = [e \in Epochs |-> 0]
    /\ job = [w \in Workers |-> IdleJob]

At(w, pc) == job[w].pc = pc
Free(w) == job[w].pc \in {"idle", "failed"}     \* no request of w is at work
End(w) == job' = [job EXCEPT ![w] = IdleJob]
Goto(w, pc) == job' = [job EXCEPT ![w].pc = pc]

-----------------------------------------------------------------------------
(* Claims: the active epoch is read, the claim inserted, then counted. *)

ReceiveClaim(c) ==
    /\ claim[c].pc = "new"
    /\ \E e \in OpenEpochs :
         claim' = [claim EXCEPT ![c] = [pc |-> "accepted", epoch |-> e, at |-> 0]]
    /\ UNCHANGED <<epochVars, stateVars, announced, job>>

LastStamp == CHOOSE t \in 0..Cardinality(Claims) :
                /\ \A c \in Claims : claim[c].at <= t
                /\ t = 0 \/ \E c \in Claims : claim[c].at = t

(* created_at is a millisecond clock: two claims may carry the same one. *)
InsertClaim(c) ==
    /\ claim[c].pc = "accepted"
    /\ \E t \in {LastStamp, LastStamp + 1} \ {0} :
         claim' = [claim EXCEPT ![c].pc = "filed", ![c].at = t]
    /\ UNCHANGED <<epochVars, stateVars, announced, job>>

CountedAnyway(e) == TRUE                       \* mutant
CountsFor(e) == status[e] = "OPEN"

CountClaim(c) ==
    LET e == claim[c].epoch IN
    /\ claim[c].pc = "filed"
    /\ IF CountsFor(e)
       THEN /\ count' = [count EXCEPT ![e] = @ + 1]
            /\ claim' = [claim EXCEPT ![c].pc = "counted"]
       ELSE /\ claim' = [claim EXCEPT ![c].pc = "missed"]
            /\ UNCHANGED count
    /\ UNCHANGED <<status, due, stateVars, announced, job>>

-----------------------------------------------------------------------------
(* A tick without an active epoch opens the one after the latest state. *)

RowsIfAlone(t) == IF \A w \in Workers \ {t} : Free(w) THEN Rows ELSE {}

ReadActive(t) ==
    /\ Free(t)
    /\ \/ /\ OpenEpochs = {}
          /\ job' = [job EXCEPT ![t] = [IdleJob EXCEPT !.pc = "latest", !.rows = RowsIfAlone(t)]]
       \/ \E e \in OpenEpochs :
            job' = [job EXCEPT ![t] = [IdleJob EXCEPT !.pc = "decide", !.epoch = e,
                                           !.due = due[e], !.count = count[e]]]
    /\ UNCHANGED <<epochVars, claim, stateVars, announced>>

NextAfterRows == Cardinality(Rows) + 1         \* mutant
NextEpoch == latest + 1

ReadLatest(t) ==
    /\ At(t, "latest")
    /\ \/ /\ NextEpoch <= MaxEpoch
          /\ job' = [job EXCEPT ![t].pc = "open", ![t].epoch = NextEpoch]
       \/ NextEpoch > MaxEpoch /\ End(t)       \* bound
    /\ UNCHANGED <<epochVars, claim, stateVars, announced>>

(* The unique indexes on (fund, epoch) and on the open epoch of a fund. *)
Duplicate(e) == status[e] # "NONE" \/ OpenEpochs # {}

OpenEpoch(t) ==
    LET e == job[t].epoch IN
    /\ At(t, "open")
    /\ ~Duplicate(e)
    /\ status' = [status EXCEPT ![e] = "OPEN"]
    /\ End(t)
    /\ UNCHANGED <<due, count, claim, stateVars, announced>>

SkipEpoch(t) ==
    LET e == job[t].epoch IN
    /\ At(t, "open")
    /\ Duplicate(e)
    /\ End(t)
    /\ UNCHANGED <<epochVars, claim, stateVars, announced>>

-----------------------------------------------------------------------------
(* A tick with an active epoch decides on what it read of it. *)

WhenFull(j) == j.count >= MaxClaims            \* mutant
ShouldClose(j) == j.due \/ j.count >= MaxClaims

OneTooFew(j) == j.count + 1 < MinClaims        \* mutant
TooFew(j) == j.count < MinClaims

Noop(t) ==
    /\ At(t, "decide")
    /\ ~ShouldClose(job[t]) \/ (TooFew(job[t]) /\ ~job[t].due)
    /\ End(t)
    /\ UNCHANGED <<epochVars, claim, stateVars, announced>>

ExtendEpoch(t) ==
    LET e == job[t].epoch IN
    /\ At(t, "decide")
    /\ job[t].due
    /\ TooFew(job[t])
    /\ due' = IF status[e] = "OPEN" THEN [due EXCEPT ![e] = FALSE] ELSE due
    /\ End(t)
    /\ UNCHANGED <<status, count, claim, stateVars, announced>>

CloseAnyway(e) == TRUE                         \* mutant
Closable(e) == status[e] = "OPEN"

CloseEpoch(t) ==
    LET e == job[t].epoch IN
    /\ At(t, "decide")
    /\ ShouldClose(job[t])
    /\ ~TooFew(job[t])
    /\ IF Closable(e)
       THEN status' = [status EXCEPT ![e] = "CLOSED"] /\ Goto(t, "list")
       ELSE UNCHANGED status /\ End(t)
    /\ UNCHANGED <<due, count, claim, stateVars, announced>>

-----------------------------------------------------------------------------
(* aggregateEpoch, run by a tick for the epoch it closed or by a bot.  The *)
(* state hash stands for the epoch and the claims it is made of.           *)

NeverEmpty(S) == FALSE                         \* mutant
NoClaims(S) == S = {}

(* The latest claim of each participant; equal created_at come in any order. *)
LatestOf(S) ==
    {L \in SUBSET S :
        /\ \A c \in S : \E d \in L : Author[d] = Author[c] /\ claim[d].at >= claim[c].at
        /\ \A c, d \in L : Author[c] = Author[d] => c = d}

(* What follows aggregation: a tick marks the epoch, a bot's request is over. *)
Aggregated(w) == IF w \in Ticks THEN Goto(w, "mark") ELSE End(w)

RequestAggregate(b, e) ==
    /\ Free(b)
    /\ job' = [job EXCEPT ![b] = [IdleJob EXCEPT !.pc = "list", !.epoch = e]]
    /\ UNCHANGED <<epochVars, claim, stateVars, announced>>

ListClaims(w) ==
    LET S == Filed(job[w].epoch) IN
    /\ At(w, "list")
    /\ \/ NoClaims(S) /\ End(w)
       \/ /\ ~NoClaims(S)
          /\ \E L \in LatestOf(S) :
               job' = [job EXCEPT ![w].pc = "check", ![w].claims = L]
    /\ UNCHANGED <<epochVars, claim, stateVars, announced>>

Root(w) == <<job[w].epoch, job[w].claims>>

SkipsPublish(w) == TRUE                        \* mutant
OnChain(w) == Root(w) \in published

CheckPublished(w) ==
    /\ At(w, "check")
    /\ \/ OnChain(w) /\ finalized[job[w].epoch] # {} /\ Aggregated(w)
       \/ OnChain(w) /\ finalized[job[w].epoch] = {} /\ Goto(w, "upsert")
       \/ ~OnChain(w) /\ Goto(w, "publish")
    /\ UNCHANGED <<epochVars, claim, stateVars, announced>>

PublishRoot(w) ==
    /\ At(w, "publish")
    /\ published' = published \cup {Root(w)}
    /\ Goto(w, "upsert")
    /\ UNCHANGED <<epochVars, claim, finalized, latest, announced>>

UpsertState(w) ==
    /\ At(w, "upsert")
    /\ finalized' = [finalized EXCEPT ![job[w].epoch] = job[w].claims]
    /\ latest' = job[w].epoch
    /\ Aggregated(w)
    /\ UNCHANGED <<epochVars, claim, published, announced>>

MarkAggregated(t) ==
    LET e == job[t].epoch IN
    /\ At(t, "mark")
    /\ IF status[e] = "CLOSED"
       THEN status' = [status EXCEPT ![e] = "AGGREGATED"] /\ Goto(t, "announce")
       ELSE UNCHANGED status /\ End(t)
    /\ UNCHANGED <<due, count, claim, stateVars, announced>>

Announce(t) ==
    /\ At(t, "announce")
    /\ announced' = [announced EXCEPT ![job[t].epoch] = @ + 1]
    /\ End(t)
    /\ UNCHANGED <<epochVars, claim, stateVars>>

-----------------------------------------------------------------------------

ComesDue(e) ==
    /\ status[e] = "OPEN" /\ ~due[e]
    /\ due' = [due EXCEPT ![e] = TRUE]
    /\ UNCHANGED <<status, count, claim, stateVars, announced, job>>

(* A request dies: a crash, a time limit, or an error of the chain or the *)
(* database, which tickEpoch reports and does not repair.                 *)
Fail(w) ==
    /\ ~Free(w)
    /\ job' = [job EXCEPT ![w] = [IdleJob EXCEPT !.pc = "failed"]]
    /\ UNCHANGED <<epochVars, claim, stateVars, announced>>

Aggregate(w) ==
    ListClaims(w) \/ CheckPublished(w) \/ PublishRoot(w) \/ UpsertState(w)

Tick(t) ==
    \/ ReadActive(t) \/ ReadLatest(t) \/ OpenEpoch(t) \/ SkipEpoch(t)
    \/ Noop(t) \/ ExtendEpoch(t) \/ CloseEpoch(t)
    \/ Aggregate(t) \/ MarkAggregated(t) \/ Announce(t)

Bot(b) == Aggregate(b) \/ \E e \in Epochs : RequestAggregate(b, e)

Submit(c) == ReceiveClaim(c) \/ InsertClaim(c) \/ CountClaim(c)

Next ==
    \/ \E t \in Ticks : Tick(t)
    \/ \E b \in Bots : Bot(b)
    \/ \E c \in Claims : Submit(c)
    \/ \E e \in Epochs : ComesDue(e)
    \/ \E w \in Workers : Fail(w)

Spec == Init /\ [][Next]_vars

(* Cron keeps calling, so every tick takes its steps, and time passes. *)
Fairness ==
    /\ \A t \in Ticks : WF_vars(Tick(t))
    /\ \A e \in Epochs : WF_vars(ComesDue(e))

FairSpec == Spec /\ Fairness

-----------------------------------------------------------------------------

Jobs == [pc : {"idle", "failed", "latest", "open", "decide", "list", "check", "publish",
               "upsert", "mark", "announce"},
         epoch : 0..MaxEpoch, due : BOOLEAN, count : 0..Cardinality(Claims),
         claims : SUBSET Claims, rows : SUBSET Epochs]

TypeOK ==
    /\ status \in [Epochs -> {"NONE", "OPEN", "CLOSED", "AGGREGATED"}]
    /\ due \in [Epochs -> BOOLEAN]
    /\ count \in [Epochs -> 0..Cardinality(Claims)]
    /\ claim \in [Claims -> [pc : {"new", "accepted", "filed", "counted", "missed"},
                             epoch : 0..MaxEpoch, at : 0..Cardinality(Claims)]]
    /\ finalized \in [Epochs -> SUBSET Claims]
    /\ latest \in 0..MaxEpoch
    /\ published \subseteq Epochs \X ((SUBSET Claims) \ {{}})
    /\ announced \in [Epochs -> Nat]
    /\ job \in [Workers -> Jobs]

(*****************************************************************************)
(* An epoch state the relayer serves is finalized on chain, so an intent can *)
(* be proposed against it: whatever ticks and bots aggregate the epoch at    *)
(* once, and wherever they die, the row is written only after its root.      *)
(*****************************************************************************)
StateFinalizedOnChain ==
    \A e \in Epochs : finalized[e] # {} => <<e, finalized[e]>> \in published

(*****************************************************************************)
(* No epoch opens before the one before it has a state, and no epoch is      *)
(* marked AGGREGATED without one, although opening, closing, aggregating and *)
(* marking are separate writes of requests that overlap.                     *)
(*****************************************************************************)
EpochsFollowFinality ==
    \A e \in Epochs :
        /\ status[e] # "NONE" /\ e > 1 => finalized[e - 1] # {} /\ status[e - 1] # "OPEN"
        /\ status[e] = "AGGREGATED" => finalized[e] # {}

(***************************************************************************)
(* Of the ticks that see an epoch ready, one aggregates it: at most one    *)
(* epoch:aggregated event is sent for it, and only once it is AGGREGATED.  *)
(***************************************************************************)
AnnouncedOnce ==
    \A e \in Epochs :
        /\ announced[e] <= 1
        /\ announced[e] = 1 => status[e] = "AGGREGATED"

HeardIn(c, L) == \E d \in L : Author[d] = Author[c] /\ claim[d].at >= claim[c].at

(******************************************************************************)
(* A claim counted towards closing an epoch is heard by the tick that closed  *)
(* it: the claims it aggregates hold that claim or a newer one of its author, *)
(* however the insert, the count and the close interleaved.                   *)
(******************************************************************************)
CountedClaimsHeard ==
    \A t \in Ticks : job[t].pc \in {"check", "publish", "upsert"} =>
        \A c \in Counted(job[t].epoch) : HeardIn(c, job[t].claims)

(***************************************************************************)
(* An epoch only moves from OPEN to CLOSED to AGGREGATED, and once it is   *)
(* closed no claim counts for it any more (supabase.ts, schema.sql).       *)
(***************************************************************************)
StatusNeverRegresses ==
    [][\A e \in Epochs :
          /\ status[e] = "CLOSED" => status'[e] \in {"CLOSED", "AGGREGATED"}
          /\ status[e] = "AGGREGATED" => status'[e] = "AGGREGATED"
          /\ status[e] \in {"CLOSED", "AGGREGATED"} => count'[e] = count[e]]_vars

Rounds == INSTANCE EpochRounds WITH
    phase <- status, counted <- [e \in Epochs |-> Counted(e)],
    roots <- published, state <- finalized, told <- announced

(****************************************************************************)
(* Whatever requests overlap, read before others write, and die, the rows   *)
(* go through the rounds that EpochRounds describes: no epoch opens beside  *)
(* another or before the last one has its state, none closes below the      *)
(* minimum of claims, although the tick decides on a count it read earlier, *)
(* no claim counts twice, and every end is announced once                   *)
(* (epoch-manager.ts, epoch-aggregator.ts).                                 *)
(****************************************************************************)
ImplementsRounds == Rounds!Spec

(****************************************************************************)
(* While cron keeps calling and requests die only finitely often, an open   *)
(* epoch that has its minimum of claims is closed, whatever it was extended *)
(* by ticks that had read it earlier.                                       *)
(****************************************************************************)
EnoughClaimsClose ==
    <>[][\A w \in Workers : ~Fail(w)]_vars =>
        \A e \in Epochs :
            status[e] = "OPEN" /\ count[e] >= MinClaims ~> status[e] # "OPEN"
=============================================================================
