# Openfunderse in TLA+

Openfunderse runs funds that agents steer. Participants claim target weights, a
relayer aggregates the claims of an epoch into a state whose hash is finalized on
chain, a strategy agent proposes intents against that state, verifiers attest
them, and the contracts execute an approved intent against the fund's vault.

This directory holds the TLA+ models of that system, the TLC configurations that
check them and the TLAPS proofs about them. Every definition is translated from
the code; `PROJECT.json` names, for each of them, the lines it stands for.

## 1. The system

| component | state it keeps | operations | correct when |
|---|---|---|---|
| `IntentBook.sol` | intents, weights, attestations, spent nonces, verifiers, threshold, freeze flag | propose, attest (batch), set verifier / threshold / snapshot book, freeze | approval is the quorum fixed at proposal, nonces are spent once, approved intents are final |
| `SnapshotBook.sol` | published roots | publish (idempotent, anyone) | a root stays finalized |
| `ClawCore.sol` | executed intents, pause, addresses | execute, validate, pause, freeze | an intent settles once, under its quorum and its committed route |
| `ClawVault4626.sol` | shares, assets, inventory, gas reserve, deposit queue, fee owed, allow lists | deposit, withdraw, redeem, queue, cancel, settle, trade, top up gas, configure | shares stay backed and fairly priced, inventory and counter agree, the reserve is held |
| `ClawFundFactory.sol` | list of funds | createFund | a fund is deployed whole or not at all, for the strategy agent it names |
| `NadfunExecutionAdapter.sol` | authorised callers | execute buy / sell, quote | what it quotes is what it does |
| relayer: epochs | `epoch_lifecycle`, `epoch_states`, `allocation_claims` rows | cron tick, claim, aggregate by hand | epochs follow finality, one tick aggregates, counted claims are heard |
| relayer: intents | `subject_state`, `attestations`, `intents`, `execution_jobs` rows | propose, attest batch, bundle, executed / failed reports | weight is counted once, a quorum is noticed, rows follow the chain |
| relayer: claims | `allocation_claims`, `stake_weights` rows | take a claim, aggregate | the target lies within what was asked for; one voice with stake is enough |
| relayer: onboarding | `funds`, `fund_deployments`, `fund_bots`, `stake_weights` rows | sync-by-strategy, join, register, set stake | no row without its parents, one fund per deployment, a fund keeps its identity, whoever is entered has a stake |
| relayer: events | `events_outbox` rows, the emitter's short history | publish, feed of attested intents, stream | the feed repeats and reorders nothing |
| relayer: auth | bots, spent nonces | authenticate, authorise | a signed request counts once, roles hold in their fund |
| strategy bot | none between runs | decide a trade, propose, attest, execute | what it proposes can be executed; rebalancing does not overshoot |
| participant bot | a claim file, a timer | mine, verify, submit, daemon | what was checked is what is stored |
| daemon | subscription, reconnect timer | subscribe, back off, stop | it always comes back |
| SDK | none | canonical claims, constraints, weights, hashes | everybody derives the same |
| installer, dashboard | an `.env` file; none | copy packs, make a bot's key; render | - |

How they interact. The relayer reads `SnapshotBook` and publishes to it; agents
read the relayer's bundles and send the contract calls; `ClawCore` reads
`IntentBook` and calls the vault, the vault calls the adapter and the tokens. The
relayer's requests share nothing but database rows: each `await` is a point where
another request may run, and a request may die there. The contracts' calls are
atomic, but for one thing: `executeIntent` gives control away before it marks
the intent executed.

Hard behaviours: owner changes between the batches that attest one intent;
re-entrance; rounding and empty vaults; ticks, claims and manual aggregations that
overlap; death between two database writes; stale reads; reports repeated and cut
off; five components that each check a trade anew; files and connections that
change in between. `PROJECT.json` lists each
hazard at its line with the properties that watch it, and says which are still open.

## 2. Modules

| module | what it models |
|---|---|
| `IntentBook` | the intent and snapshot registries and the block clock; one action per contract function, one step per call |
| `ClawCore` | extends `IntentBook` with execution; `executeIntent` is `BeginExecute` and `FinishExecute` or `RevertExecute`, with the vault's guard in between. `Next` is the whole settlement core, and its invariant `IInv` is stated here |
| `IntentLifecycle` | abstract: an intent is absent, proposed, approved, executed, and only a quorum approves it. `ClawCore` implements it (`ImplementsLifecycle`), phase by phase, with the credited weights as backing |
| `ClawCoreProofs` | theorems about the settlement core |
| `ClawVault4626` | the vault: one action per function, the queue's batch loop as a recursive function over the books |
| `ClawVault4626Proofs` | theorems about the vault |
| `EpochLifecycle` | ticks, bots and claims as processes over the relayer's rows; one action per `await` |
| `EpochRounds` | abstract: an epoch is open, closed with its minimum of claims, finalized on chain, served and announced, one at a time, by nobody in particular. `EpochLifecycle` implements it (`ImplementsRounds`) |
| `EpochLifecycleProofs` | theorems about epochs |
| `IntentAttestation` | the relayer's intake of one intent: the propose request and any number of attestation requests, one action per database access, up to the job and the `intent:ready` event |
| `ExecutionJobs` | extends `IntentAttestation` with what follows: runs of the bot's commands (signers and executors), the relayer's routes they report to, the job's row, and as much of the chain as the bot sees. `Next` is the whole, and its invariant `IInv` is stated here |
| `IntentRelay` | abstract: what relayer and bot do together of one intent: verifiers are heard, the intent is made ready, offered, attested on chain, approved and executed. `ExecutionJobs` implements it (`ImplementsRelay`), with the stored attestations as voices and the sets of enough weight as quorums |
| `ExecutionJobsProofs` | theorems about the relayer and the bot |
| `AllocationClaims` | a claim from the participant's bot through the relayer's checks to the target weights; all arithmetic in full, a relayer request as one step |
| `AllocationClaimsProofs` | theorems about claims |
| `StrategyDecision` | what the strategy bot decides from targets, positions and quotes, its way to the chain, and the checks of core, vault and adapter, with the dry run beside the execution |
| `StrategyDecisionProofs` | theorems about the strategy bot's proposals |
| `FundOnboarding` | factory, report of the deployment, joining, registering and stakes; requests overlap, one action per write. A bot's id and its address are inputs of their own: memberships are kept by id, stakes by address, and only the address is vouched for |
| `EventStream` | the emitter and its bounded history, the feed resumed by the last id (its replay loop as a recursive function), and the daemon's subscription. The feed is a specification by itself, `StreamSpec` |
| `OnboardingAndFeedProofs` | theorems about onboarding, the feed and the daemon's subscription |
| `Sums` | lemmas about sums over finite sets, as `MapThenSumSet` of the community modules defines them: the order does not matter, adding, comparing and scaling, and rows and columns may be exchanged. Used by the proofs about claims, vault and strategy |
| `MC...` | constants for TLC |

Conventions. A reverted call is a step that does not happen. Variables marked
*history* are written and never read by the actions: `credit` and `signedFor` in
`IntentBook` (the weight a verifier was credited with; the intents a nonce was
accepted for), `traded` in `ClawCore`, `announced` and `job[..].rows` in
`EpochLifecycle`, `ready` and `abandoned` in `IntentAttestation`. Definitions that
carry the comment *mutant* are plausible bugs
used to show that a property can fail; no specification uses them. `relisted`
and `checked` (`AllocationClaims`), `gone` (`EventStream`), `rivalTx`, `rivalId` and
`cutOff` (`FundOnboarding`) and, in `StrategyDecision`, the fields `seen`, `pool`
and `snapshot` are history too.

How the modules fit. `IntentBook`, `ClawCore` and `IntentLifecycle` are one
specification; so are `IntentAttestation` and `ExecutionJobs`. `IntentLifecycle`,
`EpochRounds` and `IntentRelay` say in one step each what these and `EpochLifecycle`
do in many. `EpochLifecycle` and
`AllocationClaims` are two cuts through the same code: the first has every database
access and no arithmetic, the second the arithmetic and the bots, with requests as
steps. `StrategyDecision` cuts through bot, SDK and contracts along one trade and
takes approval as a step, which the others break up.

What is abstracted. Hashes and signatures are their meaning: an intent is its hash,
a batch holds pairs its verifiers really signed, an allowlist hash is the route it
binds, a state hash is the epoch and the claims it is made of. A sum of weights is
`Total`, a cardinality of weight units, so that the set library's theorems apply;
`MCClawCore` has TLC compare it with a fold. Addresses that only hold a role are
left out: a role-gated call is a step its holder may take. The relayer's rows are
keyed by intent, so one intent stands for all in `IntentAttestation`; the fund's
threshold and the weight snapshot, which come from the configuration, stay the same
there. `ExecutionJobs` lets the chain refuse, or be late with an approval, for any
reason: it weighs verifiers by weights of its own, and `ClawCore` models them. Its
strategy bot is the one in `strategy-cli.ts`, which reports what it did;
acknowledgements forged by another client (TM-002 and TM-003 of the repository's
threat model) are outside. The ready-execution query reads the jobs and then the
intents; a row of an intent never disappears, so it is one step. In `EpochLifecycle`
the relayer's clock is a flag per epoch that comes on by itself and that an
extension takes off. In the vault, amounts are small integers; checked arithmetic
would revert far above them. Views and counters that nothing reads back (principal,
cumulative profit) are left out.

## 3. What TLC checks

| run | instance | shows |
|---|---|---|
| `settlement` | 2 intents, 2 verifiers, 2 nonces, weights 1-2, thresholds 2-3, MaxUint 3, 2 time steps, 3 kinds of terms | approval is the quorum fixed at proposal whatever the owner changes (`ApprovalIsQuorum`); a nonce backs one intent (`NonceBacksOneIntent`); one trade per intent though it is marked late (`SettledAtMostOnce`), always backed by its quorum (`TradeBackedByQuorum`); approved intents are final; a frozen quorum only gets harder to reach; the lifecycle is implemented |
| `vault` | 2 holders, 2 tokens, 4 assets, 5 shares, 2 units per token; 2 requests, batches in both orders and with a repeated id | shares are worth something whenever they can move (`HoldersBacked`), nothing but a trade or an unpriceable deposit lowers a share's worth (`SharePriceKept`), the counter equals the inventory (`PositionsTracked`), the reserve is held, fees come from tracked profit; a queued request leaves the queue once and is paid once (`RequestsSettleOnce`) |
| `epochs` | 2 ticks, 1 bot, 2 claims of one participant, 2 epochs | states are finalized on chain before they are stored, an epoch never opens before its predecessor has a state, one announcement, counted claims are heard; the rounds are implemented (`ImplementsRounds`) |
| `epoch_liveness` | the same with 1 epoch | enough counted claims close the epoch |
| `jobs` | 3 verifiers of weight 1, threshold 2, 2 attestation requests at once, 1 signer, 1 executor | every verifier's weight is counted once (`WeightCountedOnce`), the attestation that completes a quorum is noticed though two requests complete it together (`QuorumNoticed`), no late writer takes a row back to an earlier status (`NeverDemoted`); the relay is implemented (`ImplementsRelay`), which includes that nothing is made ready without a quorum, that the relayer calls approved only what the chain approved, that the chain hears only stored attestations, each once, and that only what was offered is executed |
| `jobs_executed`, `jobs_retried` | 2 verifiers of weights 2 and 1, threshold 2, 1 request at a time, 1 signer, 1 executor | violated: see findings |
| `claims` | 2 participants, 4 claims over one or two tokens, 2 epochs, 2 stored claims, stakes 0 to 2 | the target is a distribution within what was asked for (`TargetWithinVoices`), a voted epoch can be aggregated (`VotedEpochAggregates`), what was checked is stored as mined (`StoredAsMined`) |
| `daemon_unheard` | as `claims` | violated: see findings |
| `strategy` | 2 tokens, pools of both routers at two prices, 3 targets, 1 older set of positions, profits, losses and ages, an intent by hand, 1 step to the deadline | an approved proposal can be executed (`ProposalExecutable`), the dry run tells what execution would do (`DryRunAgrees`), a rebalancing sale stays above the target (`RebalanceKeepsTarget`) |
| `onboarding` | 2 bot ids, 2 addresses, 2 funds, 2 deployments, 2 requests at once | rows are in order wherever a request is cut off (`RowsInOrder`), no two funds on one deployment (`OneFundPerDeployment`), contracts and strategy bot stay (`FundKeepsIdentity`), and a participant's address has a stake or is owed one, however ids and addresses are combined (`MembersHaveStake`) |
| `events` | 6 events, a history of 3, waits of 1, 2, 4 and 5 | the feed misses only what was forgotten and repeats nothing (`FeedExact`); the daemon always comes back (`DaemonStaysOnDuty`) |

Why the bounds are enough. Two intents and two verifiers are needed for a nonce
to cross intents and for a batch to be more than one entry; weights 1-2 with
thresholds 2-3 give quorums of one, of two and of none; MaxUint 3 makes the sum
overflow; two time steps let a deadline pass before, during and after
attestation. Two tokens are needed for one position to close while another is
open; four assets and two units per token give profits large enough for a fee of
one unit at 50%, and shares both above and below one asset. The configurations
the owner passes through (`Configs`) are a named bound: the order of the
factory, then pause, delisting and freeze. Two ticks and a bot are needed for a
race between closing, aggregating and overwriting; two claims of one participant
for one to replace the other; two epochs for the next to depend on the last.

For `jobs`, any two of three verifiers make a quorum and none does alone, so that
two requests can complete one together and a third verifier comes after it; the
three may also send again, twice at once included. One signer and one executor meet
one request, and each other, in every order (each starts again when it ends), and a
request that died makes room for the next. The two runs that find the bot at fault
need no second request; one of their two verifiers is a quorum alone. For `claims`,
two participants of different stakes and two tokens give averages that round, two
epochs a claim that is late; a scale of 2 makes every division inexact. For
`strategy`, two tokens are needed to rebalance at all, two prices for profit and
loss, two routers for a pool that moved, one step for an intent that runs out. For
`onboarding`, two of each let every pair of requests meet, with one id under two
addresses and two ids under one; one weight will do, since no property tells set
weights from the default. For `events`, six events pass twice through the history.
The proofs drop these bounds.

Five runs have a state constraint. `QueueBeforeTrading`: while a request is in the
queue or settled, the vault has no position; batches need a flat vault anyway.
`Overlap` (`jobs`): two attestation requests are under way together only while the bot
rests and no attestation has expired, and expiries come with two attestations at
most. The bot acts only on an intent that is ready, and expiries matter to its batches
only, which hold a quorum of two. `Few` (`onboarding`): five of the eight rows of
members and stakes, one thing gone wrong (an entry that died or a rivalry), and two
requests on different funds only when both are reports: others on different funds
touch no row in common after their checks. What both constraints leave out the
theorems cover. The instances of both are symmetric in what their configurations
permute: no definition names a verifier, a request, an id, an address, a fund or a
transaction, and nothing of these runs is about liveness.
`OneThing`: the bot decides while no intent is open and nothing is switched off,
neither of which it looks at. `OneAtWork`: one claim file at a time (bots share
nothing but the relayer's rows), at most one stake other than the default, a claim
made out to another only for the active epoch and unedited (it is refused whatever
else it says), and a bot whose mining failed, which is as an idle one, is not
followed further.

Fairness. `epoch_liveness`: cron calls again and again, so a tick
takes its steps (weak fairness of `Tick`), and time passes (`ComesDue`). A tick may
fail at any step, which the code only reports, so the property asks for nothing
unless failures stop: `<>[](no request fails)` leads to every epoch with enough
counted claims being closed. Closing it takes only a tick that reads the count
after the last failure. `jobs_retried`: the relayer serves its requests and the bot
runs its commands again and again (weak fairness of a request's steps, of a
signer's and of an executor's), which is how the bot is used; the counterexample
needs no unfairness, since the failed job is offered to nobody. `events`: timers
fire (weak fairness of `Tick`, the time before the daemon's reconnection); nothing is
assumed of the network, which may break every connection.

Deadlock is not checked: the clock, the epochs and the amounts are bounded, so
those instances end; and an intent that is executed, or whose job failed, leaves
the relayer and the bot with nothing to do.

### Findings

- `jobs_executed`: `strategy-execute-ready` awaits the receipt of its transaction
  and does not look at the status (strategy-cli.ts:690), so an execution that was
  included and reverted is reported, and recorded, as EXECUTED. The relayer's README
  (62-63) says the route acknowledges a successful execution; the attest command
  does check its receipt.
- `jobs_retried`: a failure is recorded as FAILED_RETRYABLE (relayer README,
  64-65), but the job list offers READY and READY_FOR_ONCHAIN only
  (supabase.ts:1314) and the function that would claim retryable jobs has no
  caller. Once an intent is approved, nothing sets its job back.
- `daemon_unheard`: the participant daemon computes weights that sum to 1,000,000
  (strategies/nadfun/config.ts:26) and hands them to `proposeAllocation`, which
  accepts only weights that sum to 1e18 (sdk/src/relayer-utils.ts:41-48). Each turn
  ends with MISSING_FIELDS and sends nothing, whereas the pack's SKILL.md:175 says the
  daemon submits claims on a timer.

Behaviour met while modelling that no statement of the repository excludes, so that
it is no finding: a tick that dies between `closeEpoch` and `upsertEpochState` makes
later ticks skip until somebody aggregates by hand; a manual aggregation that listed
claims earlier replaces an epoch's state by one that hears fewer of them; an
executed job's row can be overwritten; two deployments reported for one fund at once
mix their rows; a stake is stored for whatever address its request gives, which need
not be the named participant's, and a bot entered anew under another address leaves
its old stake behind; a claim may be sent unchecked when PARTICIPANT_AUTO_SUBMIT is
on and no explicit submission is required; rebalancing looks at token quantities
only, never at cash or prices. They are noted at their hazards.

Two things a line of the code does exclude, and two overlapping requests bring about
nevertheless; both are noted at their hazards and are not runs of their own. The
comment at `join/route.ts:53` says that joining does not overwrite a weight; a
participant that joins while its stake is being set may end with the default. And
`sync-by-strategy/route.ts:307` answers that a fund's strategy bot is immutable; of two
reports of one transaction that name different ids for its address, both pass that
check, and the second replaces `strategy_bot_id`. `FundKeepsIdentity` says what is
kept then: contracts and address; and the id, where no two reports for different ids
overlap.

## 4. What is proved

`ClawCoreProofs` proves, for every set of intents, verifiers, nonces and terms and
every bound, from the named assumptions of `IntentBook` and `ClawCore` (the sets are
finite, weights and thresholds are at least one):

| theorem | statement |
|---|---|
| `Invariant` | `Spec => []IInv` |
| `TypeCorrect`, `QuorumTheorem`, `NonceTheorem`, `SettlementTheorem`, `BackingTheorem` | `Spec => []TypeOK`, `[]ApprovalIsQuorum`, `[]NonceBacksOneIntent`, `[]SettledAtMostOnce`, `[]TradeBackedByQuorum` |
| `FinalityTheorem`, `FrozenTheorem` | `Spec => ApprovedIsFinal`, `Spec => FrozenQuorumIsSettled` |
| `Refinement` | `Spec => Lifecycle!Spec` |

The argument. `ApprovalIsQuorum` is not inductive: that the stored weight equals the
sum of the credits needs each attester to be credited once (`CreditedOnce`), which
needs enabled verifiers to have positive weight (`WeightsOfEnabled`) and an intent
nobody proposed to have no attestation (`UnproposedIsEmpty`).
`NonceBacksOneIntent` needs the spent nonces to be exactly those with a backed
intent (`NoncesSpent`). `SettledAtMostOnce` needs that one call is open at a time,
on an approved intent not yet executed (`OneCallOpen`). `IInv` is their
conjunction. Each step is taken action by action; the sums are handled by four
lemmas on `Total` proved from the finite-set theorems (`CreditGrows` says what a
batch adds). The refinement maps each action to a step of the lifecycle or a
stutter.

`ExecutionJobsProofs` proves, for any number of requests, signers and executors, any
finite set of verifiers, any positive weights and any positive threshold
(`WeightAssumption`):

| theorem | statement |
|---|---|
| `Invariant` | `Spec => []IInv` |
| `TypeCorrect`, `WeightTheorem`, `NoticedTheorem`, `QueuedTheorem`, `ChainTheorem` | `Spec => []TypeOK`, `[]WeightCountedOnce`, `[]QuorumNoticed`, `[]QueuedHasQuorum`, `[]ApprovalFollowsChain` |
| `DemotionTheorem` | `Spec => NeverDemoted` |
| `IntentIsRelayed` | `Spec => ImplementsRelay` |
| `ChainHasTheRelayersBacking` | `Spec => []ChainIsBacked`: what the chain holds of an intent the relayer stores, with a quorum and, once executed, a job |

The argument. `WeightCountedOnce` is strengthened to `WeightIsCounted`: the stored
weight is the weight of some set of attesters, disjoint from those whose increment
is under way, and no two requests add for the same verifier (`OneIncrementEach`).
`QuorumNoticed` rests on `SomebodyLooks`: as long as a quorum has no job, some
request that stored an attestation is still on its way. The step that matters is a
request that lists the rows, finds less than a quorum pending and gives up: then
either there is no quorum at all, or some rows are marked already, and marks are
explained by a finalizer that is still at work or is through (`MarksExplained`). A
signer reports only what the chain has approved, of an intent that was queued
(`SignersFollowChain`). Each step is taken action by action; steps that only read
share one lemma (`ReadInv`), so do a finalizer's writes (`FinalizerFrame`) and the
bot's steps outside the relayer (`ElsewhereInv`).

`IntentIsRelayed` needs two facts more. A signer that is past its first request
carries attestations that are still stored, and knows of a quorum that is still one
(`SignersCarry`): stored attestations only grow (`AttestersGrow`), so does their weight
(`QuorumLasts`), and the weight the bundle's request read was that of attestations
that were stored (`StoredWeightIsBacked`). And an approved intent has a job
(`ApprovedIsOffered`), so that a second approval is a stutter. Each action is then a
step of the relay or hidden from it; `ApprovalFollowsChain` is one of the
consequences.

`AllocationClaimsProofs` proves, for any participants, weight vectors, allowlist
lengths, stakes, scales and bounds (`WeightAssumption`, `ScaleAssumption`):

| theorem | statement |
|---|---|
| `Inductive` | `Spec => []IInv` |
| `VotedEpochsAggregate` | `Spec => []VotedEpochAggregates` |
| `TargetsAreWithin` | `Spec => []TargetWithinVoices` |
| `ClaimsStoredAsMined` | `Spec => StoredAsMined` |

The argument. All claims of an epoch have the same length and sum because each was
canonical when sent and was measured against the fund's tokens when stored; so
`IInv` says that files on their way are canonical and, if they were checked, intact
(`Outgoing`), and that every row is canonical and, in a fund that kept its tokens,
as long as their list (`RowsFit`). `StoredAsMined` follows from the first.

For the target: the voices agree in length and sum, so what they ask for, weighted
by stake, adds up to total stake times scale, token by token or voice by voice
(`SumOfSums`, an exchange of two finite sums). A weighted average lies between its
least and its greatest voice (`AverageBetween`); rounding each one down loses less
than one unit per token (`RoundedDown`), which the code adds to the first token
(`RemainderAdded`). `AggregateSound` puts them together, and the target that was
stored was computed from rows that stood at the time (`TargetsKnown`).

`OnboardingAndFeedProofs` proves, for any sets of bot ids, addresses, funds,
transactions, stakes and requests at once (`StakeAssumption`, `NoneAssumption`), without
the run's constraint `Few`, and for the feed for any length of the history
(`EventAssumption`):

| theorem | statement |
|---|---|
| `Inductive` | `Spec => []IInv` |
| `NoRowWithoutItsParent`, `DeploymentsAreNotShared`, `NoMemberWithoutStake` | `Spec => []RowsInOrder`, `[]OneFundPerDeployment`, `[]MembersHaveStake` |
| `IdentityIsKept` | `Spec => FundKeepsIdentity` |
| `FeedIsSound` | `StreamSpec => []FeedInv` |
| `FeedIsExact` | `StreamSpec => []FeedExact` |
| `DaemonHasOneLine` | `StreamSpec => []OneLine` |

The argument. What a request writes is justified by what it checked some steps before.
`IInv` states, for each step a request may be at, what still stands then: its
transaction deployed for its address, its fund mapped to that transaction, the fund's
id, if it has one, that of the request. It stands (`TasksBacked`) because another
report of the same fund that is under way either agrees with it in transaction and id
(`SameReport`) or has put the fund among the rivals, of the one kind or the other.
Nothing is assumed of which id goes with which address. `MembersHaveStake` is preserved
as it stands: entering a member and owing its stake is one step (`MemberWritten`); a
request that owes one ends only by writing it, by having seen it, or cut off
(`CoverKept`); and stakes are overwritten but never removed.

For the feed, the history is a run of consecutive ids that ends with the latest, and
everything before it is forgotten. What a client received and what is on its way to
it make one increasing sequence of attested events, from its first event on, and each
attested event in between that is not in it is gone. A connection that resumes
replays what the history has after the last id received; the turns of that loop exist
and are unique by induction over a set of naturals (`NatSet`). `OneLine` is the
safety half of `DaemonStaysOnDuty`: the daemon has a subscription or a timer, never
both, waits no longer than its limit, and has neither once it is stopped.

`EpochLifecycleProofs` proves, for any ticks, bots, finite set of claims, number of
epochs and limits (`AuthorAssumption`, `ClaimsFinite`, `WorkersAssumption`,
`LimitAssumption`):

| theorem | statement |
|---|---|
| `Inductive` | `Spec => []IInv` |
| `EpochTypes` | `Spec => []TypeOK` |
| `StatesAreFinalized`, `EpochsInOrder`, `OneAnnouncement`, `CountedAreHeard` | `Spec => []StateFinalizedOnChain`, `[]EpochsFollowFinality`, `[]AnnouncedOnce`, `[]CountedClaimsHeard` |
| `CountsAreExact` | `Spec => []CountsKept` |
| `StatusIsMonotone` | `Spec => StatusNeverRegresses` |
| `EpochsAreRounds` | `Spec => ImplementsRounds` |

The argument. A tick acts on what it read some steps ago. `JobsBacked` says, for
each step a request may be at, what it read or wrote that still stands: its epoch
exists, the claims it listed are filed, the root it published is on chain. Others
cannot take that away, because rows only grow (`RowsGrow`, `StaysBacked`); each step
then answers for its own request and rows only. That one tick announces an epoch
rests on `OneAnnouncer`: at most one is between its successful mark and its event.
`CountsKept` (the count that closes an epoch is the number of claims counted, though
the count is written apart from the claim) is checked by no run, being part of `IInv`.

`EpochsAreRounds` maps each step to a round's or to a stutter. A round closes only
with its minimum of claims, whereas a tick closes on a count it read before: `JobsBacked`
therefore says as well that the count a tick decides on is no more than the row's
count now, since counts only grow. An epoch's claims in the rounds are those counted
for it, which `CountsKept` ties to the row.

`ClawVault4626Proofs` proves, for any holders, finite set of tokens, fees, gas
settings, amounts and bounds (`ChoicesAssumption`, `NamesAssumption`,
`BoundsAssumption`):

| theorem | statement |
|---|---|
| `VaultInductive` | `Spec => []IInv` |
| `VaultTypes`, `ReserveIsHeld`, `HoldersAreBacked`, `PositionsAreTracked` | `Spec => []TypeOK`, `[]ReserveHeld`, `[]HoldersBacked`, `[]PositionsTracked` |
| `SupplyIsOwned` | `Spec => []SharesOwned(ledger)`: the shares that exist are those the accounts hold |
| `PriceIsKept`, `SharesMoveFlat`, `RequestsSettle`, `FeeIsOnProfit` | `Spec => SharePriceKept`, `SharesMoveWhenFlat`, `RequestsSettleOnce`, `FeeOnTrackedProfit` |

The argument. `IInv` is `TypeOK`, the soundness of the books (`Held`: the supply is
what the accounts hold, the reserve is no more than the assets), that a vault without
positions has assets behind its shares (`Backs`), and `PositionsTracked`. Shares move
only while the vault is flat, so each function that moves them is measured against
`Backs`: rounding down on the way in and on the way out keeps the price for those
who stay (`SharesForPrice`, `PaidSound`), and only the last shares may take all that
is left. The queue's batch is a recursive function over the books. Its states are
shown to exist and to be unique, turn by turn (`TurnsExist`), each is sound when the
one before is (`TurnSound`), and price and settlement are chained over the turns
(`PriceChain`, `RequestMarked`, `SettledSum`). A position's cost is split by
quantity, so a partial sale leaves quantity and cost in step (`SoldTracks`), and a
fee is at most the configured part of a tracked profit (`FeeBound`, `FeeScaled`).

`StrategyDecisionProofs` proves, for any policy, pools, targets, positions and
intents made by hand (`PolicyAssumption`, `PoolsAssumption`, `DataAssumption`), and
without the run's constraint `OneThing`:

| theorem | statement |
|---|---|
| `DecisionInductive`, `DecisionTypes` | `Spec => []IInv`, `Spec => []TypeOK` |
| `ProposalsExecute`, `DryRunTells`, `TargetIsKept` | `Spec => []ProposalExecutable`, `[]DryRunAgrees`, `[]RebalanceKeepsTarget` |

The argument. The bot, the SDK, `ClawCore` and the adapter each compute with
prices of their own. `Sound` says of a candidate that its size is within the policy
and that the minimum it commits to is what the core will compute from the same
quote (`MinimumFits`, `CandidateSound`); buys, sales for profit, loss or age and
rebalancing sales are sound one by one (`BuySound`, `OwnSellSound`,
`RebalanceSellSound`), so is the one that is picked (`PicksSound`). From there to the
chain only the time left changes (`LaterSame`). A rebalancing sale is sized by
the surplus over the target in the sum of all quantities; `SurplusLeft` shows that
rounding leaves no less than the target, unless the sale is of the single unit the
bot sells at least.

What stays with TLC. Liveness, which is out of the prover's reach:
`EnoughClaimsClose`, and that the daemon always comes back (the other half of
`DaemonStaysOnDuty`). And the three properties that are violated. Every other
property of a passing run is a theorem, and there are some that no run checks by
themselves: `QueuedHasQuorum`, `ApprovalFollowsChain` and `ChainIsBacked`,
`StatusNeverRegresses` and `CountsKept`, `SharesOwned`, `OneLine`. The library's
induction theorems take a predicate as a parameter, which the provers cannot
instantiate; `NatSet` and `SetInduction` in `Sums` state them over sets.

## 5. Plan

Done: settlement core, vault, epochs, intake of attestations and execution jobs,
claims, onboarding, strategy decisions, event feed and daemon; each with proofs. The
settlement core, the epochs and the relay implement abstract specifications. Left,
most important first:

1. The two specifications of an intent, `IntentRelay` off the chain and `IntentLifecycle`
   on it, composed: `ExecutionJobs` with `ClawCore` in the place of its own chain.
2. Changes of the fund's threshold and of the weight snapshot while attestations of
   an intent come in.
3. The outbox's replay and subscription, once something resumes it.

## 6. Not modelled, and why

- Signature recovery, hashing, Merkle proofs, typed data: data, not control. A hash
  is what it hashes.
- Proxies and upgrades, and which address holds a role: a call that needs a role is
  a step its holder may take.
- The nonce table of signed requests: its unique key is all its logic. The refused
  retry after a lost answer is in `AllocationClaims` (`Deliver`, `GiveUp`).
- The outbox's own stream: its only subscriber in the repository logs what it hears
  and never resumes. The gap between its replay and its listener is a listed hazard.
- Scores, prices, wording and confidence that the participant's and the strategy's
  bots compute from market data.
- The installer: it copies packs and writes one `.env` file, and makes a new key and
  bot id after a backup; nothing of it is concurrent.
- The dashboard and the routes that read or write a single row (public lists,
  verification, archive).
- `claimReadyExecutionJobs`, `relayer/lib/aggregate-logic.ts` and other functions
  that only tests call.
- NadFun's lens, routers and pools: external, any constant-product pool in
  `StrategyDecision` and any amount in the vault.
