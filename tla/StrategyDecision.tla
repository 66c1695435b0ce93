-------------------------- MODULE StrategyDecision --------------------------
(******************************************************************************)
(* What the strategy bot decides and what becomes of it: proposeIntent picks  *)
(* a trade from the target weights, the positions it was shown and the quotes *)
(* of the NadFun lens; proposeIntentAndSubmit takes it to the relayer and     *)
(* then to IntentBook; once approved it goes through ClawCore, the vault and  *)
(* the adapter (skills/strategy/index.ts, sdk/relayer-utils.ts, ClawCore.sol, *)
(* NadfunExecutionAdapter.sol).                                               *)
(*                                                                            *)
(* An intent carries the time it has left, so the clock is not needed; one    *)
(* that ran out or was executed is forgotten, as it can do nothing any more.  *)
(* Approval is one step (IntentBook and IntentAttestation have the rest of    *)
(* it), and cash is what the vault may spend.  Weights are compared exactly,  *)
(* not as floating-point numbers.  Lens and routers are external: pools of a  *)
(* constant product.                                                          *)
(******************************************************************************)
EXTENDS Integers, FiniteSets, FiniteSetsExt, Functions

CONSTANTS
    Tokens,          \* riskPolicy.allowlistTokens
    Targets,         \* aggregate weights the bot may be handed, <<>> for none
    Stale,           \* positions it may be shown besides the current ones
    Pools,           \* markets: [asset, token, router]
    Reports,         \* what it may be told of them: [cost, 0 for unknown, and the old ones]
    CashChoices,     \* cash in the vault while no position is open
    HandMade,        \* intents the agent puts on chain by hand
    MaxNotional, MaxSlippageBps,                     \* riskPolicy
    MaxImpactBps, TakeProfitBps, StopLossBps,        \* environment
    Ttl,             \* computeDeadlineTtlSeconds, in steps of the clock
    MaxCash,         \* bound on the cash
    MaxQuantity,     \* bound on a position
    MaxIntents       \* bound on intents that are open on chain

BPS == 10000
Switches == {"core", "vault", "token", "adapter", "caller", "lens"}
Routers == {"bonding", "dex"}

ASSUME PolicyAssumption ==
    /\ MaxNotional \in Nat \ {0}
    /\ MaxSlippageBps \in 1..BPS
    /\ {MaxImpactBps, TakeProfitBps, StopLossBps, Ttl} \subseteq Nat \ {0}
ASSUME PoolsAssumption ==
    Pools \subseteq [asset : Nat \ {0}, token : Nat \ {0}, router : Routers \cup {"other"}]

Intents ==
    [action : {"BUY", "SELL"}, token : Tokens, amountIn : Nat, quote : Nat, min : Nat,
     router : Routers \cup {"other"}, recipient : {"vault", "adapter", "other"}, left : Nat,
     trigger : {"BUY", "REBALANCE", "TAKE_PROFIT", "STOP_LOSS", "TIME_EXIT", "none", "hand"},
     snapshot : Targets]

ASSUME DataAssumption ==
    /\ IsFiniteSet(Tokens)
    /\ CashChoices \subseteq Nat /\ Stale \subseteq [Tokens -> Nat]
    /\ \A target \in Targets : \A t \in DOMAIN target : target[t] \in Nat
    /\ HandMade \subseteq Intents

VARIABLES
    cash, quantity,  \* what the vault holds
    market,          \* the pool each token is traded in
    bot,             \* the run of proposeIntentAndSubmit
    open,            \* intents on chain: [intent, approved, the pool it was quoted in, by the bot]
    off              \* at most one switch that is off

vault == <<cash, quantity>>
vars == <<vault, market, bot, open, off>>

Least(m, n) == IF m <= n THEN m ELSE n
Greatest(m, n) == IF m >= n THEN m ELSE n
Sum(f) == MapThenSumSet(LAMBDA t : f[t], DOMAIN f)
Idle == [pc |-> "idle"]

Init ==
    /\ cash \in CashChoices /\ quantity = [t \in Tokens |-> 0]
    /\ market \in [Tokens -> Pools]
    /\ bot = Idle /\ open = {} /\ off = "none"

-----------------------------------------------------------------------------
(* Quotes. *)

QuoteBuy(pool, amount) == (amount * pool.token) \div (pool.asset + amount)
QuoteSell(pool, amount) == (amount * pool.asset) \div (pool.token + amount)

Impact(one, two) == IF two >= 2 * one THEN 0 ELSE ((2 * one - two) * BPS) \div (2 * one)

Scaled(amount, impact) ==
    IF impact <= MaxImpactBps THEN amount
    ELSE Greatest(1, (amount * MaxImpactBps) \div impact)

TooLow(out) == ((out - 1) * (BPS - MaxSlippageBps)) \div BPS        \* mutant
ApplySlippage(out) == (out * (BPS - MaxSlippageBps)) \div BPS

(* A candidate is an intent, if its quote is worth one. *)
Candidate(snapshot, action, t, amount, out, trigger) ==
    IF out > 0 /\ market[t].router \in Routers /\ ApplySlippage(out) > 0
    THEN {[action |-> action, token |-> t, amountIn |-> amount, quote |-> out,
           min |-> ApplySlippage(out), router |-> market[t].router,
           recipient |-> IF action = "BUY" THEN "vault" ELSE "adapter",
           left |-> Ttl, trigger |-> trigger, snapshot |-> snapshot]}
    ELSE {}

(* The size is cut when twice the amount would pay clearly less than twice as *)
(* much, and the smaller amount is quoted again.                              *)
QuotedOnce(t) == QuoteBuy(market[t], MaxNotional)
BuyCandidate(target, t) ==
    LET one == QuotedOnce(t)
        two == QuoteBuy(market[t], 2 * MaxNotional)
        amount == Scaled(MaxNotional, Impact(one, two))
    IN  IF one > 0 /\ two > 0
        THEN Candidate(target, "BUY", t, amount, QuoteBuy(market[t], amount), "BUY") ELSE {}

-----------------------------------------------------------------------------
(* Weights: a token's share of the quantities seen, and its target.  Cash has *)
(* no part in them.                                                           *)

HasTarget(target) == DOMAIN target # {}
ValidTarget(target) == DOMAIN target = Tokens /\ Sum(target) > 0

(* current - target weight, in units of 1 / (all quantities * all weights) *)
Surplus(q, target, t) == q[t] * Sum(target) - target[t] * Sum(q)
Scale(q, target) == Sum(q) * Sum(target)

Overweight(q, target, t) == 100 * Surplus(q, target, t) > Scale(q, target)
Underweight(q, target, t) ==
    IF Sum(q) = 0 THEN 200 * target[t] > Sum(target)
    ELSE -200 * Surplus(q, target, t) > Scale(q, target)

SellFraction(q, target, t) == Greatest(1, (BPS * Surplus(q, target, t)) \div Scale(q, target))

SellAll(q, target, t) == Least(q[t], MaxNotional)                  \* mutant
RebalanceAmount(q, target, t) ==
    Least(Least(Greatest(1, (q[t] * SellFraction(q, target, t)) \div BPS), MaxNotional), q[t])

RebalanceSell(q, target, t) ==
    LET amount == RebalanceAmount(q, target, t)
    IN  Candidate(target, "SELL", t, amount, QuoteSell(market[t], amount), "REBALANCE")

(* Division of BigInts, towards zero. *)
Quotient(a, b) == IF a >= 0 THEN a \div b ELSE -((-a) \div b)

(* cost: the reported cost basis of the whole position; old: it is as old as *)
(* STRATEGY_SELL_MAX_HOLD_SECONDS.                                           *)
Trigger(held, amount, out, cost, old) ==
    LET portion == (cost * amount) \div held
        pnl == Quotient((out - portion) * BPS, portion)
    IN  IF portion > 0 /\ pnl >= TakeProfitBps THEN "TAKE_PROFIT"
        ELSE IF portion > 0 /\ pnl <= -StopLossBps THEN "STOP_LOSS"
        ELSE IF old THEN "TIME_EXIT" ELSE "none"

OwnSell(q, target, t, cost, old) ==
    LET amount == Least(q[t], MaxNotional)
        out == QuoteSell(market[t], amount)
    IN  Candidate(target, "SELL", t, amount, out, Trigger(q[t], amount, out, cost, old))

-----------------------------------------------------------------------------
(* proposeIntent: rebalancing sales, then sales the position itself calls     *)
(* for, then purchases.  Ties are broken in any way.  q: the positions shown; *)
(* quoted: the tokens whose quotes succeed, the others are passed over.       *)

RebalanceSells(q, target, quoted) ==
    LET over == {t \in quoted : /\ q[t] > 0 /\ Overweight(q, target, t)
                               /\ RebalanceSell(q, target, t) # {}}
        first == {t \in over : \A u \in over :
                    SellFraction(q, target, u) <= SellFraction(q, target, t)}
    IN  UNION {RebalanceSell(q, target, t) : t \in first}

OwnSells(q, target, quoted, report) ==
    LET all == UNION {OwnSell(q, target, t, report.cost[t], t \in report.old) :
                          t \in {u \in quoted : q[u] > 0}}
        by(trigger) == {s \in all : s.trigger = trigger}
    IN  IF by("STOP_LOSS") # {} THEN by("STOP_LOSS")
        ELSE IF by("TIME_EXIT") # {} THEN by("TIME_EXIT") ELSE by("TAKE_PROFIT")

Buys(q, target, quoted) ==
    LET wanted == {t \in quoted : /\ BuyCandidate(target, t) # {}
                                 /\ HasTarget(target) => Underweight(q, target, t)}
        first == {t \in wanted : HasTarget(target) =>
                    \A u \in wanted : Surplus(q, target, t) <= Surplus(q, target, u)}
    IN  UNION {BuyCandidate(target, t) : t \in first}

Picks(q, target, quoted, report) ==
    LET rebalance == IF HasTarget(target) THEN RebalanceSells(q, target, quoted) ELSE {}
        own == OwnSells(q, target, quoted, report)
    IN  IF HasTarget(target) /\ ~ValidTarget(target) THEN {}             \* HOLD
        ELSE IF rebalance # {} THEN rebalance
        ELSE IF own # {} THEN own ELSE Buys(q, target, quoted)

(* The positions of the market state: the current ones, or older ones. *)
Shown == Stale \cup {quantity}

(* The market state is what the agent hands over. *)
Decide ==
    /\ bot = Idle
    /\ \E q \in Shown, target \in Targets, quoted \in SUBSET Tokens,
          report \in Reports :
       \E p \in Picks(q, target, quoted, report) :
         bot' = [pc |-> "ready", intent |-> p, pool |-> market[p.token], seen |-> q]
    /\ UNCHANGED <<vault, market, open, off>>

(* The submission gate is closed, or the process dies.  The next run decides *)
(* anew, with a new deadline and so another hash.                            *)
Abandon ==
    /\ bot # Idle
    /\ bot' = Idle
    /\ UNCHANGED <<vault, market, open, off>>

(* 409 from the relayer is taken for "it has it already". *)
Relay ==
    /\ bot.pc = "ready"
    /\ bot' = [bot EXCEPT !.pc = "relayed"]
    /\ UNCHANGED <<vault, market, open, off>>

Propose(p, pool, byBot) ==
    /\ p.left > 0 /\ Cardinality(open) < MaxIntents
    /\ open' = open \cup {[intent |-> p, approved |-> FALSE, pool |-> pool, bot |-> byBot]}

(* An intent that is on chain already is left as it is. *)
ProposeOnchain ==
    /\ bot.pc = "relayed"
    /\ IF \E i \in open : i.intent = bot.intent THEN UNCHANGED open
       ELSE Propose(bot.intent, bot.pool, TRUE)
    /\ bot' = Idle
    /\ UNCHANGED <<vault, market, off>>

ProposeByHand(p) ==
    /\ \A i \in open : i.intent # p
    /\ Propose(p, market[p.token], FALSE)
    /\ UNCHANGED <<vault, market, bot, off>>

Approve(i) ==
    /\ ~i.approved /\ i.intent.left > 0
    /\ open' = (open \ {i}) \cup {[i EXCEPT !.approved = TRUE]}
    /\ UNCHANGED <<vault, market, bot, off>>

-----------------------------------------------------------------------------
(* Execution. *)

(* _isSlippageOk *)
SlippageOk(p) ==
    p.quote > 0 /\ p.min > 0 /\ p.min >= (p.quote * (BPS - MaxSlippageBps)) \div BPS

(* validateIntentExecution.  The request carries the approved route, so its *)
(* hash is the one in the constraints.                                      *)
ValidInCore(i) ==
    LET p == i.intent IN
    /\ i.approved /\ p.left > 0
    /\ p.amountIn <= MaxNotional
    /\ SlippageOk(p)

(* What the vault has to spend on it. *)
Funded(p) ==
    IF p.action = "BUY" THEN cash >= p.amountIn ELSE quantity[p.token] >= p.amountIn

Quote(p) ==
    IF p.action = "BUY" THEN QuoteBuy(market[p.token], p.amountIn)
    ELSE QuoteSell(market[p.token], p.amountIn)

RecipientOk(p) == p.recipient = IF p.action = "BUY" THEN "vault" ELSE "adapter"

(* A router serves the tokens that are traded on it. *)
RouterPays(p) == p.router = market[p.token].router /\ Quote(p) >= p.min

(* executeIntent, executeTrade, _executeBuy and _executeSell go through. *)
CanExecute(i) ==
    LET p == i.intent IN
    /\ off \notin Switches \ {"lens"}
    /\ ValidInCore(i)
    /\ Funded(p)
    /\ RecipientOk(p) /\ p.router \in Routers /\ p.left >= 0
    /\ RouterPays(p)

(* quote of the adapter *)
RoutersNotCompared(p) == p.left >= 0 /\ p.router \in Routers /\ Quote(p) >= p.min  \* mutant
AdapterQuoteOk(p) ==
    /\ p.left >= 0 /\ p.router \in Routers
    /\ market[p.token].router = p.router
    /\ Quote(p) >= p.min

(* dryRunIntentExecution *)
DryRunOk(i) ==
    /\ off \notin Switches \ {"caller"}
    /\ ValidInCore(i)
    /\ AdapterQuoteOk(i.intent)

Traded(p) ==
    IF p.action = "BUY"
    THEN /\ quantity[p.token] + Quote(p) <= MaxQuantity
         /\ cash' = cash - p.amountIn
         /\ quantity' = [quantity EXCEPT ![p.token] = @ + Quote(p)]
    ELSE /\ cash + Quote(p) <= MaxCash
         /\ cash' = cash + Quote(p)
         /\ quantity' = [quantity EXCEPT ![p.token] = @ - p.amountIn]

Execute(i) ==
    /\ CanExecute(i)
    /\ Traded(i.intent)
    /\ open' = open \ {i}
    /\ \E pool \in Pools : market' = [market EXCEPT ![i.intent.token] = pool]
    /\ UNCHANGED <<bot, off>>

-----------------------------------------------------------------------------
(* The rest of the world. *)

MarketMoves(t) ==
    /\ \E pool \in Pools : market' = [market EXCEPT ![t] = pool]
    /\ UNCHANGED <<vault, bot, open, off>>

(* Deposits, withdrawals and redemptions need a flat vault. *)
CashMoves ==
    /\ \A t \in Tokens : quantity[t] = 0
    /\ cash' \in CashChoices
    /\ UNCHANGED <<quantity, market, bot, open, off>>

(* Pauses, allow lists, the adapter's callers and the lens. *)
Switch ==
    /\ off' \in IF off = "none" THEN Switches ELSE {"none"}
    /\ UNCHANGED <<vault, market, bot, open>>

Later(p) == [p EXCEPT !.left = @ - 1]
Tick ==
    /\ open' = {[i EXCEPT !.intent = Later(@)] : i \in {j \in open : j.intent.left > 0}}
    /\ bot' = IF bot # Idle /\ bot.intent.left > 0 THEN [bot EXCEPT !.intent = Later(@)] ELSE bot
    /\ UNCHANGED <<vault, market, off>>

Next ==
    \/ Decide \/ Abandon \/ Relay \/ ProposeOnchain
    \/ \E p \in HandMade : ProposeByHand(p)
    \/ \E i \in open : Approve(i) \/ Execute(i)
    \/ CashMoves \/ Switch \/ Tick
    \/ \E t \in Tokens : MarketMoves(t)

Spec == Init /\ [][Next]_vars

-----------------------------------------------------------------------------
(* Properties. *)

(* What the bot proposed and the verifiers approved can be executed until its *)
(* deadline while its market stands as it was quoted, nothing is switched off *)
(* and the vault has what it costs: the bot, the SDK, ClawCore, the vault and *)
(* the adapter, which each check the trade anew, agree about it.              *)
ProposalExecutable ==
    \A i \in open :
      /\ i.bot /\ i.approved /\ i.intent.left > 0
      /\ market[i.intent.token] = i.pool /\ off = "none" /\ Funded(i.intent)
      => CanExecute(i)

(* The dry run an executor asks for before it sends a transaction tells what  *)
(* the transaction would do, for any intent on chain, except for what it does *)
(* not look at: the vault's balance, the recipient and the adapter's callers  *)
(* (ClawCore.sol:298-348 against :224-254).                                   *)
DryRunAgrees ==
    \A i \in open :
      off # "lens" =>
        (CanExecute(i) <=>
           DryRunOk(i) /\ Funded(i.intent) /\ RecipientOk(i.intent) /\ off # "caller")

Sold(q, p) == [q EXCEPT ![p.token] = @ - p.amountIn]

(* A sale proposed to rebalance never takes a token below its target weight *)
(* by more than the one unit it sells at least.                             *)
RebalanceKeepsTarget ==
    bot.pc = "ready" =>
      LET p == bot.intent IN
      p.trigger = "REBALANCE" =>
          p.amountIn = 1 \/ Surplus(Sold(bot.seen, p), p.snapshot, p.token) >= 0
=============================================================================
