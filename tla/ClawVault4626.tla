---------------------------- MODULE ClawVault4626 ----------------------------
(****************************************************************************)
(* The vault of one fund (ClawVault4626.sol): who owns which share of it,   *)
(* the tokens it holds, the reserve it sets aside for the strategy signer's *)
(* gas, the deposits waiting in its queue and the fee it owes on realized   *)
(* profit.                                                                  *)
(*                                                                          *)
(* A transaction is one step; one that reverts is a step that does not      *)
(* happen.  Native and wrapped deposits and withdrawals move the same       *)
(* numbers, so they are one action each.  What only the views report        *)
(* (principal per account, cumulative profit and loss) is left out.         *)
(****************************************************************************)
EXTENDS Integers, Sequences, FiniteSets, FiniteSetsExt

CONSTANTS
    Accounts,      \* depositors and fee recipients
    Tokens,        \* the non-asset tokens the owner may list
    Asset,         \* the vault's asset, wrapped MON
    FeeChoices,    \* performance fees the owner may set, in basis points
    GasChoices,    \* gas fee configurations: [bps, cap, wallet]
    TargetChoices, \* gas reserve targets
    Configs,       \* bound: the configurations the owner may move through
    QueueAmounts,  \* amounts of queued deposits
    Batches,       \* request id lists passed to settleQueuedDeposits
    MaxAssets,     \* bound on the assets the vault holds
    MaxShares,     \* bound on the supply of shares
    MaxTokens,     \* bound on the balance of one token
    MaxCost,       \* bound on cost bases and on the fee owed
    MaxRequests    \* bound on queued deposits

BPS_DENOMINATOR == 10000

ASSUME ChoicesAssumption ==
    /\ FeeChoices \subseteq 0..BPS_DENOMINATOR
    /\ GasChoices \subseteq [bps : 0..BPS_DENOMINATOR, cap : Nat, wallet : BOOLEAN]
    /\ TargetChoices \subseteq Nat
    /\ QueueAmounts \subseteq Nat
    /\ Batches \subseteq Seq(Nat \ {0})
ASSUME NamesAssumption == Asset \notin Tokens /\ IsFiniteSet(Tokens)
ASSUME BoundsAssumption ==
    {MaxAssets, MaxShares, MaxTokens, MaxCost, MaxRequests} \subseteq Nat

VARIABLES
    ledger,     \* [held, gasReserve, totalSupply, balanceOf]: assets and shares
    requests,   \* pendingDeposits, by request id
    tokenBalance,       \* balanceOf(vault) of each token
    position,           \* tokenPositions: [quantity, cost] of each token
    openPositionCount,
    feeOwed,    \* pendingPerformanceFeeAssets
    config      \* pause switch, allow lists, fees and their recipients

inventory == <<tokenBalance, position, openPositionCount, feeOwed>>
vars == <<ledger, requests, inventory, config>>

Flat == openPositionCount = 0
Least(m, n) == IF m <= n THEN m ELSE n

(* The bounds on what would grow without end. *)
WithinBounds ==
    /\ ledger.held <= MaxAssets /\ ledger.totalSupply <= MaxShares
    /\ \A t \in Tokens : tokenBalance[t] <= MaxTokens /\ position[t].cost <= MaxCost
    /\ feeOwed <= MaxCost

---------------------------------------------------------------------------
(* Shares and assets. *)

Managed(l) == IF l.gasReserve >= l.held THEN 0 ELSE l.held - l.gasReserve

(* Mutant of SharesFor: rounds the other way. *)
SharesForUp(l, assets) ==
    IF l.totalSupply = 0 \/ Managed(l) = 0
    THEN assets ELSE (assets * l.totalSupply + Managed(l) - 1) \div Managed(l)

(* convertToShares, rounding down: assets for shares one to one while there *)
(* is nothing to price them with.                                           *)
SharesFor(l, assets) ==
    IF l.totalSupply = 0 \/ Managed(l) = 0
    THEN assets ELSE (assets * l.totalSupply) \div Managed(l)

(* Mutant of SharesBurnt: rounds the other way. *)
SharesBurntDown(l, assets) ==
    IF l.totalSupply = 0 \/ Managed(l) = 0
    THEN assets ELSE (assets * l.totalSupply) \div Managed(l)

(* previewWithdraw, rounding up. *)
SharesBurnt(l, assets) ==
    IF l.totalSupply = 0 \/ Managed(l) = 0
    THEN assets ELSE (assets * l.totalSupply + Managed(l) - 1) \div Managed(l)

AssetsFor(l, shares) ==
    IF l.totalSupply = 0 \/ Managed(l) = 0
    THEN shares ELSE (shares * Managed(l)) \div l.totalSupply

Mint(l, to, shares) ==
    [l EXCEPT !.totalSupply = @ + shares,
              !.balanceOf = [l.balanceOf EXCEPT ![to] = @ + shares]]

Burn(l, from, shares) ==
    [l EXCEPT !.totalSupply = @ - shares,
              !.balanceOf = [l.balanceOf EXCEPT ![from] = @ - shares]]

(* What a deposit of gross assets leaves in the gas reserve. *)
GasFee(l, gross) ==
    LET gas == config.gas
        share == (gross * gas.bps) \div BPS_DENOMINATOR
        capped == IF gas.cap > 0 THEN Least(share, gas.cap) ELSE share
    IN  IF gas.bps = 0 \/ ~gas.wallet \/ l.gasReserve >= config.gasTarget
        THEN 0 ELSE Least(capped, config.gasTarget - l.gasReserve)

(* A deposit whose fee would take all of it reverts. *)
Acceptable(l, gross) == gross > 0 /\ GasFee(l, gross) < gross

(* The deposit buys less than one share at the going price. *)
RoundsToNothing(l, gross) == SharesFor(l, gross - GasFee(l, gross)) = 0

Credited(l, receiver, gross) ==
    LET net == gross - GasFee(l, gross)
        shares == IF RoundsToNothing(l, gross) THEN net ELSE SharesFor(l, net)
    IN  Mint([l EXCEPT !.held = @ + gross, !.gasReserve = @ + GasFee(l, gross)],
             receiver, shares)

Paid(l, owner, shares, assets) ==
    [Burn(l, owner, shares) EXCEPT !.held = @ - assets]

(* deposit and depositNative: no share changes hands while a position is open. *)
Deposit(receiver, gross) ==
    /\ Flat
    /\ Acceptable(ledger, gross)
    /\ ledger' = Credited(ledger, receiver, gross)
    /\ UNCHANGED <<requests, inventory, config>>
    /\ WithinBounds'

(* withdraw and withdrawNative. *)
Withdraw(owner, assets) ==
    LET shares == SharesBurnt(ledger, assets)
    IN  /\ Flat
        /\ assets > 0
        /\ ledger.balanceOf[owner] >= shares
        /\ ledger.held >= assets
        /\ ledger' = Paid(ledger, owner, shares, assets)
        /\ UNCHANGED <<requests, inventory, config>>

Redeem(owner, shares) ==
    LET assets == AssetsFor(ledger, shares)
    IN  /\ Flat
        /\ shares > 0
        /\ ledger.balanceOf[owner] >= shares
        /\ assets > 0
        /\ ledger.held >= assets
        /\ ledger' = Paid(ledger, owner, shares, assets)
        /\ UNCHANGED <<requests, inventory, config>>

(* topUpStrategyGas: the reserve, or a part of it, goes to the strategy signer. *)
TopUpStrategyGas(amount) ==
    LET reserve == ledger.gasReserve
        spend == IF amount = 0 THEN reserve ELSE Least(amount, reserve)
    IN  /\ config.gas.wallet
        /\ reserve > 0
        /\ ledger.held >= spend
        /\ ledger' = [ledger EXCEPT !.gasReserve = @ - spend, !.held = @ - spend]
        /\ UNCHANGED <<requests, inventory, config>>

---------------------------------------------------------------------------
(* The deposit queue.  Assets stay with their owner until the deposit settles. *)

Pending(id) == id \in DOMAIN requests /\ requests[id].status = "pending"

QueueDeposit(owner, receiver, assets) ==
    /\ assets > 0
    /\ Len(requests) < MaxRequests
    /\ requests' = Append(requests, [owner |-> owner, receiver |-> receiver,
                                     assets |-> assets, status |-> "pending"])
    /\ UNCHANGED <<ledger, inventory, config>>

CancelQueuedDeposit(caller, id) ==
    /\ Pending(id)
    /\ requests[id].owner = caller
    /\ requests' = [requests EXCEPT ![id].status = "cancelled"]
    /\ UNCHANGED <<ledger, inventory, config>>

(* Mutant of Unsettled: the status of the request is not looked at. *)
NeverSettled(b, id) == id \in DOMAIN b.requests

(* One turn of the settlement loop: a request that is not pending is skipped. *)
Unsettled(b, id) == id \in DOMAIN b.requests /\ b.requests[id].status = "pending"

SettledOne(b, id) ==
    IF Unsettled(b, id)
    THEN LET r == b.requests[id]
         IN  [ledger |-> Credited(b.ledger, r.receiver, r.assets),
              requests |-> [b.requests EXCEPT ![id].status = "settled"]]
    ELSE b

(* The books after each of the first turns of the loop over ids. *)
Settlement(ids) ==
    LET after[n \in 0..Len(ids)] ==
            IF n = 0 THEN [ledger |-> ledger, requests |-> requests]
            ELSE SettledOne(after[n - 1], ids[n])
    IN  after

(* settleQueuedDeposits: the whole batch settles, or one refused deposit      *)
(* reverts it all.  A transferFrom that fails is a step that does not happen. *)
SettleQueuedDeposits(ids) ==
    LET after == Settlement(ids)
    IN  /\ Flat
        /\ \A n \in 1..Len(ids) :
              Unsettled(after[n - 1], ids[n]) =>
                  Acceptable(after[n - 1].ledger, requests[ids[n]].assets)
        /\ ledger' = after[Len(ids)].ledger
        /\ requests' = after[Len(ids)].requests
        /\ UNCHANGED <<inventory, config>>
        /\ WithinBounds'

---------------------------------------------------------------------------
(* Trades, which only ClawCore orders.  minAmountOut is never zero        *)
(* (ClawCore.sol, _isSlippageOk), so a trade brings in at least one unit. *)

(* Mutant of Bought: the position is recorded but not counted. *)
BoughtUncounted(token, amountIn, amountOut) ==
    /\ position' = [position EXCEPT ![token] =
           [quantity |-> @.quantity + amountOut, cost |-> @.cost + amountIn]]
    /\ UNCHANGED openPositionCount

(* _recordTradePnl, buying amountOut of token for amountIn assets. *)
Bought(token, amountIn, amountOut) ==
    /\ position' = [position EXCEPT ![token] =
           [quantity |-> @.quantity + amountOut, cost |-> @.cost + amountIn]]
    /\ openPositionCount' =
           IF position[token].quantity = 0 /\ amountOut > 0
           THEN openPositionCount + 1 ELSE openPositionCount

(* Mutant of Matched: untracked units are taken off the inventory too. *)
MatchedInFull(token, amountIn) ==
    IF position[token].quantity = 0 THEN 0 ELSE amountIn

(* The part of a sale that closes tracked inventory, and what it cost. *)
Matched(token, amountIn) == Least(amountIn, position[token].quantity)
CostPortion(token, amountIn) ==
    IF Matched(token, amountIn) = 0 THEN 0
    ELSE (position[token].cost * Matched(token, amountIn))
             \div position[token].quantity

(* Mutant of Sold: a partial sale closes the position. *)
SoldOut(token, amountIn) ==
    LET matched == Matched(token, amountIn)
    IN  /\ position' = [position EXCEPT
               ![token].quantity = @ - matched,
               ![token].cost = @ - CostPortion(token, amountIn)]
        /\ openPositionCount' =
               IF matched > 0 /\ ~Flat THEN openPositionCount - 1 ELSE openPositionCount

(* _recordTradePnl, selling amountIn of token for amountOut assets. *)
Sold(token, amountIn) ==
    LET matched == Matched(token, amountIn)
    IN  /\ position' = [position EXCEPT
               ![token].quantity = @ - matched,
               ![token].cost = @ - CostPortion(token, amountIn)]
        /\ openPositionCount' =
               IF matched > 0 /\ matched = position[token].quantity /\ ~Flat
               THEN openPositionCount - 1 ELSE openPositionCount

(* Mutant of AccruedFee: all proceeds count, untracked units included. *)
FeeOnAllProceeds(token, amountIn, amountOut) ==
    LET cost == CostPortion(token, amountIn)
    IN  IF amountOut >= cost
        THEN ((amountOut - cost) * config.feeBps) \div BPS_DENOMINATOR ELSE 0

(* The fee on the profit of the matched part of a sale. *)
AccruedFee(token, amountIn, amountOut) ==
    LET proceeds == (amountOut * Matched(token, amountIn)) \div amountIn
        cost == CostPortion(token, amountIn)
    IN  IF proceeds >= cost
        THEN ((proceeds - cost) * config.feeBps) \div BPS_DENOMINATOR ELSE 0

(* Mutant of PayFee: the fee is paid while positions are open. *)
PayFeeAtOnce(traded, owed) ==
    LET shares == SharesFor(traded, owed)
    IN  IF owed > 0 /\ shares > 0
        THEN /\ ledger' = Mint(traded, config.feeRecipient, shares)
             /\ feeOwed' = 0
        ELSE /\ ledger' = traded
             /\ feeOwed' = owed

(* _settlePendingPerformanceFeesIfReady, once the trade has moved the assets *)
(* (traded) and added to what is owed: the fee is paid in new shares as soon *)
(* as no position is open, unless it is worth less than one.                 *)
PayFee(traded, owed) ==
    LET shares == SharesFor(traded, owed)
    IN  IF openPositionCount' = 0 /\ owed > 0 /\ shares > 0
        THEN /\ ledger' = Mint(traded, config.feeRecipient, shares)
             /\ feeOwed' = 0
        ELSE /\ ledger' = traded
             /\ feeOwed' = owed

CanTrade(tokenIn, tokenOut) ==
    /\ ~config.paused
    /\ {tokenIn, tokenOut} \subseteq config.tokens
    /\ config.adapter

(* Mutant of SpendableAssets: the gas reserve is spent as well. *)
AllAssets == ledger.held

(* Assets set aside for gas are not for trading. *)
SpendableAssets == ledger.held - ledger.gasReserve

Buy(token, amountIn, amountOut) ==
    /\ CanTrade(Asset, token)
    /\ SpendableAssets >= amountIn
    /\ tokenBalance' = [tokenBalance EXCEPT ![token] = @ + amountOut]
    /\ Bought(token, amountIn, amountOut)
    /\ PayFee([ledger EXCEPT !.held = @ - amountIn], feeOwed)
    /\ UNCHANGED <<requests, config>>
    /\ WithinBounds'

Sell(token, amountIn, amountOut) ==
    /\ CanTrade(token, Asset)
    /\ tokenBalance[token] >= amountIn
    /\ tokenBalance' = [tokenBalance EXCEPT ![token] = @ - amountIn]
    /\ Sold(token, amountIn)
    /\ PayFee([ledger EXCEPT !.held = @ + amountOut],
              feeOwed + AccruedFee(token, amountIn, amountOut))
    /\ UNCHANGED <<requests, config>>
    /\ WithinBounds'

(* The path check also lets the asset be traded for itself: the adapter must *)
(* return amountOut more than it was given, and no inventory is recorded.    *)
RoundTrip(amountIn, amountOut) ==
    /\ CanTrade(Asset, Asset)
    /\ SpendableAssets >= amountIn
    /\ UNCHANGED <<tokenBalance, position, openPositionCount>>
    /\ PayFee([ledger EXCEPT !.held = @ + amountOut], feeOwed)
    /\ UNCHANGED <<requests, config>>
    /\ WithinBounds'

ExecuteTrade(amountIn, amountOut) ==
    \/ \E token \in Tokens : Buy(token, amountIn, amountOut)
    \/ \E token \in Tokens : Sell(token, amountIn, amountOut)
    \/ RoundTrip(amountIn, amountOut)

(* Anyone may send the vault asset or token units (external). *)
ReceiveAsset(amount) ==
    /\ ledger' = [ledger EXCEPT !.held = @ + amount]
    /\ UNCHANGED <<requests, inventory, config>>
    /\ WithinBounds'

ReceiveToken(token, amount) ==
    /\ tokenBalance' = [tokenBalance EXCEPT ![token] = @ + amount]
    /\ UNCHANGED <<ledger, requests, position, openPositionCount, feeOwed, config>>
    /\ WithinBounds'

---------------------------------------------------------------------------
(* Configuration: the owner's until it is frozen, but for the pause switch. *)

Configure(newConfig) ==
    /\ newConfig \in Configs
    /\ config' = newConfig
    /\ UNCHANGED <<ledger, requests, inventory>>

SetPaused(value) == Configure([config EXCEPT !.paused = value])

SetTokenAllowed(token, allowed) ==
    /\ ~config.frozen
    /\ Configure([config EXCEPT !.tokens =
                     IF allowed THEN @ \cup {token} ELSE @ \ {token}])

SetAdapterAllowed(allowed) ==
    ~config.frozen /\ Configure([config EXCEPT !.adapter = allowed])

SetPerformanceFeeBps(bps) ==
    ~config.frozen /\ Configure([config EXCEPT !.feeBps = bps])

SetPerformanceFeeRecipient(recipient) ==
    ~config.frozen /\ Configure([config EXCEPT !.feeRecipient = recipient])

SetGasFeeConfig(gas) ==
    /\ ~config.frozen
    /\ gas.bps > 0 => gas.wallet
    /\ Configure([config EXCEPT !.gas = gas])

SetGasReserveTarget(target) ==
    ~config.frozen /\ Configure([config EXCEPT !.gasTarget = target])

FreezeConfig ==
    ~config.frozen /\ Configure([config EXCEPT !.frozen = TRUE])

---------------------------------------------------------------------------
(* The owner who initializes the vault is some account. *)
Init ==
    /\ ledger = [held |-> 0, gasReserve |-> 0, totalSupply |-> 0,
                 balanceOf |-> [a \in Accounts |-> 0]]
    /\ requests = <<>>
    /\ tokenBalance = [t \in Tokens |-> 0]
    /\ position = [t \in Tokens |-> [quantity |-> 0, cost |-> 0]]
    /\ openPositionCount = 0
    /\ feeOwed = 0
    /\ \E owner \in Accounts :
          config = [paused |-> FALSE, frozen |-> FALSE, tokens |-> {Asset},
                    adapter |-> FALSE, feeBps |-> 0, feeRecipient |-> owner,
                    gas |-> [bps |-> 0, cap |-> 0, wallet |-> TRUE],
                    gasTarget |-> 0]

OwnerStep ==
    \/ \E b \in BOOLEAN : SetPaused(b) \/ SetAdapterAllowed(b)
    \/ \E t \in Tokens \cup {Asset}, b \in BOOLEAN : SetTokenAllowed(t, b)
    \/ \E bps \in FeeChoices : SetPerformanceFeeBps(bps)
    \/ \E a \in Accounts : SetPerformanceFeeRecipient(a)
    \/ \E gas \in GasChoices : SetGasFeeConfig(gas)
    \/ \E target \in TargetChoices : SetGasReserveTarget(target)
    \/ FreezeConfig
    \/ \E amount \in 0..MaxAssets : TopUpStrategyGas(amount)

ShareStep ==
    \/ \E a \in Accounts, n \in 1..MaxAssets : Deposit(a, n) \/ Withdraw(a, n)
    \/ \E a \in Accounts, n \in 1..MaxShares : Redeem(a, n)
    \/ \E ids \in Batches : SettleQueuedDeposits(ids)

QueueStep ==
    \/ \E o, r \in Accounts, n \in QueueAmounts : QueueDeposit(o, r, n)
    \/ \E a \in Accounts, id \in 1..MaxRequests : CancelQueuedDeposit(a, id)

TradeStep ==
    \E amountIn, amountOut \in 1..(MaxAssets + MaxTokens) :
        ExecuteTrade(amountIn, amountOut)

GiftStep ==
    \/ \E n \in 1..MaxAssets : ReceiveAsset(n)
    \/ \E t \in Tokens, n \in 1..MaxTokens : ReceiveToken(t, n)

Next == ShareStep \/ QueueStep \/ TradeStep \/ OwnerStep \/ GiftStep

Spec == Init /\ [][Next]_vars

---------------------------------------------------------------------------
LedgerType == [held : Nat, gasReserve : Nat, totalSupply : Nat,
               balanceOf : [Accounts -> Nat]]

RequestType == [owner : Accounts, receiver : Accounts, assets : Nat \ {0},
                status : {"pending", "settled", "cancelled"}]

ConfigType == [paused : BOOLEAN, frozen : BOOLEAN, tokens : SUBSET (Tokens \cup {Asset}),
               adapter : BOOLEAN, feeBps : 0..BPS_DENOMINATOR, feeRecipient : Accounts,
               gas : [bps : 0..BPS_DENOMINATOR, cap : Nat, wallet : BOOLEAN],
               gasTarget : Nat]

(* No subtraction of the vault goes below zero: every balance, share, cost and *)
(* count it keeps stays a natural number, as the checked arithmetic needs.     *)
TypeOK ==
    /\ ledger \in LedgerType
    /\ requests \in Seq(RequestType)
    /\ tokenBalance \in [Tokens -> Nat]
    /\ position \in [Tokens -> [quantity : Nat, cost : Nat]]
    /\ openPositionCount \in Nat
    /\ feeOwed \in Nat
    /\ config \in ConfigType

(* The gas reserve is always money the vault has (topUpStrategyGas can pay it). *)
ReserveHeld == ledger.gasReserve <= ledger.held

(* While no position is open, outstanding shares are worth something: the one- *)
(* to-one price for an empty vault is never used against existing holders.     *)
HoldersBacked == Flat /\ ledger.totalSupply > 0 => Managed(ledger) > 0

(* The counter that blocks share operations counts exactly the tokens with        *)
(* tracked inventory, which the vault holds, and inventory gone has no cost left. *)
PositionsTracked ==
    /\ openPositionCount = Cardinality({t \in Tokens : position[t].quantity > 0})
    /\ \A t \in Tokens : /\ position[t].quantity <= tokenBalance[t]
                         /\ position[t].quantity = 0 => position[t].cost = 0

(* The deposit, or a deposit of the batch, is too small for a share. *)
UnpricedDeposit ==
    \/ \E a \in Accounts, n \in 1..MaxAssets :
          Deposit(a, n) /\ RoundsToNothing(ledger, n)
    \/ \E ids \in Batches :
          /\ SettleQueuedDeposits(ids)
          /\ \E n \in 1..Len(ids) :
                /\ Unsettled(Settlement(ids)[n - 1], ids[n])
                /\ RoundsToNothing(Settlement(ids)[n - 1].ledger,
                                   requests[ids[n]].assets)

(* Assets per share fell, compared without rounding. *)
PriceFell ==
    /\ ledger.totalSupply > 0 /\ ledger'.totalSupply > 0
    /\ Managed(ledger') * ledger.totalSupply < Managed(ledger) * ledger'.totalSupply

(* Deposits, withdrawals, settled batches, gas top-ups and gifts never lower what *)
(* a share is worth: rounding favours those who stay.  Only trades do, which may  *)
(* lose money or pay the fee, and deposits too small for a share, which the code  *)
(* prices one to one.                                                             *)
SharePriceKept == [][PriceFell => TradeStep \/ UnpricedDeposit]_vars

(* Shares are only made or destroyed in a step that ends with no inventory, whose *)
(* value they would ignore.                                                       *)
SharesMoveWhenFlat ==
    [][ledger'.balanceOf # ledger.balanceOf =>
           \A t \in Tokens : position'[t].quantity = 0]_vars

Settling(id) == requests[id].status = "pending" /\ requests'[id].status = "settled"

(* A queued deposit leaves the queue once: settled or cancelled it never changes *)
(* again, and a batch takes in exactly the amounts of the requests it settles,   *)
(* however often it names them.                                                  *)
RequestsSettleOnce ==
    [][ LET settled == {id \in DOMAIN requests : Settling(id)}
        IN  /\ \A id \in DOMAIN requests :
                  requests[id].status # "pending" => requests'[id] = requests[id]
            /\ settled # {} =>
                  ledger'.held = ledger.held
                      + MapThenSumSet(LAMBDA id : requests[id].assets, settled) ]_vars

(* What a sale of token may charge, scaled by BPS_DENOMINATOR and the amount sold: *)
(* the fee on its proceeds over the cost of the inventory it closes.               *)
FeeAllowed(token) ==
    LET sold == tokenBalance[token] - tokenBalance'[token]
        matched == position[token].quantity - position'[token].quantity
        cost == position[token].cost - position'[token].cost
        profit == (ledger'.held - ledger.held) * matched - cost * sold
    IN  IF profit > 0 THEN config.feeBps * profit ELSE 0

(* The fee is charged on tracked profit only: neither what a sale adds to the fee   *)
(* owed, nor the worth of the shares it mints for it, exceeds the fee on its profit *)
(* over cost, whatever tokens the vault was given besides.                          *)
FeeOnTrackedProfit ==
    [][ \A t \in Tokens :
          LET sold == tokenBalance[t] - tokenBalance'[t]
              scale == BPS_DENOMINATOR * sold
              minted == ledger'.totalSupply - ledger.totalSupply
          IN  sold > 0 =>
                /\ (feeOwed' - feeOwed) * scale <= FeeAllowed(t)
                /\ ledger.totalSupply > 0 =>
                      minted * Managed(ledger') * scale
                          <= ledger.totalSupply * (feeOwed * scale + FeeAllowed(t)) ]_vars
=============================================================================
