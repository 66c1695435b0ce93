CONSTANTS
    alice = alice
    bob = bob
    meme = meme
    alt = alt
    wmon = wmon
    Accounts <- MCAccounts
    Tokens <- MCTokens
    Asset <- wmon
    FeeChoices = {5000}
    GasChoices <- MCGasChoices
    TargetChoices = {1}
    Configs <- AllConfigs
    QueueAmounts = {1, 2}
    Batches <- MCBatches
    MaxAssets = 4
    MaxShares = 5
    MaxTokens = 2
    MaxCost = 3
    MaxRequests = 2
SPECIFICATION Spec
CONSTRAINT QueueBeforeTrading
SYMMETRY TokenSymmetry
INVARIANTS
    TypeOK
    ReserveHeld
    HoldersBacked
    PositionsTracked
PROPERTIES
    SharePriceKept
    SharesMoveWhenFlat
    FeeOnTrackedProfit
    RequestsSettleOnce
CHECK_DEADLOCK FALSE
