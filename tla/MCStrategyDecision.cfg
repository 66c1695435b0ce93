CONSTANTS
    a = a
    b = b
    Tokens <- MCTokens
    Targets <- MCTargets
    Stale <- MCStale
    Pools <- MCPools
    Reports <- MCReports
    CashChoices = {6}
    HandMade <- MCHandMade
    MaxNotional = 6
    MaxSlippageBps = 500
    MaxImpactBps = 1000
    TakeProfitBps = 2000
    StopLossBps = 600
    Ttl = 1
    MaxCash = 9
    MaxQuantity = 3
    MaxIntents = 1
SPECIFICATION Spec
CONSTRAINT OneThing
CHECK_DEADLOCK FALSE
INVARIANTS
    ProposalExecutable
    DryRunAgrees
    RebalanceKeepsTarget
