CONSTANTS
    v1 = v1
    v2 = v2
    i1 = i1
    i2 = i2
    Intents <- MCIntents
    Verifiers <- MCVerifiers
    Nonces = {1, 2}
    Snapshots = {s1}
    SnapshotBooks = {b1}
    Terms <- MCTerms
    WeightChoices = {1, 2}
    ThresholdChoices = {2, 3}
    MaxUint = 3
    MaxTime = 2
    Unset = Unset
    Routes <- MCRoutes
    NoRoute = NoRoute
    Amounts = {1, 2}
SPECIFICATION Spec
SYMMETRY Symmetry
INVARIANTS
    TypeOK
    ApprovalIsQuorum
    NonceBacksOneIntent
    SettledAtMostOnce
    TradeBackedByQuorum
PROPERTIES
    ApprovedIsFinal
    FrozenQuorumIsSettled
    ImplementsLifecycle
CHECK_DEADLOCK FALSE
