CONSTANTS
    t1 = t1
    t2 = t2
    b1 = b1
    c1 = c1
    c2 = c2
    p1 = p1
    Ticks <- MCTicks
    Bots = {b1}
    Claims <- MCClaims
    Participants = {p1}
    Author <- MCAuthor
    MinClaims = 1
    MaxClaims = 2
    MaxEpoch = 2
SPECIFICATION Spec
SYMMETRY Symmetry
INVARIANTS
    TypeOK
    StateFinalizedOnChain
    EpochsFollowFinality
    AnnouncedOnce
    CountedClaimsHeard
PROPERTIES
    ImplementsRounds
CHECK_DEADLOCK FALSE
