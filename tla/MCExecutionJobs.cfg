SPECIFICATION Spec
CONSTANTS
    a = a
    b = b
    c = c
    r1 = r1
    r2 = r2
    s1 = s1
    x1 = x1
    Verifiers <- mcVerifiers
    Requests <- mcRequests
    Signers <- mcSigners
    Executors <- mcExecutors
    Weight <- mcWeight
    Threshold = 2
SYMMETRY Symmetry
CONSTRAINT Overlap
INVARIANTS
    TypeOK
    WeightCountedOnce
    QuorumNoticed
PROPERTIES
    NeverDemoted
    ImplementsRelay
CHECK_DEADLOCK FALSE
