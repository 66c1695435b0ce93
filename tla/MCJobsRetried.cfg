SPECIFICATION FairSpec
CONSTANTS
    a = a
    b = b
    c = c
    r1 = r1
    r2 = r2
    s1 = s1
    x1 = x1
    Verifiers <- mcTwoVerifiers
    Requests <- mcOneRequest
    Signers <- mcSigners
    Executors <- mcExecutors
    Weight <- mcTwoWeights
    Threshold = 2
PROPERTIES
    FailedIsRetried
CHECK_DEADLOCK FALSE
