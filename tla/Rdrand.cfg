CONSTANTS
    t1 = t1
    t2 = t2
    Threads <- TwoThreads
    Cpus <- AllKinds
    TargetFeatures = {TRUE, FALSE}
    MaxWords = 2
    RETRY_LIMIT = 2
    TestDraws = 8
    TestFails = 2
SPECIFICATION Spec
INVARIANTS
    NoBrokenWords
    RInv
PROPERTY CallsEnd
