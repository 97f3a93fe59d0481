CONSTANTS
    t1 = t1
    t2 = t2
    Threads <- TwoThreads
    Cpus <- AllKinds
    TargetFeatures = {TRUE}
    MaxWords = 2
    RETRY_LIMIT = 2
    TestDraws = 3
    TestFails = 1
SPECIFICATION Spec
PROPERTY VerdictIsFinal
