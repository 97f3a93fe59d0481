CONSTANTS
    t1 = t1
    t2 = t2
    t3 = t3
    t4 = t4
    Targets <- AllTargets
    Threads <- TwoThreads
    NetbsdThreads <- ThreeThreads
    VxworksThreads <- FourThreads
    Capacity = 2
    MaxHandles = 3
SPECIFICATION SSpec
INVARIANTS
    DefaultAsDocumented
    FlagObeyed
    OnlyAnswering
    NoneMissed
PROPERTIES
    NothingFoundAfterExit
    ImplementsLazyCache
    NetbsdImplementsLazyCache
    VxworksImplementsLazyCache
