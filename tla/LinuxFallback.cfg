CONSTANTS
    t1 = t1
    t2 = t2
    Threads <- TwoThreads
    Fds = {3}
    MaxLen = 1
    Linux = TRUE
    Builds <- AllBuilds
    Policies = {"ok", "ENOSYS", "EPERM"}
SPECIFICATION LSpec
INVARIANTS
    OkAfterSeeding
    FallbackJustified
    RefusalIsCaught
    LIInv
PROPERTIES
    LazilyCached
    CacheSettles
