CONSTANTS
    t1 = t1
    t2 = t2
    t3 = t3
    Threads <- ThreeThreads
    Fds = {3, 4}
    MaxLen = 1
    Linux = TRUE
SPECIFICATION Spec
SYMMETRY Interchangeable
CHECK_DEADLOCK TRUE
INVARIANTS
    SingleOpener
    NoFdLeak
    ReadersSynchronised
    NoLostWakeup
    IInv
PROPERTIES
    FDStable
    SafelyShared
