CONSTANTS
    Backends <- AllBackends
    MaxSize = 5
    Limit = 2
SPECIFICATION Spec
CHECK_DEADLOCK FALSE
INVARIANTS
    OkMeansFull
    ShadowExact
    NothingRedrawn
    IInv
PROPERTY EveryAnswerCounts
