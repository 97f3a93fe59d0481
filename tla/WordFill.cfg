CONSTANTS
    Backends <- AllBackends
    MaxSize = 23
SPECIFICATION Spec
CHECK_DEADLOCK FALSE
INVARIANTS
    OkMeansFresh
    IInv
PROPERTY WordStoresAligned
