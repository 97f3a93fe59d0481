CONSTANTS
    t1 = t1
    t2 = t2
    t3 = t3
    Threads <- TwoThreads
    Fds = {3, 4}
    MaxLen = 1
    Linux = TRUE
SPECIFICATION Spec
INVARIANT WaitAssertion
