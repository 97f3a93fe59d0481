CONSTANTS
    t1 = t1
    t2 = t2
    t3 = t3
    Threads <- ThreeThreads
    Fds = {3, 4}
    MaxLen = 1
    Linux = FALSE
SPECIFICATION Spec
PROPERTY ImplementsSharedFile
