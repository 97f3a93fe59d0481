CONSTANTS
    main = main
    second = second
    Threads <- TwoThreads
    Hosts <- NoneOrOneHandler
    Fds = {3, 4}
    MaxLen = 2
    Linux = TRUE
SPECIFICATION MCSpec
INVARIANT OneOrphanAtMost
PROPERTIES
    HangsOnlyIfAbandoned
    AbandonmentIsFinal
