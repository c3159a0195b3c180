SPECIFICATION Spec
CONSTANTS
    main = main
    worker1 = worker1
    worker2 = worker2
    Threads <- OnlyMain
    Interruptible <- OnlyMain
    SeedLen = 2
INVARIANT ClosedForgetsSecret
