SPECIFICATION FairSpec
CONSTANTS
    main = main
    worker1 = worker1
    worker2 = worker2
    Threads <- MainAndWorkers
    Interruptible <- OnlyMain
    SeedLen = 2
INVARIANTS
    TypeOK
    ClosedMeansZeroized
    RefusesAfterClose
    GenuineUnlessClosing
PROPERTIES
    CloseCompletes
    CopiesDieOut
    KeepsCustody
