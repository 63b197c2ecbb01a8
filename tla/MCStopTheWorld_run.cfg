CONSTANTS
    t1 = t1
    t2 = t2
    t3 = t3
    None = None
    Threads <- ThreeThreads
    Faulty <- OneFaulty
    MaxCollections = 2
    MaxRounds = 1
SPECIFICATION FairSpec
CHECK_DEADLOCK FALSE
INVARIANTS
    CoordinatorAssertions
    MarkedBeforeSweep
    MarkedThreadsStayParked
    CounterCoversParked
PROPERTIES
    CollectionCompletes
