SPECIFICATION FairSpec
CONSTANTS
    main = main
    worker = worker
    host = host
    Threads <- MCThreads
    Workers <- MCWorkers
    None = None
    MaxThreadId = 2
    HostIds <- MCHostIds
    Fast <- MCFast
    MaxToken = 3
    MaxLeases = 1
INVARIANTS
    RegistrySound
PROPERTIES
    WaitsEnd
    TeardownIsExact
CHECK_DEADLOCK FALSE
