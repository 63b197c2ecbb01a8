SPECIFICATION EngineSpec
CONSTANTS
    Programs <- AllPrograms
    Cells = 7
    Chunk = 2
    Batch = 3
    PollInterval = 2
    MaxStops = 2
    MaxFinalizers = 2
    Nothing = Nothing
    Methods <- AllMethods
    Entries = {"main", "outer"}
    Cctors = {"cctor"}
    Rows <- AllRows
    Code <- AllCode
    Exceptions <- MCExceptions
    TypeOf <- MCTypeOf
    Bases <- MCBases
    TypeInit <- MCTypeInit
    NullRef = "null"
    a1 = a1
    a2 = a2
    o1 = o1
    o2 = o2
    o3 = o3
    Arenas <- TwoArenas
    Objects <- ThreeObjects
    Owner <- OwnerOfThree
    MaxRefs = 1
    MaxRoots = 1
    MaxQueued = 1
    MaxStale = 1
CHECK_DEADLOCK FALSE
INVARIANTS
    InterruptionsUnseen
    
    NothingReachableFreed
    GarbageFreed
PROPERTIES
    Responsive
    HandlersInOrder
    HandlingEnds
    CollectionEnds
