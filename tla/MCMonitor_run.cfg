CONSTANTS
    t1 = t1
    t2 = t2
    o1 = o1
    None = None
    Threads <- Two
    Objects <- OneObject
    Fresh <- OneObject
    Racing = FALSE
    Kinds <- AllKinds
    MaxCalls = 2
    MaxNesting = 2
    MaxStops = 2
SPECIFICATION FairSpec
CHECK_DEADLOCK FALSE
INVARIANTS
    InfiniteNeverTimesOut
PROPERTIES
    
    WorldStops
    EnterReturns
