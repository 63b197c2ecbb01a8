CONSTANTS
    t1 = t1
    t2 = t2
    Thread <- MCThread
    Universes <- MCUniverses
    Requests <- MCRequests
    Calls <- MCCalls
    StaticCalls <- MCStaticCalls
    Casts <- MCCasts
    Types <- MCCastTypes
    Capacity = 1
    FrontCapacity = 1
SYMMETRY ThreadSymmetry
SPECIFICATION Spec
INVARIANTS
    
    CachesSound
    
CHECK_DEADLOCK FALSE
