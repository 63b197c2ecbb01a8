CONSTANTS
    t1 = t1
    t2 = t2
    c1 = c1
    c2 = c2
    c3 = c3
    None = None
    Workers <- Two
    Nobody = None
    Threads <- Two
    Types <- ThreeTypes
    Plain <- OnePlain
    MaxTouches = 2
    MaxStops = 1
SPECIFICATION RunSpec
CHECK_DEADLOCK FALSE
INVARIANTS
    OneInitializer
    WaitGraphAcyclic
    NoCircularWait
PROPERTIES
    
    AccessEnds
    WorldStops
