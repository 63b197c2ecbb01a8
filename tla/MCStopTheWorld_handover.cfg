\* Two collections back to back: the second one need not complete.
CONSTANTS
    t1 = t1
    t2 = t2
    t3 = t3
    None = None
    Threads <- TwoThreads
    Faulty = {}
    MaxCollections = 2
    MaxRounds = 0
SPECIFICATION FairSpec
CHECK_DEADLOCK FALSE
PROPERTIES
    NextCollectionCompletes
