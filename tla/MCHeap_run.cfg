SPECIFICATION FairSpec
CONSTANTS
    Object = {o1, o2}
    Finalizable = {o1}
    Null = Null
    Kinds = {"Weak", "WeakTrackResurrection", "Pinned"}
    MaxHandles = 1
    MaxCollections = 2
 
PROPERTIES HandlesClearedOnDeath FinalizersRun
CHECK_DEADLOCK FALSE
