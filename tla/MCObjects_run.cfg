CONSTANTS
    t1 = t1
    t2 = t2
    Thread <- MCThread
    Universes <- MCUniverses
    Menu <- MCMenu
    Roots <- MCRoots
    Queries <- MCQueries
    CaseVariants <- MCCaseVariants
    MaxObjects = 2
    MaxStack <- MCMaxStack
    MaxMirrors = 3
    IndexBits = 16
SYMMETRY ThreadSymmetry
SPECIFICATION Spec
INVARIANTS
    ValuesSurvive
    
    QueriesLawful
CHECK_DEADLOCK FALSE
