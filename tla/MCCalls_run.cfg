SPECIFICATION RunSpec
CONSTANTS
    Method <- MCMethod
    Args <- MCArgs
    Locals <- MCLocals
    Returns <- MCReturns
    Homed <- MCHomed
    Lazy <- MCLazy
    Intrinsic <- MCIntrinsic
    Constants <- MCConstants
    Entry = "main"
    Cctor = "cctor"
    Finalizer = "fin"
    Invoke = "invoke"
    Code <- MCCode
    FrameLimit = 3
    MaxOperands = 2
    MaxFrames = 4
    MaxSerial = 2
    MaxFinalizers = 1
    Situations = {}
    Receivers = {o1}
    NoReceiver = null
    MethodIndexes = {1}
    MaxDelegates = 4
    Threads = {"p", "q"}
    HeapObjects = {"x", "y"}
    OwnerOf <- MCOwner
    PayloadSize = 9
    StructSize = 3
    Installed <- MCInstalled
    Programs <- MCPrograms
INVARIANTS
    FramesSound
    
