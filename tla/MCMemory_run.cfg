CONSTANTS
    HalfBits = 7
    Statics = {T1, T2}
    Registered = T2
    HeapAddrs = {8}
    RemoteAddr = 24
    PayloadLen = 1
    HomeLen = 1
    Deltas = {1, 126}
    Offsets = {1, 127, 16383}
    Sizes = {0, 1, 2}
    FirstSerials = {127}
    MaxFrames = 2
    MaxEvents = 3
    CacheCapacity = 1
    Addresses = {16383}
    ByteBits = 1
    Operands <- MCOperands
    Objects = {o1, o2}
    Foreign = {o2}
    NoObject = none
    WordSize = 2
    Base = 2
    Storages <- MCStorages
    Shapes <- MCShapes
    ByRefHomes = {0}
    Users = {u1, u2}
    AtomicTypes = {"Boolean", "Int8", "Char", "Int16", "UInt32", "Int64", "NativeInt", "Object"}
    ObjectAddrs = {40}
    MaxAtomicOps = 3
    ObjectBase = 40
    Natives = {0, 16, 250}
    ElementSizes = {1, 4}
    Strides <- MCStrides
    MaxMoves = 3
    ElementSize = 2
    Contents <- MCContents
    BlobPadding = 1
    Arguments <- MCArguments
    ElementValues = {3}
    MaxSpanOps = 3
SPECIFICATION Spec
INVARIANTS
    ReferencesSound
    
    
CHECK_DEADLOCK FALSE
