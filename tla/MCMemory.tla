------------------------------ MODULE MCMemory ------------------------------
(* Small instances of Pointers, Values, Memory, Atomics, UnsafeOps and Spans, one of them in each behaviour. *)
EXTENDS Pointers, Atomics, UnsafeOps, Spans, Memory

VARIABLE
    part         \* the module this behaviour is one of

MCOperands ==
    {IntOf("Int32", n) : n \in {-8, -7, -1, 0, 1, 2, 7}}
    \cup {IntOf("Int64", n) : n \in {-128, -127, -1, 0, 1, 5, 127}}
    \cup {IntOf("NativeInt", n) : n \in {-128, -1, 0, 1, 9, 127}}
    \cup {Float(h) : h \in {NaN, Infinity, -Infinity, 0, 1, 15, -17, 255, 256, 512}}
    \cup {ObjectRef(0), ObjectRef(40), UnmanagedPtr(1), UnmanagedPtr(200), ManagedPtr(100, 3),
          EnumValue("Int8", -1), EnumValue("UInt32", 9)}

Mixed == Struct({PartAt(0, Leaf("ObjectRef")), PartAt(2, Leaf("Int8")), PartAt(3, Leaf("Int8"))}, 4)
Inner == Struct({PartAt(0, Leaf("NativeInt")), PartAt(2, Leaf("ObjectRef"))}, 4)
MCStorages ==
    [Heap |-> {Array(Mixed, 1), Array(Leaf("ObjectRef"), 3),
               Struct({PartAt(0, Leaf("Int8")), PartAt(2, Array(Leaf("ObjectRef"), 2))}, 6)},
     CrossArena |-> {Inner},
     FrameHome |-> {Struct({PartAt(0, Leaf("ManagedPtr")), PartAt(6, Leaf("Int8"))}, 7)},
     Static |-> {Mixed},
     Transient |-> {Mixed},
     Unmanaged |-> {Mixed}]
MCShapes ==
    {Leaf("Int8"), Leaf("NativeInt"), Leaf("ObjectRef"), Leaf("ManagedPtr"), Mixed,
     Array(Leaf("ObjectRef"), 2), Struct({PartAt(0, Leaf("Int8")), PartAt(1, Leaf("Int8"))}, 2)}

MCContents ==
    [array |-> {<<1, 2, 1>>, <<2, 1>>}, text |-> {<<1, 2>>}, home |-> {<<1>>},
     native |-> {<<2, 1>>}, blob |-> {<<1, 2>>}]
MCArguments == {-1, 0, 1, 2}

MCStrides == {-2, 1, 3, 127}

NoPointers ==
    /\ frames = "" /\ serial = "" /\ heap = "" /\ objects = "" /\ token = ""
    /\ tokens = "" /\ events = "" /\ dedup = "" /\ cache = ""
    /\ held = "" /\ slot = "" /\ meant = ""
NoValues == x = "" /\ y = "" /\ last = ""
NoAtomics ==
    /\ site = "" /\ cell = "" /\ seen = "" /\ crashed = ""
    /\ heard = "" /\ told = "" /\ ops = ""
NoUnsafe == at = "" /\ from = "" /\ trail = "" /\ esize = "" /\ moves = ""
NoSpans ==
    /\ store = "" /\ returned = "" /\ spans = "" /\ item = "" /\ outcome = ""
    /\ intended = "" /\ views = "" /\ itemView = "" /\ spanOps = ""
NoMemory == origin = "" /\ place = "" /\ mem = "" /\ present = "" /\ recorded = ""

NoneBut(p) ==
    /\ p # "pointers" => NoPointers
    /\ p # "values" => NoValues
    /\ p # "memory" => NoMemory
    /\ p # "atomics" => NoAtomics
    /\ p # "unsafe" => NoUnsafe
    /\ p # "spans" => NoSpans

Init ==
    \/ part = "pointers" /\ PointersInit /\ NoneBut(part)
    \/ part = "values" /\ ValuesInit /\ NoneBut(part)
    \/ part = "memory" /\ MemoryInit /\ NoneBut(part)
    \/ part = "atomics" /\ AtomicsInit /\ NoneBut(part)
    \/ part = "unsafe" /\ UnsafeInit /\ NoneBut(part)
    \/ part = "spans" /\ SpansInit /\ NoneBut(part)
Next ==
    /\ \/ /\ part = "pointers" /\ PointersNext
          /\ UNCHANGED <<valueVars, memoryVars, atomicVars, unsafeVars, spanVars>>
       \/ /\ part = "values" /\ ValuesNext
          /\ UNCHANGED <<pointerVars, memoryVars, atomicVars, unsafeVars, spanVars>>
       \/ /\ part = "memory" /\ MemoryNext
          /\ UNCHANGED <<pointerVars, valueVars, atomicVars, unsafeVars, spanVars>>
       \/ /\ part = "atomics" /\ AtomicsNext
          /\ UNCHANGED <<pointerVars, valueVars, memoryVars, unsafeVars, spanVars>>
       \/ /\ part = "unsafe" /\ UnsafeNext
          /\ UNCHANGED <<pointerVars, valueVars, memoryVars, atomicVars, spanVars>>
       \/ /\ part = "spans" /\ SpansNext
          /\ UNCHANGED <<pointerVars, valueVars, memoryVars, atomicVars, unsafeVars>>
    /\ UNCHANGED part
Spec == Init /\ [][Next]_<<part, pointerVars, valueVars, memoryVars, atomicVars, unsafeVars, spanVars>>

(* What a stored managed pointer is read back as, and what an access through one may touch
   (PointersSound of Pointers: ManagedPtr::write, read and with_data). *)
StoredPointersSound == part = "pointers" => PointersSound
(* The arithmetic and comparison instructions obey the laws of the numbers they stand for
   (ArithmeticLaws of Values: stack_value.rs). *)
ArithmeticLawful == part = "values" => ArithmeticLaws
(* A conversion keeps the number, or truncates it as its type says, or reports the overflow
   (ConversionsExact of Values: conversions.rs, cts_cli_conversion.rs). *)
ConversionsFaithful == part = "values" => ConversionsExact
(* No access through raw memory tears a reference or reads one that is not there
   (MemorySound of Memory: RawMemoryAccess). *)
ReferencesStayWhole == part = "memory" => MemorySound
(* Every reference to another arena's object that a write leaves in an object is recorded
   (ForeignRecorded of Memory: WriteBarrierRecorder and its callers). *)
ForeignReferencesRecorded == part = "memory" => ForeignRecorded
(* A shared location holds what the results of the operations on it imply, and the results
   and refusals are the ones its type and alignment call for
   (AtomicsSound of Atomics: interlocked.rs, volatile.rs). *)
AtomicsLinear == part = "atomics" => AtomicsSound
(* A pointer moved and converted by the Unsafe methods stays where its moves put it
   (UnsafeSound of UnsafeOps: unsafe_ptr.rs). *)
UnsafeLawful == part = "unsafe" => UnsafeSound
(* A span denotes the elements asked for, and copies and comparisons treat them as such
   (SpansSound of Spans: dotnet-intrinsics-span). *)
SpansLawful == part = "spans" => SpansSound

(* A reference or a managed pointer comes out of memory as it went in, or not at all, and one
   to another arena is in the recorder (ManagedPtr, RawMemoryAccess, WriteBarrierRecorder). *)
ReferencesSound == StoredPointersSound /\ ReferencesStayWhole /\ ForeignReferencesRecorded

(* The CIL operators compute what the standard says at their width, the overflow and the
   saturating cases included, and pointers made by Unsafe and spans stay those of the storage
   they were made for, through every sequence of moves, slices and copies (stack_value.rs,
   conversions.rs, unsafe_ptr.rs, dotnet-intrinsics-span). *)
OperationsLawful ==
    ArithmeticLawful /\ ConversionsFaithful /\ UnsafeLawful /\ SpansLawful
=============================================================================
