------------------------------- MODULE Memory -------------------------------
(***************************************************************************)
(* Typed access to raw storage: the loads, stores, byte copies and atomic  *)
(* operations a managed pointer leads to.  RawMemoryOps picks the storage  *)
(* of the pointer's origin (an object of this arena or of another one, a   *)
(* static field block, a frame home, a transient value, native memory),    *)
(* and RawMemoryAccess checks bounds and the integrity of references.      *)
(*                                                                         *)
(* A storage is a sequence of bytes.  A byte is a number below Base or one *)
(* part of a stored reference, so a torn reference is visible.  A machine  *)
(* word is WordSize bytes (8 in the code).  Layouts are trees, as          *)
(* LayoutManager builds them.                                              *)
(***************************************************************************)
EXTENDS Integers, Sequences, FiniteSets

CONSTANTS
    WordSize,      \* bytes of an ObjectRef, of a NativeInt (8)
    Base,          \* number of values of a byte (256)
    Objects,       \* the objects a reference may name
    Foreign,       \* those of them in another arena than the storage
    NoObject,      \* marks a byte that belongs to no reference
    Storages,      \* [origin -> the layouts its storage may have]
    Shapes,        \* the layouts accesses are made with
    ByRefHomes     \* offsets of byref variables in the frame home

VARIABLES
    origin,        \* the origin of the pointers followed here
    place,         \* the layout of the storage they lead to
    mem,           \* its bytes
    present,       \* its arena is registered, its frame is live
    recorded       \* foreign objects the write barrier has recorded

memoryVars == <<origin, place, mem, present, recorded>>

(***************************************************************************)
(* Layouts.                                                                *)
(***************************************************************************)
Leaf(kind) == [leaf |-> kind]
Struct(fields, size) == [fields |-> fields, size |-> size]
PartAt(offset, layout) == [at |-> offset, layout |-> layout]
Array(element, count) == [element |-> element, count |-> count]

IsLeaf(l) == "leaf" \in DOMAIN l
IsStruct(l) == "fields" \in DOMAIN l

LeafSize(kind) ==
    CASE kind = "Int8" -> 1
      [] kind \in {"NativeInt", "ObjectRef"} -> WordSize
      [] kind = "ManagedPtr" -> 3 * WordSize

RECURSIVE Size(_)
Size(l) ==
    IF IsLeaf(l) THEN LeafSize(l.leaf)
    ELSE IF IsStruct(l) THEN l.size
    ELSE l.count * Size(l.element)

IsRefKind(kind) == kind \in {"ObjectRef", "ManagedPtr"}

\* The offsets at which a layout holds a reference.
RECURSIVE RefsOf(_)
RefsOf(l) ==
    IF IsLeaf(l) THEN IF IsRefKind(l.leaf) THEN {0} ELSE {}
    ELSE IF IsStruct(l)
    THEN UNION {{f.at + r : r \in RefsOf(f.layout)} : f \in l.fields}
    ELSE UNION {{i * Size(l.element) + r : r \in RefsOf(l.element)} :
                i \in 0 .. l.count - 1}

\* has_ref_at: whether a reference starts at this offset.
RECURSIVE HasRefAt(_, _)
HasRefAt(l, offset) ==
    IF IsLeaf(l) THEN offset = 0 /\ IsRefKind(l.leaf)
    ELSE IF IsStruct(l)
    THEN \E f \in l.fields :
            /\ offset \in f.at .. f.at + Size(f.layout) - 1
            /\ HasRefAt(f.layout, offset - f.at)
    ELSE /\ Size(l.element) > 0
         /\ offset \div Size(l.element) < l.count
         /\ HasRefAt(l.element, offset % Size(l.element))

\* check_read_safety: the references of the layout read are references of the
\* layout they are read from, and word aligned.
CheckReadSafety(l, from, offset) ==
    IF \E r \in RefsOf(l) : ~HasRefAt(from, offset + r) THEN "TypeMismatch"
    ELSE IF \E r \in RefsOf(l) : (offset + r) % WordSize # 0 THEN "UnalignedAccess"
    ELSE "Ok"

\* validate_ref_integrity over the bytes start .. end - 1 of a destination whose
\* layout begins at base: only the elements of an array the range touches are
\* visited, a reference is overwritten as a whole and by a reference.
Intersects(start, end, from, size) == from < end /\ from + size > start

RefVerdict(at, start, end, src) ==
    IF ~Intersects(start, end, at, WordSize) THEN "Ok"
    ELSE IF at < start \/ at + WordSize > end THEN "TypeMismatch"
    ELSE IF ~HasRefAt(src, at - start) THEN "TypeMismatch"
    ELSE IF at % WordSize # 0 THEN "UnalignedAccess"
    ELSE "Ok"

Elements(start, end, base, size, count) ==
    LET from == IF start > base THEN start - base ELSE 0
        to == IF end > base THEN end - base ELSE 0
        beyond == (to + size - 1) \div size
    IN  from \div size .. (IF beyond < count THEN beyond ELSE count) - 1

\* The first error met, or "Ok" (the code stops at the first, in field order).
Verdict(verdicts) ==
    IF verdicts \subseteq {"Ok"} THEN "Ok" ELSE CHOOSE v \in verdicts : v # "Ok"

RECURSIVE ValidateRefIntegrity(_, _, _, _, _)
ValidateRefIntegrity(dest, base, start, end, src) ==
    IF IsLeaf(dest)
    THEN IF IsRefKind(dest.leaf) THEN RefVerdict(base, start, end, src) ELSE "Ok"
    ELSE IF IsStruct(dest)
    THEN Verdict({ValidateRefIntegrity(f.layout, base + f.at, start, end, src) :
                  f \in {g \in dest.fields :
                         Intersects(start, end, base + g.at, Size(g.layout))}})
    ELSE IF Size(dest.element) = 0 THEN "Ok"
    ELSE Verdict({ValidateRefIntegrity(dest.element, base + (i * Size(dest.element)),
                                       start, end, src) :
                  i \in Elements(start, end, base, Size(dest.element), dest.count)})

(***************************************************************************)
(* Bytes and values.  A value of the evaluation stack has a kind and the   *)
(* bytes it stores; a reference is WordSize parts that belong together.    *)
(***************************************************************************)
Byte(v) == [of |-> NoObject, val |-> v]
Zeros(n) == [i \in 1 .. n |-> Byte(0)]
Parts(o, n) == [i \in 1 .. n |-> [of |-> o, val |-> i]]

Value(is, bytes) == [is |-> is, bytes |-> bytes]
NullRef == Value("ObjectRef", Zeros(WordSize))
Ref(o) == Value("ObjectRef", Parts(o, WordSize))
Pointer(o) == Value("ManagedPtr", Parts(o, 3 * WordSize))
TransientPointer == Value("TransientPtr", Zeros(3 * WordSize))
Small(v) == Value("Int32", [i \in 1 .. WordSize |-> Byte(v)])
WordOf(v) == Value("NativeInt", [i \in 1 .. WordSize |-> Byte(v)])

StackKindOf(kind) == IF kind = "Int8" THEN "Int32" ELSE kind

Whole(bytes) ==
    \/ bytes = Zeros(Len(bytes))
    \/ \E o \in Objects : bytes = Parts(o, Len(bytes))

\* A value type on the stack: the zeroed instance with its references set.
Instance(l, o) ==
    Value("ValueType",
          [i \in 1 .. Size(l) |->
             IF \E r \in RefsOf(l) : i - 1 \in r .. r + WordSize - 1
             THEN LET r == CHOOSE r \in RefsOf(l) : i - 1 \in r .. r + WordSize - 1
                  IN  Parts(o, WordSize)[i - r]
             ELSE Byte(1)])

\* write_value_internal: what a value stores into a slot of this layout, or
\* why it is refused.  An array is never stored through a pointer.
Ok(bytes) == [bytes |-> bytes]
Rejected(why) == [refused |-> why]
IsRejected(r) == "refused" \in DOMAIN r

Encoded(value, l) ==
    LET stored == Ok(SubSeq(value.bytes, 1, Size(l)))
        mismatch == Rejected("TypeMismatch")
    IN  IF IsLeaf(l) THEN
            CASE l.leaf = "Int8" ->
                    IF value.is = "Int32" THEN stored ELSE mismatch
              [] l.leaf = "NativeInt" ->
                    IF value.is = "NativeInt" THEN stored ELSE mismatch
              [] l.leaf = "ObjectRef" ->
                    IF value.is = "ObjectRef" THEN stored ELSE mismatch
              [] l.leaf = "ManagedPtr" ->
                    IF value.is = "TransientPtr" THEN Rejected("InvalidOrigin")
                    ELSE IF value.is = "ManagedPtr" THEN stored ELSE mismatch
        ELSE IF IsStruct(l) /\ value.is = "ValueType" /\ Len(value.bytes) = Size(l)
        THEN stored ELSE mismatch

(***************************************************************************)
(* The storage.                                                            *)
(***************************************************************************)
HeapLike == {"Heap", "CrossArena"}

\* MemoryOwner::with_data takes a lease on another arena's object and fails
\* once the arena is gone; frame_home_window fails once the frame is gone.
Absent == IF origin = "FrameHome" THEN "InvalidOrigin" ELSE "CrossArenaViolation"

\* Whether an access of size bytes at an offset of the storage is possible.
Ranged(offset, size) ==
    IF ~present THEN Absent
    ELSE IF offset + size > Len(mem) THEN "BoundsCheck"
    ELSE "Ok"

\* Integer atomics on static and transient storage, and every access to native
\* memory, leave the range to the caller.
CallerRanged(atomic) ==
    \/ origin = "Unmanaged"
    \/ atomic /\ origin \in {"Static", "Transient"}

Addressable(offset, size, atomic) ==
    CallerRanged(atomic) => offset + size <= Len(mem)

Slice(offset, size) == SubSeq(mem, offset + 1, offset + size)

Patched(offset, new) ==
    [i \in 1 .. Len(mem) |->
       IF i - offset \in 1 .. Len(new) THEN new[i - offset] ELSE mem[i]]

\* A native-int access that hits a byref variable of a frame home moves the
\* whole managed pointer.
AccessLayout(offset, l) ==
    IF origin = "FrameHome" /\ l = Leaf("NativeInt") /\ offset \in ByRefHomes
    THEN Leaf("ManagedPtr") ELSE l

\* Whether offset is the place of a variable of this layout.
WellTyped(offset, l) ==
    /\ offset + Size(l) <= Size(place)
    /\ \A r \in RefsOf(place) :
          Intersects(offset, offset + Size(l), r, WordSize) => r - offset \in RefsOf(l)
    /\ \A r \in RefsOf(l) : offset + r \in RefsOf(place)

(***************************************************************************)
(* Accesses.  Each has the answer it gives, as an operator, and the action  *)
(* that gives it.                                                          *)
(***************************************************************************)
CheckedAccess(verdict, answer) == IF verdict = "Ok" THEN answer ELSE Rejected(verdict)

\* RawMemoryAccess::check_integrity: only an object has references to protect.
CheckIntegrity(offset, into) ==
    IF origin \in HeapLike
    THEN ValidateRefIntegrity(place, 0, offset, offset + Size(into), into) ELSE "Ok"

\* RawMemoryAccess::write_unaligned: presence and bounds, then the integrity of
\* the references it covers, then the encoding of the value.
Written(offset, value, into) ==
    LET ranged == Ranged(offset, Size(into))
    IN  IF ranged # "Ok" THEN Rejected(ranged)
        ELSE CheckedAccess(CheckIntegrity(offset, into), Encoded(value, into))

WriteAnswer(offset, value, l) == Written(offset, value, AccessLayout(offset, l))

\* RawMemoryAccess::read_unaligned: an object gives references only from its
\* reference slots.
ReadValue(offset, from) ==
    LET ranged == Ranged(offset, Size(from))
        safe == IF origin \in HeapLike THEN CheckReadSafety(from, place, offset) ELSE "Ok"
    IN  IF ranged # "Ok" THEN Rejected(ranged)
        ELSE CheckedAccess(safe, Ok(Slice(offset, Size(from))))

ReadAnswer(offset, l) == ReadValue(offset, AccessLayout(offset, l))

\* RawMemoryAccess::write_bytes and read_bytes check the range only.
WrittenBytes(offset, bytes) == CheckedAccess(Ranged(offset, Len(bytes)), Ok(bytes))
ReadBytes(offset, size) == CheckedAccess(Ranged(offset, size), Ok(Slice(offset, size)))

(***************************************************************************)
(* The write barrier.  A write into an object records the foreign objects   *)
(* it stores references to (WriteBarrierRecorder, into the thread's         *)
(* buffer); a write without an owner records nothing.                      *)
(***************************************************************************)
\* The object named by the reference stored at an offset of the bytes m.
TargetAt(m, offset) ==
    {o \in Objects : SubSeq(m, offset + 1, offset + WordSize) = Parts(o, WordSize)}

\* record_ref: null and objects of the storage's own arena are passed over.
RecordRef(targets) == targets \cap Foreign

\* record_refs_recursive: every reference of a layout that begins at base.
RecordRefsRecursive(l, base, m) ==
    UNION {RecordRef(TargetAt(m, base + r)) : r \in RefsOf(l)}

\* record_refs_in_range: the references of the fields and elements that the
\* bytes start .. end - 1 (relative to base, cut at 0) overlap.
Minus(n, k) == IF n > k THEN n - k ELSE 0

RECURSIVE RecordRefsInRange(_, _, _, _, _)
RecordRefsInRange(l, base, start, end, m) ==
    IF IsLeaf(l) THEN RecordRefsRecursive(l, base, m)
    ELSE IF IsStruct(l)
    THEN UNION {RecordRefsInRange(f.layout, base + f.at,
                                  Minus(start, f.at), Minus(end, f.at), m) :
                f \in {g \in l.fields : Intersects(start, end, g.at, Size(g.layout))}}
    ELSE IF Size(l.element) = 0 THEN {}
    ELSE UNION {RecordRefsInRange(l.element, base + (i * Size(l.element)),
                                  Minus(start, i * Size(l.element)),
                                  Minus(end, i * Size(l.element)), m) :
                i \in Elements(start, end, 0, Size(l.element), l.count)}

(***************************************************************************)
(* Storing the answer.                                                     *)
(***************************************************************************)
After(offset, answer) == IF IsRejected(answer) THEN mem ELSE Patched(offset, answer.bytes)
Put(offset, answer, barrier) ==
    /\ mem' = After(offset, answer)
    /\ recorded' = IF IsRejected(answer) \/ origin \notin HeapLike THEN recorded
                   ELSE recorded \cup barrier
    /\ UNCHANGED <<origin, place, present>>

\* Objects are checked against ill-typed stores; elsewhere a store goes to a
\* variable of its type, or past the end.
WriteUnaligned(offset, value, l) ==
    /\ Addressable(offset, Size(l), FALSE)
    /\ \/ origin \in HeapLike
       \/ WellTyped(offset, AccessLayout(offset, l))
       \/ offset + Size(l) > Len(mem)
    /\ LET answer == WriteAnswer(offset, value, l)
       IN  Put(offset, answer, RecordRefsRecursive(l, offset, After(offset, answer)))

\* initobj clears a variable, stobj of a value without references copies its
\* bytes: both go through write_bytes, which checks the range only.
WriteBytes(offset, l, byte) ==
    /\ Addressable(offset, Size(l), FALSE)
    /\ WellTyped(offset, l) \/ offset + Size(l) > Len(mem)
    /\ RefsOf(l) # {} => byte = 0
    /\ LET answer == WrittenBytes(offset, [i \in 1 .. Size(l) |-> Byte(byte)])
       IN  Put(offset, answer,
               RecordRefsInRange(place, 0, offset, offset + Size(l), After(offset, answer)))

(***************************************************************************)
(* Atomic operations.  A read-modify-write of a misaligned slot is refused; *)
(* loads and stores fall back to a copy under the storage's guard.         *)
(***************************************************************************)
AtomicVerdict(offset, size, rmw) ==
    LET ranged == Ranged(offset, size)
    IN  IF ranged # "Ok" THEN ranged
        ELSE IF rmw /\ offset % size # 0 THEN "UnalignedAccess" ELSE "Ok"

\* Store, exchange and compare-exchange of an object reference in a slot of
\* that type; a compare-exchange that wrote nothing records nothing.
ObjectAtomic(offset, op, new, expected) ==
    LET verdict == AtomicVerdict(offset, WordSize, op # "store")
        previous == Slice(offset, WordSize)
        written == op # "cas" \/ previous = expected
        answer == CheckedAccess(verdict, Ok(IF written THEN new ELSE previous))
    IN  /\ Addressable(offset, WordSize, FALSE)
        /\ WellTyped(offset, Leaf("ObjectRef")) \/ offset + WordSize > Len(mem)
        /\ Put(offset, answer,
               IF written THEN RecordRef(TargetAt(After(offset, answer), offset)) ELSE {})

\* The number a sequence of plain bytes denotes, little end first, and back.
Number(bytes) ==
    LET sum[i \in 0 .. Len(bytes)] ==
            IF i = 0 THEN 0 ELSE sum[i - 1] + (bytes[i].val * Base ^ (i - 1))
    IN  sum[Len(bytes)]
Digits(n, size) == [i \in 1 .. size |-> Byte((n \div Base ^ (i - 1)) % Base)]

\* The integer operations: the bytes they leave in the slot.
CompareExchanged(offset, size, expected, new) ==
    IF Slice(offset, size) = Digits(expected, size) THEN Digits(new, size) ELSE Slice(offset, size)
Exchanged(offset, size, new) == Digits(new, size)
ExchangeAdded(offset, size, addend) == Digits(Number(Slice(offset, size)) + addend, size)
Stored(offset, size, new) == Digits(new, size)

\* They act on a slot of their type, or past the end; none records anything.
IntegerAtomic(offset, kind, rmw, bytes) ==
    /\ Addressable(offset, LeafSize(kind), TRUE)
    /\ WellTyped(offset, Leaf(kind)) \/ offset + LeafSize(kind) > Len(mem)
    /\ Put(offset, CheckedAccess(AtomicVerdict(offset, LeafSize(kind), rmw), Ok(bytes)), {})

CompareExchangeAtomic(offset, kind, expected, new) ==
    IntegerAtomic(offset, kind, TRUE, CompareExchanged(offset, LeafSize(kind), expected, new))

ExchangeAtomic(offset, kind, new) ==
    IntegerAtomic(offset, kind, TRUE, Exchanged(offset, LeafSize(kind), new))

ExchangeAddAtomic(offset, kind, addend) ==
    IntegerAtomic(offset, kind, TRUE, ExchangeAdded(offset, LeafSize(kind), addend))

StoreAtomic(offset, kind, new) ==
    IntegerAtomic(offset, kind, FALSE, Stored(offset, LeafSize(kind), new))

\* What an atomic load answers; it too falls back to a copy.
Loaded(offset, size) == CheckedAccess(AtomicVerdict(offset, size, FALSE), Ok(Slice(offset, size)))

LoadAtomic(offset, kind) == Loaded(offset, LeafSize(kind))

\* The frame of the home returns; the arena of the object is torn down.
Disappear ==
    /\ present
    /\ origin \in {"FrameHome", "CrossArena"}
    /\ present' = FALSE
    /\ UNCHANGED <<origin, place, mem, recorded>>

(***************************************************************************)
(* Specification.                                                          *)
(***************************************************************************)
Stackable(l) ==
    {NullRef, TransientPointer, Small(1), WordOf(0)}
      \cup {Ref(o) : o \in Objects} \cup {Pointer(o) : o \in Objects}
      \cup {Instance(l, o) : o \in IF IsStruct(l) THEN Objects ELSE {}}

AccessOffsets == 0 .. Size(place) - 1

MemoryInit ==
    /\ origin \in DOMAIN Storages
    /\ place \in Storages[origin]
    /\ mem = Zeros(Size(place))
    /\ present = TRUE
    /\ recorded = {}

MemoryNext ==
    \/ Disappear
    \/ \E offset \in AccessOffsets, l \in Shapes :
          \/ \E value \in Stackable(l) : WriteUnaligned(offset, value, l)
          \/ \E byte \in {0, 1} : WriteBytes(offset, l, byte)
    \/ \E offset \in AccessOffsets :
          \/ \E op \in {"store", "exchange", "cas"}, o \in Objects :
                ObjectAtomic(offset, op, Ref(o).bytes, NullRef.bytes)
          \/ \E kind \in {"Int8", "NativeInt"} :
                \/ CompareExchangeAtomic(offset, kind, 0, 1)
                \/ ExchangeAtomic(offset, kind, 1)
                \/ ExchangeAddAtomic(offset, kind, 1)
                \/ StoreAtomic(offset, kind, 1)

MemorySpec == MemoryInit /\ [][MemoryNext]_memoryVars

(***************************************************************************)
(* Properties.                                                             *)
(***************************************************************************)
\* Every reference slot of an object holds null or one reference as a whole,
\* whatever mixture of typed stores at any offset, cleared variables and atomic
\* operations the program performs: the collector can follow it.
ReferencesWhole ==
    origin \in HeapLike =>
        \A r \in RefsOf(place) : Whole(Slice(r, WordSize))

\* A load that returns references from an object returns whole ones, also when
\* the layout it reads with is not the one of the storage.
ReferencesRead ==
    origin \in HeapLike =>
        \A offset \in AccessOffsets, l \in Shapes :
            LET got == ReadAnswer(offset, l)
            IN  ~IsRejected(got) =>
                   \A r \in RefsOf(l) :
                      Whole(SubSeq(got.bytes, r + 1, r + WordSize))

\* The walk over the layout tree refuses a store into an object exactly when it
\* would cut a reference or put something else in its place: variables can
\* always be written with values of their type.
RefusedExactly ==
    origin \in HeapLike =>
        \A offset \in AccessOffsets, l \in Shapes :
            offset + Size(l) <= Size(place) =>
                (ValidateRefIntegrity(place, 0, offset, offset + Size(l), l) = "Ok"
                   <=> \A r \in RefsOf(place) :
                          Intersects(offset, offset + Size(l), r, WordSize)
                             => r - offset \in RefsOf(l))

\* An atomic load of an integer answers what a plain load and a byte copy do,
\* also at a misaligned place.
AtomicLoadsAgree ==
    \A offset \in AccessOffsets, kind \in {"Int8", "NativeInt"} :
        WellTyped(offset, Leaf(kind)) /\ AccessLayout(offset, Leaf(kind)) = Leaf(kind)
            => /\ LoadAtomic(offset, kind) = ReadAnswer(offset, Leaf(kind))
               /\ LoadAtomic(offset, kind) = ReadBytes(offset, LeafSize(kind))

\* What was read can be written back, and does not change the storage.
ReadsWriteBack ==
    \A offset \in AccessOffsets, l \in Shapes :
        LET got == ReadAnswer(offset, l)
            into == AccessLayout(offset, l)
        IN  ~IsRejected(got) /\ IsLeaf(l) /\ WellTyped(offset, into) =>
               LET put == WriteAnswer(offset, Value(StackKindOf(into.leaf), got.bytes), l)
               IN  ~IsRejected(put) /\ Patched(offset, put.bytes) = mem

\* Loads, stores and atomic operations keep references whole, return only whole
\* references, and refuse no access a well-typed program makes.
MemorySound ==
    /\ ReferencesWhole /\ ReferencesRead /\ RefusedExactly
    /\ ReadsWriteBack /\ AtomicLoadsAgree

\* Every foreign object an object holds a reference to was recorded by the
\* write barrier, whichever write, of whichever layout, stored the reference.
ForeignRecorded ==
    origin \in HeapLike =>
        \A r \in RefsOf(place) : TargetAt(mem, r) \cap Foreign \subseteq recorded
=============================================================================
