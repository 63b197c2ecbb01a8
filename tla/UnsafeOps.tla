----------------------------- MODULE UnsafeOps ------------------------------
(***************************************************************************)
(* System.Runtime.CompilerServices.Unsafe: a program walks a pointer       *)
(* through memory by elements or bytes, turns it from a managed reference  *)
(* into a native integer and back, and compares it with where it started;  *)
(* or it casts the bits of a value from type to type.                      *)
(*                                                                         *)
(* A managed reference carries its origin and an offset.  A reference into *)
(* an object keeps a half-word offset, and a move that does not fit is     *)
(* refused; an unmanaged reference is an address and wraps.  The element   *)
(* types are without references, so that the check that no reference is    *)
(* read from plain bytes (CheckReadSafety of Memory) has nothing to refuse.*)
(***************************************************************************)
EXTENDS Values

CONSTANTS
    ObjectBase,    \* the address of the payload of the object
    Natives,       \* the native addresses a walk starts from
    ElementSizes,  \* sizes of the element type
    Strides,       \* the offsets a walk is moved by
    MaxMoves       \* bound: operations in one behaviour

VARIABLES
    at,      \* the value the walk has reached
    from,    \* the value it started from
    trail,   \* the bytes moved so far
    esize,   \* the size of the element type
    moves    \* the number of operations

unsafeVars == <<at, from, trail, esize, moves>>

-----------------------------------------------------------------------------
(* Pointers                                                                *)

Wide == 2^Bits("NativeInt")
Native(a) == IntOf("NativeInt", a)
Reference(origin, offset) == [k |-> "Reference", origin |-> origin, offset |-> offset]
IsReferenceTo(p, origin) == p.k = "Reference" /\ p.origin = origin

\* as_ptr, managed_ptr_address
AddressOf(p) ==
    CASE p.k = "NativeInt" -> p.v % Wide
      [] p.k = "UnmanagedPtr" -> p.v
      [] IsReferenceTo(p, "Heap") -> (ObjectBase + p.offset) % Wide
      [] OTHER -> p.offset

\* IsNullRef; an UnmanagedPtr is never null, and no reference into an object is.
IsNull(p) ==
    CASE p.k = "NativeInt" -> p.v = 0
      [] p.k = "Reference" -> p.origin = "Unmanaged" /\ p.offset = 0
      [] OTHER -> FALSE

NullReference == Reference("Unmanaged", 0)

OffsetRef(p, bytes) ==
    IF p.origin = "Unmanaged" THEN Reference("Unmanaged", (p.offset + bytes) % Wide)
    ELSE IF p.offset + bytes \in 0 .. MaxOf("UInt32") /\ (ObjectBase + p.offset + bytes) % Wide # 0
    THEN Reference("Heap", p.offset + bytes)
    ELSE Error("NotImplemented")

OffsetPtr(p, bytes) ==
    IF p.k = "Reference" THEN OffsetRef(p, bytes) ELSE Native(AddressOf(p) + bytes)

\* The bytes n elements take, wrapping at the native width.
Scaled(n, size) == Signed(n * size, Bits("NativeInt"))

UnsafeAdd(p, n, size) == OffsetPtr(p, Scaled(n, size))
UnsafeSubtract(p, n, size) == OffsetPtr(p, Signed(-Scaled(n, size), Bits("NativeInt")))
AddByteOffset(p, n) == OffsetPtr(p, n)
SubtractByteOffset(p, n) == OffsetPtr(p, Signed(-n, Bits("NativeInt")))

AsPointer(p) == Native(AddressOf(p))

\* AsRef(void*): the origin of a native pointer is not recovered.
AsRef(p) == IF p.k = "Reference" THEN p ELSE Reference("Unmanaged", AddressOf(p))

\* As<TFrom, TTo>(ref TFrom)
AsGeneric(p) == IF p.k = "Reference" THEN p ELSE Reference("Unmanaged", AddressOf(p))

AreSame(p, q) == AddressOf(p) = AddressOf(q)
IsAddressLessThan(p, q) == AddressOf(p) < AddressOf(q)
IsAddressGreaterThan(p, q) == AddressOf(p) > AddressOf(q)
ByteOffset(origin, target) == Native(AddressOf(target) - AddressOf(origin))

\* Where an access through the pointer goes: the origin and the offset in it.
PtrInfo(p) ==
    IF p.k = "Reference" THEN [origin |-> p.origin, offset |-> p.offset]
    ELSE [origin |-> "Unmanaged", offset |-> AddressOf(p)]

\* ReadUnaligned and WriteUnaligned, up to the access itself.
Target(p) == IF IsNull(p) THEN Error("NullReferenceException") ELSE PtrInfo(p)

-----------------------------------------------------------------------------
(* BitCast; a floating-point number is its bits                            *)

FloatTypes == {"Float32", "Float64"}
CastTypes == {"Int8", "UInt8", "Int16", "UInt16", "Int32", "Int64", "NativeInt"} \cup FloatTypes
SizeOf(t) == CASE t = "Float32" -> 4 [] t = "Float64" -> 8 [] OTHER -> StorageSize(t)
FloatOf(t, bits) == [k |-> "NativeFloat", of |-> t, v |-> bits]

\* The bytes a value of type t is laid out as, or a refusal.
CastSource(a, t) ==
    IF t \in FloatTypes
    THEN IF a.k = "NativeFloat" THEN [raw |-> a.v] ELSE Error("NotImplemented")
    ELSE IF IsInt(a) THEN [raw |-> a.v % 2^Bits(t)] ELSE Error("NotImplemented")

\* The value pushed for them as a value of type u.
CastTarget(raw, u) == IF u \in FloatTypes THEN FloatOf(u, raw) ELSE WidenRaw(raw, u)

BitCast(a, t, u) ==
    LET source == CastSource(a, t)
    IN  IF SizeOf(t) # SizeOf(u) \/ SizeOf(t) > 16 THEN Error("NotImplemented")
        ELSE IF Failed(source) THEN source
        ELSE CastTarget(source.raw, u)

-----------------------------------------------------------------------------
(* A walk                                                                  *)

\* A refused move leaves the program with the pointer it had.
Reach(p, bytes) ==
    /\ moves < MaxMoves
    /\ moves' = moves + 1
    /\ at' = IF Failed(p) THEN at ELSE p
    /\ trail' = IF Failed(p) THEN trail ELSE Signed(trail + bytes, Bits("NativeInt"))
    /\ UNCHANGED <<from, esize>>

MoveByElements ==
    \E n \in Strides :
        \/ Reach(UnsafeAdd(at, n, esize), n * esize)
        \/ Reach(UnsafeSubtract(at, n, esize), -(n * esize))

MoveByBytes ==
    \E n \in Strides :
        \/ Reach(AddByteOffset(at, n), n)
        \/ Reach(SubtractByteOffset(at, n), -n)

Convert == \E p \in {AsPointer(at), AsRef(at), AsGeneric(at)} : Reach(p, 0)

UnsafeInit ==
    /\ from \in {Reference("Heap", 0), NullReference}
                \cup {Native(a) : a \in Natives} \cup {UnmanagedPtr(a) : a \in Natives \ {0}}
    /\ at = from
    /\ trail = 0
    /\ esize \in ElementSizes
    /\ moves = 0

UnsafeNext == MoveByElements \/ MoveByBytes \/ Convert

UnsafeSpec == UnsafeInit /\ [][UnsafeNext]_unsafeVars

-----------------------------------------------------------------------------
(* Properties                                                              *)

\* Whatever moves and conversions brought the pointer here, its distance from
\* the start is the sum of the moves that were not refused, and the
\* comparisons agree with that distance.
PositionKept ==
    /\ ByteOffset(from, at) = Native(trail)
    /\ AreSame(from, at) <=> trail = 0
    /\ Cardinality({i \in 1 .. 3 : <<AreSame(from, at), IsAddressLessThan(from, at),
                                     IsAddressGreaterThan(from, at)>>[i]}) = 1

\* A subtraction undoes the addition of the same amount, and a reference into
\* an object stays one: only AsPointer loses the object, and a move is refused
\* only when the offset would not fit half a word.
MovesUndo ==
    \A n \in Strides :
        LET added == UnsafeAdd(at, n, esize)
            bytes == AddByteOffset(at, n)
        IN  /\ ~Failed(added) => AddressOf(UnsafeSubtract(added, n, esize)) = AddressOf(at)
            /\ ~Failed(bytes) => AddressOf(SubtractByteOffset(bytes, n)) = AddressOf(at)
            /\ Failed(bytes) => at.k = "Reference" /\ at.offset + n \notin 0 .. MaxOf("UInt32")
            /\ at.k = "Reference" /\ ~Failed(bytes) => bytes.origin = at.origin

\* An access through the pointer, in any of its forms, goes to the address that
\* AsPointer reports, and is refused for null only.
AccessesLand ==
    LET target == Target(at)
    IN  IF Failed(target) THEN AddressOf(at) = 0
        ELSE AddressOf(Reference(target.origin, target.offset)) = AsPointer(at).v % Wide

\* A BitCast there and back gives the value a location of the type would hold,
\* through a type of either sign or a floating-point type.
BitCastsReturn ==
    moves = 0 =>
        \A t \in CastTypes, u \in CastTypes, raw \in {0, 1, Wide \div 2, Wide - 1} :
            LET a == CastTarget(raw % 2^(ByteBits * SizeOf(t)), t)
            IN  SizeOf(t) = SizeOf(u) => BitCast(BitCast(a, t, u), u, t) = a

UnsafeSound == PositionKept /\ MovesUndo /\ AccessesLand /\ BitCastsReturn
=============================================================================
