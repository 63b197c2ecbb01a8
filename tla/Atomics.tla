------------------------------ MODULE Atomics -------------------------------
(***************************************************************************)
(* One location shared by several threads, and the ways a program reaches  *)
(* it: ldind and stind, Volatile.Read and Write, and the Interlocked       *)
(* intrinsics.  Every one of them works on the raw bytes under the guard   *)
(* of the owner, so it is one step; what happens between two steps of a    *)
(* thread (a load and the compare-exchange that relies on it) is           *)
(* interleaved.  The operand stack carries Int32, Int64, NativeInt and     *)
(* references only, so each intrinsic narrows its operands to the width    *)
(* of the location and widens what it pushes.                              *)
(***************************************************************************)
EXTENDS Values

CONSTANTS
    Users,         \* the threads
    AtomicTypes,   \* the types the location may have
    ObjectAddrs,   \* the addresses of the objects references are made of
    MaxAtomicOps   \* bound: operations in one behaviour

VARIABLES
    site,     \* the location: its type, and whether its address is aligned
    cell,     \* the raw integer in it
    seen,     \* per thread, the value it was last given
    crashed,  \* the threads that panicked
    heard,    \* the latest operation: its operands, its result, `told' before it
    told,     \* the value the results given so far imply the location has
    ops       \* the number of operations

atomicVars == <<site, cell, seen, crashed, heard, told, ops>>

-----------------------------------------------------------------------------
(* The location as the program means it                                    *)

IsReference(t) == t = "Object"
ValueIn(raw, t) == IF IsReference(t) THEN ObjectRef(raw) ELSE WidenRaw(raw, t)
RawsOf(t) ==
    IF IsReference(t) THEN {0} \cup ObjectAddrs
    ELSE {0, 1, 2^(Bits(t) - 1), 2^Bits(t) - 1}
ValuesOf(t) == {ValueIn(raw, t) : raw \in RawsOf(t)}

-----------------------------------------------------------------------------
(* The intrinsics: the raw integer they leave, and what they push          *)

\* Every type that is not listed is taken for a reference, Char among them.
InterlockedDispatch(t) ==
    CASE t \in {"Boolean", "Int8", "UInt8"} -> "Byte"
      [] t \in {"Int16", "UInt16"} -> "Int16"
      [] t \in {"Int32", "UInt32"} -> "Int32"
      [] t \in {"Int64", "UInt64"} -> "Int64"
      [] t \in {"NativeInt", "NativeUInt"} -> "PointerSized"
      [] OTHER -> "ObjectRef"

Answer(raw, out) == [raw |-> raw, out |-> out]
Refuse(raw, e) == Answer(raw, e)

\* An operand cut to the width of the location.
Cut(v, t) == v.v % 2^Bits(t)

\* Mutant: a byte is pushed without regard to its sign.
PushedUnsigned(previous, t) == IntOf(StackKind(t), previous)

\* What an intrinsic pushes for the previous contents.
Pushed(previous, t) ==
    LET k == StackKind(t)
    IN  IF t \in {"Int8", "Int16"} THEN IntOf(k, Cast(previous, t)) ELSE IntOf(k, previous)

CompareExchangeInteger(raw, t, value, comparand) ==
    Answer(IF raw = Cut(comparand, t) THEN Cut(value, t) ELSE raw, Pushed(raw, t))

CompareExchangeObject(raw, value, comparand) ==
    IF value.k = "ObjectRef" /\ comparand.k = "ObjectRef"
    THEN Answer(IF raw = comparand.v THEN value.v ELSE raw, ObjectRef(raw))
    ELSE Refuse(raw, Panic)

ExchangeInteger(raw, t, value) == Answer(Cut(value, t), Pushed(raw, t))

ExchangeObject(raw, value) ==
    IF value.k \in {"ObjectRef", "NativeInt"}
    THEN Answer(value.v % 2^Bits("NativeInt"), ObjectRef(raw))
    ELSE Refuse(raw, TypeMismatch)

\* The sum pushed by Add is computed after the update, and checked.
ExchangeAdd(raw, t, value, add) ==
    LET sum == Cast(raw, t) + value.v
    IN  CASE InterlockedDispatch(t) \in {"Byte", "Int16"} -> Refuse(raw, Error("NotImplemented"))
          [] InterlockedDispatch(t) \in {"PointerSized", "ObjectRef"} -> Refuse(raw, TypeMismatch)
          [] OTHER -> Answer((raw + value.v) % 2^Bits(t),
                             IF ~add THEN Pushed(raw, t)
                             ELSE IF Fits(sum, t) THEN IntOf(StackKind(t), sum) ELSE Panic)

\* Volatile.Read pushes the raw bits of a narrow integer, whatever its sign.
VolatileRead(raw, t) ==
    Answer(raw, IF IsReference(t) THEN ObjectRef(raw) ELSE IntOf(StackKind(t), raw))

StoreIntVolatile(raw, t, value) ==
    IF value.k = "Int32" THEN Answer(Cut(value, t), value) ELSE Refuse(raw, TypeMismatch)

VolatileWrite(raw, t, value) ==
    CASE InterlockedDispatch(t) \in {"Byte", "Int16"} -> StoreIntVolatile(raw, t, value)
      [] IsReference(t) /\ value.k \in {"ObjectRef", "NativeInt"} ->
             Answer(value.v % 2^Bits("NativeInt"), value)
      [] ~IsReference(t) /\ value.k = StackKind(t) -> Answer(Cut(value, t), value)
      [] OTHER -> Refuse(raw, TypeMismatch)

\* The integer instructions know signed stores only: stind.i1 stores a byte.
StoreType(t) ==
    CASE t \in {"Boolean", "UInt8"} -> "Int8"
      [] t \in {"Char", "UInt16"} -> "Int16"
      [] t = "UInt32" -> "Int32"
      [] t = "UInt64" -> "Int64"
      [] t = "NativeUInt" -> "NativeInt"
      [] OTHER -> t

Stind(raw, t, value) ==
    IF value.k = (IF IsReference(t) THEN "ObjectRef" ELSE StackKind(t))
    THEN Answer(Cast(value.v, StoreType(t)) % 2^Bits(t), value)
    ELSE Refuse(raw, Error("AccessViolationException"))

Ldind(raw, t) == Answer(raw, ValueIn(raw, t))

\* A read-modify-write of a misaligned address has no effect.
Aligned(raw, answer) ==
    IF site.aligned \/ answer.out \in {Panic, TypeMismatch, Error("NotImplemented")} THEN answer
    ELSE Refuse(raw, Error("DataMisalignedException"))

Interlocked(op, raw, t, value, comparand) ==
    CASE op = "CompareExchange" ->
             Aligned(raw, IF InterlockedDispatch(t) = "ObjectRef"
                          THEN CompareExchangeObject(raw, value, comparand)
                          ELSE CompareExchangeInteger(raw, t, value, comparand))
      [] op = "Exchange" ->
             Aligned(raw, IF InterlockedDispatch(t) = "ObjectRef"
                          THEN ExchangeObject(raw, value)
                          ELSE ExchangeInteger(raw, t, value))
      [] op \in {"Add", "ExchangeAdd"} -> Aligned(raw, ExchangeAdd(raw, t, value, op = "Add"))

Plain(op, raw, t, value) ==
    CASE op = "VolatileRead" -> VolatileRead(raw, t)
      [] op = "VolatileWrite" -> VolatileWrite(raw, t, value)
      [] op = "stind" -> Stind(raw, t, value)
      [] op = "ldind" -> Ldind(raw, t)

-----------------------------------------------------------------------------
(* The threads                                                             *)

\* What a client concludes about the location from the result of its operation.
Implied(op, t, value, comparand, out) ==
    CASE Failed(out) /\ out # Panic -> told
      [] op \in {"stind", "VolatileWrite", "Exchange"} -> value
      [] op = "CompareExchange" -> IF out = comparand THEN value ELSE told
      [] op \in {"Add", "ExchangeAdd"} -> IntOf(StackKind(t), told.v + value.v)
      [] OTHER -> told

\* A thread keeps what it is given in a local of the type of the location.
Kept(u, t, out) ==
    LET local == IF Failed(out) \/ IsReference(t) THEN out ELSE ThroughLocation(out, t)
    IN  IF Failed(local) THEN seen ELSE [seen EXCEPT ![u] = local]

Happen(u, op, value, comparand, answer) ==
    /\ cell' = answer.raw
    /\ seen' = Kept(u, site.t, answer.out)
    /\ crashed' = IF answer.out = Panic THEN crashed \cup {u} ELSE crashed
    /\ heard' = [op |-> op, value |-> value, comparand |-> comparand, out |-> answer.out, was |-> told]
    /\ told' = Implied(op, site.t, value, comparand, answer.out)
    /\ ops' = ops + 1
    /\ UNCHANGED site

Enabled(u) == u \notin crashed /\ ops < MaxAtomicOps

\* A thread compares with the value it was given last.
Exchanges(u) ==
    /\ Enabled(u)
    /\ \E value \in ValuesOf(site.t), op \in {"CompareExchange", "Exchange"} :
          Happen(u, op, value, seen[u], Interlocked(op, cell, site.t, value, seen[u]))

\* Registered for int and long.
Adds(u) ==
    /\ Enabled(u)
    /\ site.t \in {"Int32", "Int64"}
    /\ \E value \in ValuesOf(site.t), op \in {"Add", "ExchangeAdd"} :
          Happen(u, op, value, seen[u], Interlocked(op, cell, site.t, value, seen[u]))

\* There is no Volatile method for char.
Volatile(op) == op \in {"VolatileRead", "VolatileWrite"}

Reads(u) ==
    /\ Enabled(u)
    /\ \E op \in {"VolatileRead", "ldind"} :
          /\ Volatile(op) => site.t # "Char"
          /\ Happen(u, op, seen[u], seen[u], Plain(op, cell, site.t, seen[u]))

Writes(u) ==
    /\ Enabled(u)
    /\ \E value \in ValuesOf(site.t), op \in {"VolatileWrite", "stind"} :
          /\ Volatile(op) => site.t # "Char"
          /\ Happen(u, op, value, seen[u], Plain(op, cell, site.t, value))

AtomicsInit ==
    /\ site \in [t : AtomicTypes, aligned : BOOLEAN]
    /\ StorageSize(site.t) = 1 => site.aligned
    /\ cell \in RawsOf(site.t)
    /\ told = ValueIn(cell, site.t)
    /\ seen = [u \in Users |-> told]
    /\ crashed = {}
    /\ heard = [op |-> "none"]
    /\ ops = 0

AtomicsNext == \E u \in Users : Exchanges(u) \/ Adds(u) \/ Reads(u) \/ Writes(u)

AtomicsSpec == AtomicsInit /\ [][AtomicsNext]_atomicVars

-----------------------------------------------------------------------------
(* Properties                                                              *)

\* The location holds what the results the threads were given imply: no update
\* is lost or invented, however operand and result widths differ, and a refused
\* operation changes nothing.
NoUpdateLost == ValueIn(cell, site.t) = told

\* A result is the value the location had: exactly, except that Volatile.Read
\* gives the bits of a negative sbyte or short as a positive number; Add gives
\* the sum.
ResultsTrue ==
    \/ heard.op \in {"none", "stind", "VolatileWrite"}
    \/ Failed(heard.out)
    \/ /\ heard.op = "Add"
       /\ heard.out = IntOf(StackKind(site.t), heard.was.v + heard.value.v)
    \/ heard.op # "Add" /\ heard.out = heard.was
    \/ /\ heard.op = "VolatileRead" /\ site.t \in {"Int8", "Int16"} /\ heard.was.v < 0
       /\ heard.out.v = heard.was.v + 2^Bits(site.t)

\* An operation is refused only for a misaligned address, for the type Char,
\* which is taken for a reference, and for a sum that overflows.
RefusalsJustified ==
    heard.op # "none" /\ Failed(heard.out)
    => \/ heard.out.error = "DataMisalignedException" /\ ~site.aligned
       \/ site.t = "Char" /\ heard.op \in {"CompareExchange", "Exchange"}
       \/ heard.op = "Add" /\ ~Fits(heard.was.v + heard.value.v, site.t)

AtomicsSound == NoUpdateLost /\ ResultsTrue /\ RefusalsJustified
=============================================================================
