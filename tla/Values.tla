------------------------------- MODULE Values -------------------------------
(***************************************************************************)
(* The values of the evaluation stack and the CIL instructions that only   *)
(* compute on them: arithmetic, bit operations, comparisons, conditional   *)
(* branches, conversions, and the translation between the stack's few      *)
(* integer kinds and the many integer types a location can have.           *)
(*                                                                         *)
(* Integers keep their widths relative to each other: a byte has ByteBits  *)
(* bits, and an Int32 is four bytes, so that with ByteBits = 1 every       *)
(* boundary case of the 32-bit and 64-bit kinds exists in a 4-bit and an   *)
(* 8-bit one.  A floating-point number is written in halves (v = 3 is      *)
(* 1.5); arithmetic on floating-point numbers is the host's and is left    *)
(* out, conversions and comparisons of them are not.                       *)
(***************************************************************************)
EXTENDS Integers, Sequences, FiniteSets

LOCAL INSTANCE Bitwise

CONSTANTS
    ByteBits,   \* the bits of a byte
    Operands    \* the stack values instructions are executed on

VARIABLES
    x, y,       \* the two topmost stack values, y pushed last
    last        \* the instruction executed on them and what it pushed

valueVars == <<x, y, last>>

-----------------------------------------------------------------------------
(* Integer types                                                           *)

StackKinds == {"Int32", "Int64", "NativeInt"}

ScalarKinds == {"Boolean", "Char", "Int8", "UInt8", "Int16", "UInt16", "Int32",
                "UInt32", "Int64", "UInt64", "NativeInt", "NativeUInt"}

SignedTypes == {"Int8", "Int16", "Int32", "Int64", "NativeInt"}

StorageSize(t) ==
    CASE t \in {"Boolean", "Int8", "UInt8"} -> 1
      [] t \in {"Char", "Int16", "UInt16"} -> 2
      [] t \in {"Int32", "UInt32"} -> 4
      [] OTHER -> 8

Bits(t) == ByteBits * StorageSize(t)

Signed(n, w) ==
    LET u == n % 2^w IN IF u >= 2^(w - 1) THEN u - 2^w ELSE u

\* An integer cast of the implementation language: truncate, then reinterpret.
Cast(n, t) == IF t \in SignedTypes THEN Signed(n, Bits(t)) ELSE n % 2^Bits(t)

MinOf(t) == IF t \in SignedTypes THEN -(2^(Bits(t) - 1)) ELSE 0
MaxOf(t) == IF t \in SignedTypes THEN 2^(Bits(t) - 1) - 1 ELSE 2^Bits(t) - 1
Fits(n, t) == MinOf(t) <= n /\ n <= MaxOf(t)

\* Quotient rounded towards zero.
Trunc(m, n) ==
    LET Abs(i) == IF i < 0 THEN -i ELSE i
        q      == Abs(m) \div Abs(n)
    IN  IF (m < 0) = (n < 0) THEN q ELSE -q

-----------------------------------------------------------------------------
(* Stack values                                                            *)

IntOf(k, n) == [k |-> k, v |-> Signed(n, Bits(k))]

\* The stack kind a location of type t is loaded as.
StackKind(t) ==
    CASE StorageSize(t) <= 4 -> "Int32"
      [] t \in {"Int64", "UInt64"} -> "Int64"
      [] OTHER -> "NativeInt"

Infinity == 2^(Bits("Int64") + 2)
NaN == 2 * Infinity
Float(h) == [k |-> "NativeFloat", v |-> h]

ObjectRef(address) == [k |-> "ObjectRef", v |-> address]
UnmanagedPtr(address) == [k |-> "UnmanagedPtr", v |-> address]
ManagedPtr(base, offset) ==
    [k |-> "ManagedPtr", v |-> (base + offset) % 2^Bits("NativeInt"), off |-> offset]
EnumValue(t, n) == [k |-> "ValueType", v |-> n, enum |-> t]

Error(e) == [error |-> e]
Failed(r) == "error" \in DOMAIN r
TypeMismatch == Error("TypeMismatch")
Overflow == Error("OverflowException")
DivideByZero == Error("DivideByZeroException")
InvalidProgram == Error("InvalidProgramException")
\* The process stops: the build has overflow checks on.
Panic == Error("panic")

IsInt(a) == a.k \in StackKinds
IsPtr(a) == a.k \in {"ManagedPtr", "UnmanagedPtr"}
AsUnsigned(a) == a.v % 2^Bits(a.k)

\* An enum on the stack is the integer it wraps.
CoerceEnum(a) ==
    IF a.k = "ValueType" THEN IntOf(StackKind(a.enum), Cast(a.v, a.enum)) ELSE a

IsZero(a) == IsInt(a) /\ a.v = 0

-----------------------------------------------------------------------------
(* Arithmetic                                                              *)

\* The kind two integers are brought to, for every operator ...
Pair(l, r) ==
    CASE l.k = r.k /\ IsInt(l) -> l.k
      [] {l.k, r.k} = {"Int32", "NativeInt"} -> "NativeInt"
      [] OTHER -> "none"

\* ... and for the operators that also mix Int64 with NativeInt.
WidePair(l, r) ==
    IF {l.k, r.k} = {"Int64", "NativeInt"} THEN "Int64" ELSE Pair(l, r)

Exact(op, m, n) ==
    CASE op = "add" -> m + n
      [] op = "sub" -> m - n
      [] op = "mul" -> m * n

Wrapping(op, l, r) ==
    LET k == WidePair(l, r)
    IN  IF k # "none" THEN IntOf(k, Exact(op, l.v, r.v))
        ELSE IF l.k = "ObjectRef" /\ r.k \in {"NativeInt", "Int32", "ObjectRef"}
        THEN IntOf("NativeInt", Exact(op, l.v, r.v))
        ELSE TypeMismatch

UnmanagedPtrOffset(p, delta) ==
    LET address == (p.v + delta) % 2^Bits("NativeInt")
    IN  IF address = 0 THEN IntOf("NativeInt", 0) ELSE UnmanagedPtr(address)

ManagedOffset(p, delta) ==
    LET offset == p.off + delta
        moved  == ManagedPtr(p.v - p.off, offset)
    IN  IF offset < 0 \/ offset > MaxOf("UInt32") \/ moved.v = 0
        THEN Error("NotImplemented")
        ELSE moved

IsDelta(a) == a.k \in {"Int32", "NativeInt"}

Add(l, r) ==
    CASE l.k = "ManagedPtr" /\ IsDelta(r) -> ManagedOffset(l, r.v)
      [] r.k = "ManagedPtr" /\ IsDelta(l) -> ManagedOffset(r, l.v)
      [] l.k = "UnmanagedPtr" /\ IsDelta(r) -> UnmanagedPtrOffset(l, r.v)
      [] r.k = "UnmanagedPtr" /\ IsDelta(l) -> UnmanagedPtrOffset(r, l.v)
      [] OTHER -> Wrapping("add", l, r)

Sub(l, r) ==
    CASE l.k = "ManagedPtr" /\ IsInt(r) ->
            IF r.k # "Int32" /\ r.v = MinOf(r.k) THEN Error("NotImplemented")
            ELSE ManagedOffset(l, -r.v)
      [] l.k = "UnmanagedPtr" /\ IsDelta(r) -> UnmanagedPtrOffset(l, -r.v)
      [] \/ IsPtr(l) /\ IsPtr(r)
         \/ l.k = "NativeInt" /\ r.k = "UnmanagedPtr" -> IntOf("NativeInt", l.v - r.v)
      [] OTHER -> Wrapping("sub", l, r)

CheckedArithmetic(op, l, r, sgn) ==
    LET k == Pair(l, r)
        n == IF sgn = "Signed" THEN Exact(op, l.v, r.v)
             ELSE Exact(op, AsUnsigned(l), AsUnsigned(r))
        t == IF sgn = "Signed" THEN k
             ELSE IF k = "Int32" THEN "UInt32" ELSE "UInt64"
    IN  IF k = "none" THEN TypeMismatch
        ELSE IF Fits(n, t) THEN IntOf(k, n)
        ELSE Overflow

\* Mutant: the remainder has the sign of the divisor.
DivRem_floor(op, l, r, sgn) ==
    LET k == Pair(l, r)
        m == IF sgn = "Signed" THEN l.v ELSE AsUnsigned(l)
        n == IF sgn = "Signed" THEN r.v ELSE AsUnsigned(r)
    IN  IF IsZero(r) THEN DivideByZero
        ELSE IF k = "none" THEN TypeMismatch
        ELSE IF sgn = "Signed" /\ m = MinOf(k) /\ n = -1 THEN Panic
        ELSE IntOf(k, IF op = "div" THEN Trunc(m, n)
                    ELSE IF n < 0 THEN -((-m) % (-n)) ELSE m % n)

DivRem(op, l, r, sgn) ==
    LET k == Pair(l, r)
        m == IF sgn = "Signed" THEN l.v ELSE AsUnsigned(l)
        n == IF sgn = "Signed" THEN r.v ELSE AsUnsigned(r)
        q == Trunc(m, n)
    IN  IF IsZero(r) THEN DivideByZero
        ELSE IF k = "none" THEN TypeMismatch
        ELSE IF sgn = "Signed" /\ m = MinOf(k) /\ n = -1 THEN Panic
        ELSE IntOf(k, IF op = "div" THEN q ELSE m - n * q)

\* The amount is reinterpreted as an unsigned 32-bit integer, so a negative
\* one is beyond every width.
ShiftAmount(r) ==
    IF IsDelta(r) THEN r.v % 2^Bits("UInt32") ELSE -1

Shift(op, l, r, sgn) ==
    LET n == ShiftAmount(r)
    IN  IF n < 0 \/ ~IsInt(l) THEN TypeMismatch
        ELSE IF n >= Bits(l.k) THEN Panic
        ELSE IntOf(l.k, CASE op = "shl" -> l.v * 2^n
                        [] sgn = "Signed" -> l.v \div 2^n
                        [] OTHER -> AsUnsigned(l) \div 2^n)

Bitwise(op, l, r) ==
    LET k == WidePair(l, r)
        m == l.v % 2^Bits(k)
        n == r.v % 2^Bits(k)
    IN  IF k = "none" THEN TypeMismatch
        ELSE IntOf(k, CASE op = "and" -> m & n
                      [] op = "or" -> m | n
                      [] op = "xor" -> m ^^ n)

Complement(a) == IF IsInt(a) THEN IntOf(a.k, -a.v - 1) ELSE TypeMismatch

Negate(a) ==
    CASE IsInt(a) -> IF a.v = MinOf(a.k) THEN Panic ELSE IntOf(a.k, -a.v)
      [] a.k = "NativeFloat" -> Float(IF a.v = NaN THEN NaN ELSE -a.v)
      [] OTHER -> TypeMismatch

-----------------------------------------------------------------------------
(* Comparisons and conditional branches                                    *)

Order(m, n) == IF m < n THEN "Less" ELSE IF m = n THEN "Equal" ELSE "Greater"

OrderedFloats(l, r) ==
    l.k = "NativeFloat" /\ r.k = "NativeFloat" /\ NaN \notin {l.v, r.v}

\* A pointer and a native integer are compared as addresses.
AddressPair(l, r) ==
    \/ IsPtr(l) /\ (IsPtr(r) \/ r.k = "NativeInt")
    \/ l.k = "NativeInt" /\ IsPtr(r)

Address(a) == a.v % 2^Bits("NativeInt")

Equal(l, r) ==
    CASE Pair(l, r) # "none" -> l.v = r.v
      [] OrderedFloats(l, r) -> l.v = r.v
      [] l.k = "ManagedPtr" /\ r.k = "ManagedPtr" -> l = r
      [] AddressPair(l, r) -> Address(l) = Address(r)
      [] l.k = r.k /\ l.k \in {"ObjectRef", "ValueType"} -> l = r
      [] OTHER -> FALSE

PartialCmp(l, r) ==
    CASE Pair(l, r) # "none" \/ OrderedFloats(l, r) -> Order(l.v, r.v)
      [] IsPtr(l) /\ IsPtr(r) -> Order(Address(l), Address(r))
      [] AddressPair(l, r) ->
            Order(Signed(l.v, Bits("NativeInt")), Signed(r.v, Bits("NativeInt")))
      [] l.k = "ObjectRef" /\ r.k = "ObjectRef" -> Order(l.v, r.v)
      [] OTHER -> "none"

Compare(l, r, sgn) ==
    CASE sgn = "Unsigned" /\ Pair(l, r) # "none" -> Order(AsUnsigned(l), AsUnsigned(r))
      [] sgn = "Unsigned" /\ AddressPair(l, r) -> Order(Address(l), Address(r))
      [] OTHER -> PartialCmp(l, r)

\* ceq looks at the operands as they are; cgt and clt see through enums.
CompareOp(op, l, r, sgn) ==
    IntOf("Int32", CASE op = "ceq" -> IF Equal(l, r) THEN 1 ELSE 0
                   [] op = "cgt" -> IF Compare(CoerceEnum(l), CoerceEnum(r), sgn) = "Greater"
                                    THEN 1 ELSE 0
                   [] op = "clt" -> IF Compare(CoerceEnum(l), CoerceEnum(r), sgn) = "Less"
                                    THEN 1 ELSE 0)

Jump(b) == [jump |-> b]

BranchOp(op, l, r, sgn) ==
    LET c == Compare(l, r, sgn)
    IN  CASE op = "beq" -> Jump(Equal(l, r))
          [] op = "bne" -> Jump(~Equal(l, r))
          [] op = "bge" -> Jump(c \in {"Greater", "Equal"})
          [] op = "bgt" -> Jump(c = "Greater")
          [] op = "ble" -> Jump(c \in {"Less", "Equal"})
          [] op = "blt" -> Jump(c = "Less")

\* A pointer is true, whatever it points to.
BranchTruthy(a, truth) ==
    CASE IsInt(a) \/ a.k = "ObjectRef" -> Jump((a.v # 0) = truth)
      [] IsPtr(a) -> Jump(truth)
      [] OTHER -> InvalidProgram

\* The index of the target taken, or the number of targets to fall through.
Switch(a, targets) ==
    IF IsDelta(a)
    THEN LET i == AsUnsigned(a) IN [target |-> IF i < targets THEN i ELSE targets]
    ELSE InvalidProgram

-----------------------------------------------------------------------------
(* Conversions                                                             *)

\* Casting a floating-point number saturates.
FloatCast(h, t) ==
    LET n == Trunc(h, 2)
    IN  IF h = NaN THEN 0
        ELSE IF n < MinOf(t) THEN MinOf(t)
        ELSE IF n > MaxOf(t) THEN MaxOf(t)
        ELSE n

\* The nearest floating-point number, in halves: the greatest 64-bit integers
\* need one more bit than a significand has and are rounded up.
Nearest(n) ==
    2 * (IF n \in {MaxOf("Int64"), MaxOf("UInt64")} THEN n + 1 ELSE n)

ConversionTypes == ScalarKinds \ {"Boolean", "Char"}

Conv(a, t) ==
    LET wide == t \in {"Int64", "UInt64", "NativeInt", "NativeUInt"}
        n == CASE a.k = "NativeFloat" -> FloatCast(a.v, t)
               [] a.k = "Int32" /\ t \in {"UInt64", "NativeUInt"} -> AsUnsigned(a)
               [] OTHER -> Cast(a.v, t)
    IN  IF IsInt(a) \/ a.k \in {"NativeFloat", "UnmanagedPtr"} \/ (a.k = "ManagedPtr" /\ wide)
        THEN IntOf(StackKind(t), n)
        ELSE InvalidProgram

ConvOvf(a, t, sgn) ==
    CASE IsInt(a) ->
            LET n == IF sgn = "Signed" THEN a.v ELSE AsUnsigned(a)
            IN  IF Fits(n, t) THEN IntOf(StackKind(t), n) ELSE Overflow
      [] a.k = "NativeFloat" ->
            IF a.v = NaN \/ a.v < Nearest(MinOf(t)) \/ a.v > Nearest(MaxOf(t))
            THEN Overflow
            ELSE IntOf(StackKind(t), FloatCast(a.v, t))
      [] OTHER -> InvalidProgram

ConvR8(a) ==
    CASE IsInt(a) -> Float(Nearest(a.v))
      [] a.k = "NativeFloat" -> a
      [] OTHER -> InvalidProgram

ConvRUn(a) == IF IsInt(a) THEN Float(Nearest(AsUnsigned(a))) ELSE InvalidProgram

CkFinite(a) ==
    IF a.v \in {NaN, Infinity, -Infinity} THEN Error("ArithmeticException") ELSE a

-----------------------------------------------------------------------------
(* Locations: the bytes of a scalar, and its way to and from the stack     *)

ToBytes(n, size) ==
    [i \in 1..size |-> (n \div 2^(ByteBits * (i - 1))) % 2^ByteBits]

FromBytes(b) ==
    LET sum[i \in 0..Len(b)] ==
            IF i = 0 THEN 0 ELSE sum[i - 1] + b[i] * 2^(ByteBits * (i - 1))
    IN  sum[Len(b)]

\* The raw integer a location of type t holds after the stack value is stored,
\* or a refusal.
Narrow(a, t) ==
    LET c == CoerceEnum(a)
        u == CASE t = "Boolean" -> "UInt8" [] t = "Char" -> "UInt16" [] OTHER -> t
        ok == CASE t \in {"Int64", "UInt64"} -> c.k = "Int64"
                [] t = "UInt32" -> IsDelta(c) \/ IsPtr(c)
                [] OTHER -> (IsDelta(c) \/ IsPtr(c)) /\ Fits(c.v, u)
    IN  CASE ~ok -> Error("InvalidLayout")
          [] t = "Boolean" -> [raw |-> IF c.v # 0 THEN 1 ELSE 0]
          [] OTHER -> [raw |-> c.v % 2^Bits(t)]

WidenRaw(raw, t) == IntOf(StackKind(t), Cast(raw, t))

ReadStorage(bytes, t) ==
    LET raw == FromBytes(bytes)
    IN  WidenRaw(IF t = "Boolean" /\ raw # 0 THEN 1 ELSE raw, t)

\* Store the value in a fresh location of type t and load it again.
ThroughLocation(a, t) ==
    LET n == Narrow(a, t)
    IN  IF Failed(n) THEN n ELSE ReadStorage(ToBytes(n.raw, StorageSize(t)), t)

-----------------------------------------------------------------------------
(* Instructions                                                            *)

Signs == {"Signed", "Unsigned"}
NoType == "none"

\* l was pushed before r; the unary instructions work on l.
Result(op, sgn, t, l, r) ==
    LET a == CoerceEnum(l)
        b == CoerceEnum(r)
    IN  CASE op = "add" -> Add(a, b)
          [] op = "sub" -> Sub(a, b)
          [] op = "mul" -> Wrapping("mul", a, b)
          [] op = "add.ovf" -> CheckedArithmetic("add", a, b, sgn)
          [] op = "sub.ovf" -> CheckedArithmetic("sub", a, b, sgn)
          [] op = "mul.ovf" -> CheckedArithmetic("mul", a, b, sgn)
          [] op \in {"div", "rem"} -> DivRem(op, a, b, sgn)
          [] op \in {"shl", "shr"} -> Shift(op, a, b, sgn)
          [] op \in {"and", "or", "xor"} -> Bitwise(op, a, b)
          [] op \in {"ceq", "cgt", "clt"} -> CompareOp(op, l, r, sgn)
          [] op \in {"beq", "bne", "bge", "bgt", "ble", "blt"} -> BranchOp(op, a, b, sgn)
          [] op = "not" -> Complement(a)
          [] op = "neg" -> Negate(a)
          [] op = "brtrue" -> BranchTruthy(a, TRUE)
          [] op = "brfalse" -> BranchTruthy(a, FALSE)
          [] op = "switch" -> Switch(a, 2)
          [] op = "conv" -> Conv(a, t)
          [] op = "conv.ovf" -> ConvOvf(l, t, sgn)
          [] op = "conv.r8" -> ConvR8(l)
          [] op = "conv.r.un" -> ConvRUn(l)
          [] op = "ckfinite" -> CkFinite(l)
          [] op = "stloc;ldloc" -> ThroughLocation(l, t)

FloatArithmetic(op, l, r) ==
    /\ op \in {"add", "sub", "mul", "div", "rem"}
    /\ l.k = "NativeFloat" /\ r.k = "NativeFloat"

Ready == last = [op |-> "none"]

Execute(op, sgn, t) ==
    /\ Ready
    /\ ~FloatArithmetic(op, x, y)
    /\ op = "ckfinite" => x.k = "NativeFloat"
    /\ last' = [op |-> op, sgn |-> sgn, t |-> t, out |-> Result(op, sgn, t, x, y)]
    /\ UNCHANGED <<x, y>>

Arithmetic == \E op \in {"add", "sub", "mul", "and", "or", "xor", "shl", "not", "neg"} :
    Execute(op, "Signed", NoType)

SignedArithmetic ==
    \E op \in {"add.ovf", "sub.ovf", "mul.ovf", "div", "rem", "shr"}, sgn \in Signs :
        Execute(op, sgn, NoType)

Comparison == \E op \in {"ceq", "cgt", "clt"}, sgn \in Signs : Execute(op, sgn, NoType)

Branch ==
    \E op \in {"beq", "bne", "bge", "bgt", "ble", "blt", "brtrue", "brfalse", "switch"},
       sgn \in Signs :
        Execute(op, sgn, NoType)

Conversion ==
    \/ \E op \in {"conv", "conv.ovf"}, sgn \in Signs, t \in ConversionTypes :
            Execute(op, sgn, t)
    \/ \E op \in {"conv.r8", "conv.r.un", "ckfinite"} : Execute(op, "Signed", NoType)

Location == \E t \in ScalarKinds : Execute("stloc;ldloc", "Signed", t)

ValuesInit ==
    /\ x \in Operands
    /\ y \in Operands
    /\ last = [op |-> "none"]

ValuesNext == Arithmetic \/ SignedArithmetic \/ Comparison \/ Branch \/ Conversion \/ Location

ValuesSpec == ValuesInit /\ [][ValuesNext]_valueVars

-----------------------------------------------------------------------------
(* Properties                                                              *)

\* The number an operand stands for in an instruction of this signedness.
Meaning(a, sgn) == IF sgn = "Signed" THEN a.v ELSE AsUnsigned(a)

\* Dividing and multiplying back loses nothing: q * b + m = a, with the
\* remainder smaller than the divisor and of the dividend's sign.  The process
\* stops for the one quotient that does not exist.
DivisionLaw(a, b, sgn) ==
    LET k == Pair(a, b)
        q == DivRem("div", a, b, sgn)
        m == DivRem("rem", a, b, sgn)
        n == Meaning(a, sgn)
        d == Meaning(b, sgn)
        w == Meaning(m, sgn)
    IN  k # "none" /\ d # 0 =>
            IF Failed(q) \/ Failed(m)
            THEN q = Panic /\ m = Panic /\ n = MinOf(k) /\ d = -1
            ELSE /\ Wrapping("add", Wrapping("mul", q, IntOf(k, d)), m) = IntOf(k, n)
                 /\ IF n >= 0 THEN 0 <= w /\ (w < d \/ w < -d)
                    ELSE w <= 0 /\ (-w < d \/ -w < -d)

\* A trapping operation fails exactly when the wrapping one loses information,
\* and otherwise computes the same.
OverflowLaw(op, a, b, sgn) ==
    LET k == Pair(a, b)
        m == Meaning(a, sgn)
        n == Meaning(b, sgn)
        c == CheckedArithmetic(op, a, b, sgn)
        w == Wrapping(op, IntOf(k, m), IntOf(k, n))
    IN  k # "none" =>
            IF Meaning(w, sgn) = Exact(op, m, n) THEN c = w ELSE c = Overflow

\* Integers are totally ordered and the branches agree with the comparisons;
\* what is not comparable is neither less nor greater, and not equal.  (An
\* unsigned comparison zero-extends an Int32 to meet a NativeInt, ceq
\* sign-extends it, so of a negative Int32 and its zero extension none of the
\* three holds.)
OrderLaw(a, b, sgn) ==
    LET Holds(op) == CompareOp(op, a, b, sgn).v = 1
        Taken(op) == BranchOp(op, a, b, sgn).jump
        ordered   == Compare(a, b, sgn) # "none"
    IN  /\ Taken("blt") = Holds("clt") /\ Taken("bgt") = Holds("cgt")
        /\ Taken("beq") = Holds("ceq") /\ Taken("bne") = ~Taken("beq")
        /\ ordered =>
            /\ sgn = "Signed" \/ a.k = b.k =>
                   Cardinality({op \in {"clt", "ceq", "cgt"} : Holds(op)}) = 1
            /\ Taken("bge") = ~Taken("blt") /\ Taken("ble") = ~Taken("bgt")
        /\ ~ordered => ~Taken("bge") /\ ~Taken("ble")

\* Shifting left and back clears the bits shifted out; shifting right is a
\* division that rounds down.  The process stops for an amount beyond the
\* width, negative amounts included.
ShiftLaw(a, b) ==
    LET n == ShiftAmount(b)
        w == Bits(a.k)
        l == Shift("shl", a, b, "Signed")
        r == Shift("shr", a, b, "Signed")
    IN  IsInt(a) /\ n >= 0 =>
            IF n >= w
            THEN l = Panic /\ r = Panic
            ELSE /\ AsUnsigned(Shift("shr", l, b, "Unsigned")) = AsUnsigned(a) % 2^(w - n)
                 /\ 0 <= a.v - r.v * 2^n /\ a.v - r.v * 2^n < 2^n

\* Moving a pointer and subtracting it gives the distance; a managed pointer
\* never leaves the offsets it can represent.
PointerLaw(a, b) ==
    IsPtr(a) /\ IsDelta(b) =>
        LET p == Add(a, b)
        IN  ~Failed(p) =>
                /\ Sub(p, a) = IntOf("NativeInt", b.v)
                /\ p.k = "ManagedPtr" => 0 <= p.off /\ p.off <= MaxOf("UInt32")

\* The arithmetic, shift, comparison and branch instructions agree with each
\* other and with arithmetic on the integers, on every pair of operand kinds
\* the code accepts: the mixed Int32 / NativeInt arms of stack_value.rs
\* sign-extend or zero-extend as the instruction's signedness demands.
ArithmeticLaws ==
    Ready =>
        LET a == CoerceEnum(x)
            b == CoerceEnum(y)
        IN  /\ \A sgn \in Signs :
                /\ DivisionLaw(a, b, sgn)
                /\ OrderLaw(a, b, sgn)
                /\ \A op \in {"add", "sub", "mul"} : OverflowLaw(op, a, b, sgn)
            /\ ShiftLaw(a, b)
            /\ PointerLaw(a, b)

\* A value of type t on the stack, read back as a number.
ValueAs(a, t) == IF t \in SignedTypes THEN a.v ELSE AsUnsigned(a)

\* conv.ovf keeps the value or throws, and throws only when conv would change
\* it; a floating-point number is truncated, except that the one just above
\* the greatest 64-bit integer is accepted and becomes that integer.
ConversionLaw(a, t) ==
    /\ ~Failed(Conv(a, t)) => Conv(Conv(a, t), t) = Conv(a, t)
    /\ IsInt(a) => \A sgn \in Signs :
        LET o == ConvOvf(a, t, sgn)
        IN  IF Failed(o)
            THEN o = Overflow /\ ValueAs(Conv(a, t), t) # Meaning(a, sgn)
            ELSE ValueAs(o, t) = Meaning(a, sgn)
    /\ a.k = "NativeFloat" =>
        LET o == ConvOvf(a, t, "Signed")
        IN  ~Failed(o) =>
                /\ o = Conv(a, t)
                /\ ValueAs(o, t) = Trunc(a.v, 2) \/ a.v = 2 * MaxOf(t) + 2

\* A location gives back what was stored, and stores what was loaded, except
\* that a native unsigned integer with the top bit set is loaded as a negative
\* NativeInt that convert_num refuses to store again.
LocationLaw(a, t) ==
    LET raw    == a.v % 2^Bits(t)
        loaded == ReadStorage(ToBytes(raw, StorageSize(t)), t)
        stored == Narrow(loaded, t)
        again  == ThroughLocation(a, t)
    IN  /\ IF t = "NativeUInt" /\ loaded.v < 0 THEN Failed(stored)
           ELSE stored.raw = IF t = "Boolean" /\ raw # 0 THEN 1 ELSE raw
        /\ ~Failed(again) /\ t \notin {"Boolean", "UInt32"} => Address(again) = Address(a)

\* Conversions and locations lose information only where the instruction says
\* so: conv truncates, conv.ovf throws instead, converting an Int32 to a
\* floating-point number and back is the identity, and every scalar type's
\* storage gives back what was put in.
ConversionsExact ==
    Ready =>
        LET a == CoerceEnum(x)
        IN  /\ \A t \in ConversionTypes : ConversionLaw(a, t)
            /\ a.k # "NativeFloat" => \A t \in ScalarKinds : LocationLaw(a, t)
            /\ a.k = "Int32" =>
                Conv(ConvR8(a), "Int32") = a /\ Conv(ConvRUn(a), "UInt32") = a

\* What coerce_enum_to_underlying promises: every numeric instruction treats an
\* enum exactly as its underlying integer.
EnumsAreIntegers ==
    ~Ready => last.out = Result(last.op, last.sgn, last.t, CoerceEnum(x), CoerceEnum(y))
=============================================================================
