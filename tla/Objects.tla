------------------------------ MODULE Objects -------------------------------
(***************************************************************************)
(* The instructions on objects and values (dotnet-vm, instructions/objects) *)
(* and the conversions between the evaluation stack and storage they use    *)
(* (dotnet-runtime-resolver/src/factory.rs, dotnet-value/src/object):       *)
(* allocation, fields, static fields, array elements, boxing and casts.     *)
(*                                                                          *)
(* Storage is a sequence of bytes. A byte is a pair <<0, n>>, or <<r, k>>   *)
(* for the k-th byte of a reference to object r; the null reference is made *)
(* of zero bytes. Code runs as a compiler emits it: each value on the stack *)
(* carries the static type its verifier gives it, and an instruction is     *)
(* taken where its operands have the types it asks for.                     *)
(***************************************************************************)
EXTENDS Comparer

CONSTANTS
    Menu(_),      \* the operands of the instructions, for each set of definitions
    MaxObjects,
    MaxStack(_)   \* the depth of the stack, for each set of definitions

VARIABLES
    objects,      \* the heap: [storage, type, cells] by identity; type is the element's for "Vec"
    staticStorage, \* static storage by closed type
    stack,        \* the evaluation stack, the top last
    outcome       \* how the last instruction ended

objectVars == <<objects, staticStorage, stack, outcome>>

SystemString == Simple("str")
SystemArray == Simple("Array")
Vector(element) == Apply("[]", <<element>>)
ByRef(type) == Apply("&", <<type>>)
IsVector(type) == type.def = "[]"
IsManagedRef(type) == type.def = "&"
Element(type) == type.args[1]

(***************************************************************************)
(* The layout of values: natural alignment, base fields first               *)
(***************************************************************************)
RefSize == 8
Up(n, align) == ((n + align - 1) \div align) * align
Larger(a, b) == IF a >= b THEN a ELSE b

IsScalar(type) == Def(type).size > 0
IsEnum(type) == Def(type).kind = "enum"
IsNullable(type) == type.def = "Nullable"
IsReference(type) == ~IsValueType(type)
UnderlyingType(type) == Def(type).fields[1].type

InstanceFields(type) == SelectSeq(Def(type).fields, LAMBDA f : ~f.static)
DeclaredFields(type) ==
    LET declared == InstanceFields(type)
    IN  [i \in DOMAIN declared |->
           [owner |-> type.def, name |-> declared[i].name,
            type |-> MakeConcrete(MakeLookup(type), declared[i].type)]]

RECURSIVE SizeOf(_), AlignOf(_), FieldLayout(_)
Place(placed, f) ==
    LET at == Up(placed.size, AlignOf(f.type))
    IN  [size |-> at + SizeOf(f.type), align |-> Larger(placed.align, AlignOf(f.type)),
         fields |-> placed.fields \cup {[at |-> at] @@ f}]
Rounded(placed) == [placed EXCEPT !.size = Up(@, placed.align)]
(* instance_field_layout_cached, of types laid out as they are declared *)
FieldLayout(type) ==
    LET levels == IF IsValueType(type) THEN <<type>> ELSE Reverse(Ancestors(type))
    IN  FoldLeft(LAMBDA placed, level : Rounded(FoldLeft(Place, placed, DeclaredFields(level))),
                 [size |-> 0, align |-> 1, fields |-> {}], levels)
SizeOf(type) ==
    IF IsReference(type) THEN RefSize
    ELSE IF IsScalar(type) THEN Def(type).size
    ELSE FieldLayout(type).size
AlignOf(type) ==
    IF IsReference(type) THEN RefSize
    ELSE IF IsScalar(type) THEN Def(type).size
    ELSE FieldLayout(type).align

GetField(type, owner, name) ==
    CHOOSE f \in FieldLayout(type).fields : f.owner = owner /\ f.name = name
InstanceSize(type) == IF IsScalar(type) THEN Def(type).size ELSE FieldLayout(type).size

(***************************************************************************)
(* Bytes                                                                    *)
(***************************************************************************)
Zeros(n) == [k \in 1..n |-> <<0, 0>>]
RefCells(id) == [k \in 1..RefSize |-> <<id, IF id = 0 THEN 0 ELSE k>>]
Slice(cells, at, size) == SubSeq(cells, at + 1, at + size)
Splice(cells, at, new) ==
    [k \in DOMAIN cells |-> IF k > at /\ k <= at + Len(new) THEN new[k - at] ELSE cells[k]]

(* copy_overlapping_field_storage into zeroed storage *)
Overlapping(cells, size) ==
    [k \in 1..size |-> IF k <= Len(cells) THEN cells[k] ELSE <<0, 0>>]

Encode(n, size) == [k \in 1..size |-> <<0, (n \div 256 ^ (k - 1)) % 256>>]
Decode(cells) == cells[1][2] + (IF Len(cells) > 1 THEN 256 * cells[2][2] ELSE 0)

(* ObjectRef::read_branded; -1 for bytes that are no reference *)
ReadRef(cells) == IF cells = RefCells(cells[1][1]) THEN cells[1][1] ELSE -1

(***************************************************************************)
(* Stack values. num is the number, or the offset of a pointer              *)
(***************************************************************************)
StackValue(kind, type, id, num, cells) ==
    [kind |-> kind, type |-> type, id |-> id, num |-> num, cells |-> cells]
Number(kind, n) == StackValue(kind, NoType, 0, n, <<>>)
ObjectRef(id) == StackValue("ref", NoType, id, 0, <<>>)
Instance(type, cells) == StackValue("value", type, 0, 0, cells)
ManagedPtr(id, at, type) == StackValue("ptr", type, id, at, <<>>)
StaticPtr(owner, at) == StackValue("static", owner, 0, at, <<>>)
Null == ObjectRef(0)
Malformed == StackValue("error", NoType, 0, 0, <<>>)
IsNull(v) == v = Null

HeapObject(storage, type, cells) == [storage |-> storage, type |-> type, cells |-> cells]
NewObject(type) == HeapObject("Obj", type, Zeros(InstanceSize(type)))
IsObject(o) == o.storage \in {"Obj", "Boxed"}

ScalarKind(type) == IF Def(type).size > 4 THEN "int64" ELSE "int32"

RECURSIVE NewCtsValue(_, _), ReadCtsValue(_, _)
CanonicalInstance(type, v) ==
    IF v.type = type THEN v.cells ELSE Overlapping(v.cells, SizeOf(type))
(* new_cts_value and CTSValue::write: the bytes a stack value has as a value of the
   type; <<>> is an error *)
NewCtsValue(type, v) ==
    IF IsReference(type)
    THEN IF v.kind = "ref" THEN RefCells(v.id) ELSE <<>>
    ELSE IF IsEnum(type) THEN NewCtsValue(UnderlyingType(type), v)
    ELSE IF IsScalar(type)
    THEN IF v.kind = ScalarKind(type) THEN Encode(v.num, SizeOf(type)) ELSE <<>>
    ELSE IF v.kind = "value" THEN CanonicalInstance(type, v)
    ELSE IF v.kind # "ref" \/ v.id = 0 THEN Zeros(SizeOf(type))
    ELSE IF IsObject(objects[v.id]) THEN Overlapping(objects[v.id].cells, SizeOf(type))
    ELSE <<>>

(* read_cts_value and CTSValue::into_stack; a scalar panics on bytes of another width *)
ReadCtsValue(type, cells) ==
    IF IsReference(type) THEN ObjectRef(ReadRef(cells))
    ELSE IF IsEnum(type) THEN ReadCtsValue(UnderlyingType(type), cells)
    ELSE IF Len(cells) # SizeOf(type) THEN Malformed
    ELSE IF IsScalar(type) THEN Number(ScalarKind(type), Decode(cells))
    ELSE Instance(type, cells)

(***************************************************************************)
(* Casts                                                                    *)
(***************************************************************************)
GenericArrayInterfaces ==
    {"IEnumerable", "ICollection", "IList", "IReadOnlyCollection", "IReadOnlyList"}
VectorMatchesGenericArrayInterfaces(element, target) ==
    \E itf \in GenericArrayInterfaces \cap DOMAIN defs : Assignable(Apply(itf, <<element>>), target)

(* vector_matches_array_type: a vector of a derived class may be used as one of its base *)
VectorMatchesArrayType(element, target) ==
    IF IsVector(target)
    THEN \/ element = Element(target)
         \/ /\ IsReference(element) /\ IsReference(Element(target))
            /\ Assignable(element, Element(target))
    ELSE VectorMatchesGenericArrayInterfaces(element, target)

(* heap_runtime_concrete_type, and get_heap_description for what it has no answer for *)
RuntimeType(o) ==
    CASE IsObject(o) -> o.type
      [] o.storage = "Vec" -> SystemArray
      [] o.storage = "Str" -> SystemString

(* check_object_assignability *)
ObjectAssignable(o, target) ==
    \/ o.storage = "Vec" /\ VectorMatchesArrayType(o.type, target)
    \/ Assignable(RuntimeType(o), target)

(* What the compiler lets an expression of one type be used as *)
Usable(from, to) ==
    \/ from = to
    \/ /\ ~IsManagedRef(from) /\ ~IsManagedRef(to)
       /\ IsReference(from) /\ IsReference(to)
       /\ \/ IsVector(from) /\ (to = SystemArray \/ VectorMatchesArrayType(Element(from), to))
          \/ ~IsVector(from) /\ Assignable(from, to)

(***************************************************************************)
(* Boxing                                                                   *)
(***************************************************************************)
Inner(nullable) == nullable.args[1]
FlagAt(nullable) == GetField(nullable, "Nullable", "hasValue").at
ValueAt(nullable) == GetField(nullable, "Nullable", "value").at

(* Mutant: the payload is taken to follow the flag at once. *)
NullableHoldingUnaligned(nullable, cells) ==
    Splice(Splice(Zeros(InstanceSize(nullable)), FlagAt(nullable), <<<<0, 1>>>>),
           FlagAt(nullable) + 1, Slice(cells, 0, SizeOf(Inner(nullable))))

(* The Nullable instance made by unbox.any and unbox from a boxed payload *)
NullableHolding(nullable, cells) ==
    Splice(Splice(Zeros(InstanceSize(nullable)), FlagAt(nullable), <<<<0, 1>>>>),
           ValueAt(nullable), Slice(cells, 0, SizeOf(Inner(nullable))))
NullableValue(nullable, cells) ==
    ReadCtsValue(Inner(nullable), Slice(cells, ValueAt(nullable), SizeOf(Inner(nullable))))
IsEmpty(nullable, cells) == cells[FlagAt(nullable) + 1] = <<0, 0>>

NoObject == HeapObject("none", NoType, <<>>)

(* ResolverService::box_value, of a value that is no reference; NoObject is the null reference *)
BoxInner(type, v) == HeapObject("Boxed", type, NewCtsValue(type, v))
BoxValue(type, v) ==
    IF ~IsNullable(type) THEN BoxInner(type, v)
    ELSE IF IsEmpty(type, v.cells) THEN NoObject
    ELSE BoxInner(Inner(type), NullableValue(type, v.cells))

(* Whether a boxed object is one of the payload's type: the object's arguments are not looked at *)
BoxesInner(o, nullable) == IsObject(o) /\ Assignable(Simple(o.type.def), Inner(nullable))

InvalidCast == StackValue("cast", NoType, 0, 0, <<>>)
(* unbox_any of a value type, given the object *)
UnboxObject(type, o) ==
    IF ~IsObject(o) THEN InvalidCast
    ELSE IF IsNullable(type)
    THEN IF BoxesInner(o, type) THEN Instance(type, NullableHolding(type, o.cells)) ELSE InvalidCast
    ELSE IF IsEnum(o.type) THEN ReadCtsValue(UnderlyingType(o.type), o.cells)
    ELSE IF IsScalar(o.type) THEN ReadCtsValue(type, o.cells)
    ELSE Instance(o.type, o.cells)

(* unbox_any of a reference type: vectors are matched with interfaces only *)
UnboxReference(type, o) ==
    \/ o.storage = "Vec" /\ VectorMatchesGenericArrayInterfaces(o.type, type)
    \/ Assignable(RuntimeType(o), type)

(***************************************************************************)
(* The evaluation stack and the places its values point to                  *)
(***************************************************************************)
Operand(v, as) == [v |-> v, as |-> as]
Upper == Last(stack)
Under == Front(stack)
Lower == Last(Under)
Below == Front(Under)
Has(n) == Len(stack) >= n
HasOn(n, as) == Has(n) /\ stack[Len(stack)].as = as

Fits(rest) == Len(rest) < MaxStack(defs)
Push(rest, v, as) ==
    /\ Fits(rest)
    /\ stack' = Append(rest, Operand(v, as))
    /\ outcome' = IF v = Malformed THEN "internal" ELSE "ok"
Throw(name) == stack' = <<>> /\ outcome' = name
Keep == UNCHANGED <<objects, staticStorage>>

NewId == Len(objects) + 1
AllocateFor(rest, o, v, as) ==
    /\ Len(objects) < MaxObjects
    /\ objects' = Append(objects, o)
    /\ Push(rest, v, as)
    /\ UNCHANGED staticStorage
Allocate(rest, o, as) == AllocateFor(rest, o, ObjectRef(NewId), as)

(* The static storage of a closed type, zeroed when it is first used *)
StaticDeclared(owner) == Def(owner).fields[SelectInSeq(Def(owner).fields, LAMBDA f : f.static)]
StaticType(owner) == MakeConcrete(MakeLookup(owner), StaticDeclared(owner).type)
StaticCells(owner) ==
    IF owner \in DOMAIN staticStorage THEN staticStorage[owner] ELSE Zeros(SizeOf(StaticType(owner)))

(* get_ptr_info: the storage a value designates, and the offset in it *)
Storage(v) ==
    CASE v.kind \in {"ref", "ptr"} -> objects[v.id].cells
      [] v.kind = "static" -> StaticCells(v.type)
      [] v.kind = "value" -> v.cells
ReadPlace(v, at, type) == ReadCtsValue(type, Slice(Storage(v), v.num + at, SizeOf(type)))

WriteObject(id, at, cells) ==
    objects' = [objects EXCEPT ![id].cells = Splice(@, at, cells)] /\ UNCHANGED staticStorage
WriteStatic(owner, at, cells) ==
    staticStorage' = (owner :> Splice(StaticCells(owner), at, cells)) @@ staticStorage /\ UNCHANGED objects
Write(v, at, cells) ==
    IF v.kind = "static" THEN WriteStatic(v.type, v.num + at, cells)
    ELSE WriteObject(v.id, v.num + at, cells)

(* A store of a value at a place; an error where the value has no such form *)
StoreCells(rest, v, at, cells) ==
    /\ stack' = rest
    /\ IF cells = <<>> THEN Keep /\ outcome' = "internal"
       ELSE Write(v, at, cells) /\ outcome' = "ok"
StorePlace(rest, v, at, type, new) == StoreCells(rest, v, at, NewCtsValue(type, new))

(***************************************************************************)
(* Instructions                                                             *)
(***************************************************************************)
LdNull(type) == Push(stack, Null, type) /\ Keep
LdC(type, n) == Push(stack, Number(ScalarKind(type), n), type) /\ Keep
LdStr == Allocate(stack, HeapObject("Str", NoType, <<>>), SystemString)
Dup == Has(1) /\ Push(stack, Upper.v, Upper.as) /\ Keep
Pop == Has(1) /\ stack' = Under /\ outcome' = "ok" /\ Keep

(* new_object, of a class and of a value type, before the constructor runs *)
NewObj(type) ==
    IF IsValueType(type)
    THEN Push(stack, Instance(type, Zeros(InstanceSize(type))), type) /\ Keep
    ELSE Allocate(stack, NewObject(type), type)

Box(type) ==
    /\ HasOn(1, type)
    /\ IF Upper.v.kind = "ref" THEN Push(Under, Upper.v, SystemObject) /\ Keep
       ELSE IF Upper.v.kind = "value" /\ IsByRefLike(Upper.v.type) THEN Throw("InvalidProgram") /\ Keep
       ELSE IF BoxValue(type, Upper.v) = NoObject THEN Push(Under, Null, SystemObject) /\ Keep
       ELSE Allocate(Under, BoxValue(type, Upper.v), SystemObject)

(* The code never compares the type of a box with the one asked for, except for Nullable: a
   program unboxes what it has boxed, or an enum as its underlying type *)
StackForm(type) == IF IsEnum(type) THEN UnderlyingType(type) ELSE type
Unboxes(v, type) ==
    IF v.kind = "ref" /\ ~IsNull(v) /\ ~IsNullable(type) /\ IsObject(objects[v.id])
    THEN StackForm(objects[v.id].type) = StackForm(type) ELSE TRUE

PushUnboxed(type, v) ==
    IF v = InvalidCast THEN Throw("InvalidCast") ELSE Push(Under, v, type)
UnboxAnyValue(type) ==
    /\ Unboxes(Upper.v, type)
    /\ IF Upper.v.kind # "ref" THEN Push(Under, Upper.v, type)
       ELSE IF ~IsNull(Upper.v) THEN PushUnboxed(type, UnboxObject(type, objects[Upper.v.id]))
       ELSE IF IsNullable(type) THEN Push(Under, Instance(type, Zeros(InstanceSize(type))), type)
       ELSE Throw("NullReference")
UnboxAnyReference(type) ==
    IF Upper.v.kind # "ref" THEN Throw("InvalidProgram")
    ELSE IF IsNull(Upper.v) \/ UnboxReference(type, objects[Upper.v.id]) THEN Push(Under, Upper.v, type)
    ELSE Throw("InvalidCast")
UnboxAny(type) ==
    /\ HasOn(1, SystemObject)
    /\ IF IsValueType(type) THEN UnboxAnyValue(type) ELSE UnboxAnyReference(type)
    /\ Keep

(* The pointer is to the start of the box, which for Nullable is a new one *)
BoxNullable(type, cells) ==
    AllocateFor(Under, HeapObject("Boxed", type, cells), ManagedPtr(NewId, 0, type), ByRef(type))
UnboxNullable(type) ==
    IF IsNull(Upper.v) THEN BoxNullable(type, Zeros(InstanceSize(type)))
    ELSE IF BoxesInner(objects[Upper.v.id], type)
    THEN BoxNullable(type, NullableHolding(type, objects[Upper.v.id].cells))
    ELSE Throw("InvalidCast") /\ Keep
Unbox(type) ==
    /\ HasOn(1, SystemObject) /\ Unboxes(Upper.v, type)
    /\ IF Upper.v.kind # "ref" THEN Throw("InvalidProgram") /\ Keep
       ELSE IF IsNullable(type) THEN UnboxNullable(type)
       ELSE IF IsNull(Upper.v) THEN Throw("NullReference") /\ Keep
       ELSE IF ~IsObject(objects[Upper.v.id]) THEN Throw("InvalidCast") /\ Keep
       ELSE Push(Under, ManagedPtr(Upper.v.id, 0, type), ByRef(type)) /\ Keep

(* A reference of the static type the instruction asks for, or of one usable as it *)
RefOn(n) == Has(n) /\ ~IsManagedRef(stack[Len(stack)].as) /\ IsReference(stack[Len(stack)].as)
CastClass(type) ==
    /\ RefOn(1)
    /\ IF Upper.v.kind # "ref" THEN Throw("InvalidProgram")
       ELSE IF IsNull(Upper.v) \/ ObjectAssignable(objects[Upper.v.id], type) THEN Push(Under, Upper.v, type)
       ELSE Throw("InvalidCast")
    /\ Keep
IsInst(type) ==
    /\ RefOn(1)
    /\ IF Upper.v.kind # "ref" THEN Throw("InvalidProgram")
       ELSE Push(Under,
                 IF IsNull(Upper.v) \/ ObjectAssignable(objects[Upper.v.id], type) THEN Upper.v ELSE Null,
                 IF IsReference(type) THEN type ELSE SystemObject)
    /\ Keep

(* The values through which a field of a type can be reached *)
Reaches(operand, type) ==
    \/ operand.as = ByRef(type) /\ IsValueType(type)
    \/ ~IsManagedRef(operand.as) /\ Usable(operand.as, type)

FieldOf(f) == GetField(f.type, f.type.def, f.name)
LdFld(f) ==
    /\ Has(1) /\ Reaches(Upper, f.type)
    /\ IF IsNull(Upper.v) THEN Throw("NullReference")
       ELSE Push(Under, ReadPlace(Upper.v, FieldOf(f).at, FieldOf(f).type), FieldOf(f).type)
    /\ Keep
StFld(f) ==
    /\ Has(2) /\ Reaches(Lower, f.type) /\ Lower.v.kind # "value" /\ Usable(Upper.as, FieldOf(f).type)
    /\ IF IsNull(Lower.v) THEN Throw("NullReference") /\ Keep
       ELSE StorePlace(Below, Lower.v, FieldOf(f).at, FieldOf(f).type, Upper.v)
Inside(v, at, type) ==
    IF v.kind = "static" THEN [v EXCEPT !.num = @ + at] ELSE ManagedPtr(v.id, v.num + at, type)
LdFlda(f) ==
    /\ Has(1) /\ Reaches(Upper, f.type) /\ Upper.v.kind # "value"
    /\ IF IsNull(Upper.v) THEN Throw("NullReference")
       ELSE Push(Under, Inside(Upper.v, FieldOf(f).at, FieldOf(f).type), ByRef(FieldOf(f).type))
    /\ Keep

(* canonical_static_lookup *)
CanonicalStatics(lookup) == Apply(lookup.def, SubSeq(lookup.args, 1, Def(lookup).arity))
StaticPlace(lookup) == StaticPtr(CanonicalStatics(lookup), 0)
LdSFld(lookup) ==
    Push(stack, ReadPlace(StaticPlace(lookup), 0, StaticType(lookup)), StaticType(lookup)) /\ Keep
StSFld(lookup) ==
    /\ Has(1) /\ Usable(Upper.as, StaticType(lookup))
    /\ StorePlace(Under, StaticPlace(lookup), 0, StaticType(lookup), Upper.v)
LdSFlda(lookup) == Push(stack, StaticPlace(lookup), ByRef(StaticType(lookup))) /\ Keep

LdObj(type) ==
    /\ HasOn(1, ByRef(type))
    /\ Push(Under, ReadPlace(Upper.v, 0, type), type) /\ Keep
StObj(type) ==
    /\ Has(2) /\ Lower.as = ByRef(type) /\ Usable(Upper.as, type)
    /\ StorePlace(Below, Lower.v, 0, type, Upper.v)
InitObj(type) ==
    /\ HasOn(1, ByRef(type))
    /\ StoreCells(Under, Upper.v, 0, Zeros(SizeOf(type)))

(***************************************************************************)
(* Arrays and typed references                                              *)
(***************************************************************************)
SystemInt == Simple("int")
NativeInt == Simple("nint")
MaxLength == 2                   \* the longest array allocated

NewArr(type) ==
    /\ HasOn(1, SystemInt) /\ Upper.v.num <= MaxLength
    /\ Allocate(Under, HeapObject("Vec", type, Zeros(Upper.v.num * SizeOf(type))), Vector(type))
LengthOf(o) == Len(o.cells) \div SizeOf(o.type)
LdLen ==
    /\ RefOn(1) /\ (IsVector(Upper.as) \/ Upper.as = SystemString)
    /\ IF IsNull(Upper.v) THEN Throw("NullReference")
       ELSE CASE objects[Upper.v.id].storage = "Vec" ->
                   Push(Under, Number("native", LengthOf(objects[Upper.v.id])), NativeInt)
              [] objects[Upper.v.id].storage = "Str" -> Push(Under, Number("native", 0), NativeInt)
              [] OTHER -> Throw("InvalidCast")
    /\ Keep

(* The bounds are those of the storage, in bytes of the instruction's element *)
InBounds(array, index, type) ==
    (index + 1) * SizeOf(type) <= Len(objects[array.id].cells)
LdElem(type) ==
    /\ Has(2) /\ Upper.as = SystemInt /\ Lower.as = Vector(type)
    /\ IF IsNull(Lower.v) THEN Throw("NullReference")
       ELSE IF InBounds(Lower.v, Upper.v.num, type)
       THEN Push(Below, ReadPlace(Lower.v, Upper.v.num * SizeOf(type), type), type)
       ELSE Throw("IndexOutOfRange")
    /\ Keep
(* The code does not compare the element with the array's own type: the address of an element
   is taken of an array of exactly the type, and what is stored is of the array's type *)
LdElema(type) ==
    /\ Has(2) /\ Upper.as = SystemInt /\ Lower.as = Vector(type)
    /\ IF IsNull(Lower.v) THEN Throw("NullReference")
       ELSE IF Upper.v.num >= LengthOf(objects[Lower.v.id]) THEN Throw("IndexOutOfRange")
       ELSE /\ objects[Lower.v.id].type = type
            /\ Push(Below, ManagedPtr(Lower.v.id, Upper.v.num * SizeOf(type), type), ByRef(type))
    /\ Keep
StElem(type, index) ==
    /\ Has(2) /\ Lower.as = Vector(type) /\ Usable(Upper.as, type)
    /\ IF IsNull(Lower.v) THEN Throw("NullReference") /\ Keep
       ELSE IF ~InBounds(Lower.v, index, type) THEN Throw("IndexOutOfRange") /\ Keep
       ELSE /\ IsReference(type) /\ ~IsNull(Upper.v) =>
                 ObjectAssignable(objects[Upper.v.id], objects[Lower.v.id].type)
            /\ StorePlace(Below, Lower.v, index * SizeOf(type), type, Upper.v)

(* mkrefany and refanyval: the definitions are compared, not their arguments *)
TypedRef(v) == StackValue("typed", v.type, v.id, v.num, <<>>)
TypedReference == Simple("typedref")
MkRefAny(type) == HasOn(1, ByRef(type)) /\ Upper.v.kind = "ptr" /\ Push(Under, TypedRef(Upper.v), TypedReference) /\ Keep
RefAnyVal(type) ==
    /\ HasOn(1, TypedReference) /\ (Upper.v.type.def = type.def => Upper.v.type = type)
    /\ IF Upper.v.type.def # type.def THEN Throw("InvalidCast")
       ELSE Push(Under, ManagedPtr(Upper.v.id, Upper.v.num, Upper.v.type), ByRef(type))
    /\ Keep

ObjectsInit ==
    /\ objects = <<>> /\ staticStorage = <<>> /\ stack = <<>> /\ outcome = "ok"

Create ==
    \/ LdStr \/ Dup \/ Pop
    \/ \E t \in Menu(defs).nulls : LdNull(t)
    \/ \E n \in Menu(defs).numbers : LdC(n[1], n[2])
    \/ \E t \in Menu(defs).created : NewObj(t)
    \/ \E t \in Menu(defs).elements : NewArr(t)
Convert ==
    \/ \E t \in Menu(defs).boxed : Box(t) \/ UnboxAny(t) \/ Unbox(t)
    \/ \E t \in Menu(defs).casts : CastClass(t) \/ IsInst(t)
    \/ \E t \in Menu(defs).unboxed : UnboxAny(t)
Access ==
    \/ \E f \in Menu(defs).fields : LdFld(f) \/ StFld(f) \/ LdFlda(f)
    \/ \E o \in Menu(defs).statics : LdSFld(o) \/ StSFld(o) \/ LdSFlda(o)
    \/ \E t \in Menu(defs).places : LdObj(t) \/ StObj(t) \/ InitObj(t) \/ MkRefAny(t) \/ RefAnyVal(t)
    \/ \E t \in Menu(defs).elements : LdElem(t) \/ LdElema(t) \/ StElem(t, 0) \/ StElem(t, 1)
    \/ LdLen
ObjectsNext == Create \/ Convert \/ Access

(***************************************************************************)
(* Properties                                                               *)
(***************************************************************************)
ReferenceTyped(id, type) ==
    id = 0 \/ (id \in DOMAIN objects /\ ObjectAssignable(objects[id], type))

RECURSIVE CellsTyped(_, _)
InstanceTyped(cells, type) ==
    \A f \in FieldLayout(type).fields : CellsTyped(Slice(cells, f.at, SizeOf(f.type)), f.type)
CellsTyped(cells, type) ==
    IF IsReference(type) THEN ReferenceTyped(ReadRef(cells), type)
    ELSE IF IsScalar(StackForm(type)) THEN \A k \in DOMAIN cells : cells[k][1] = 0
    ELSE InstanceTyped(cells, type)

OperandTyped(v, as) ==
    IF IsManagedRef(as)
    THEN v.kind \in {"ptr", "static"} /\ CellsTyped(Slice(Storage(v), v.num, SizeOf(Element(as))), Element(as))
    ELSE IF as \in {NativeInt, TypedReference} THEN v.kind \in {"native", "typed"}
    ELSE IF IsReference(as) THEN v.kind = "ref" /\ ReferenceTyped(v.id, as)
    ELSE IF IsScalar(StackForm(as)) THEN v.kind = ScalarKind(StackForm(as))
    ELSE v.kind = "value" /\ v.type = as /\ CellsTyped(v.cells, as)

ObjectTyped(o) ==
    CASE o.storage = "Vec" ->
           \A i \in 0..(LengthOf(o) - 1) : CellsTyped(Slice(o.cells, i * SizeOf(o.type), SizeOf(o.type)), o.type)
      [] o.storage = "Obj" -> InstanceTyped(o.cells, o.type)
      [] o.storage = "Boxed" -> CellsTyped(o.cells, o.type)
      [] OTHER -> TRUE

(* A program the compiler accepts, that unboxes what it boxed and stores into arrays what they
   hold, finds in every field, static field, element, box and stack slot a value of that
   place's type: no half of a reference, no object a cast would refuse. No instruction of it
   ends in an internal error or in InvalidProgramException. *)
PlacesTyped ==
    /\ \A i \in DOMAIN stack : OperandTyped(stack[i].v, stack[i].as)
    /\ \A id \in DOMAIN objects : ObjectTyped(objects[id])
    /\ \A owner \in DOMAIN staticStorage : CellsTyped(staticStorage[owner], StaticType(owner))
    /\ outcome \notin {"internal", "InvalidProgram"}

(* Boxing loses nothing: a value boxed and unboxed is the value, an object unboxed and boxed
   is one with the same type and bytes, directly and by way of the Nullable of its type. A
   Nullable of a generic value type is left out: the code refuses to unbox it. *)
BoxingLossless ==
    /\ \A i \in DOMAIN stack :
         LET v == stack[i].v
             o == BoxValue(v.type, v)
         IN  v.kind = "value" /\ ~IsByRefLike(v.type) /\ (IsNullable(v.type) => Inner(v.type).args = <<>>) =>
               \/ IsNullable(v.type) /\ IsEmpty(v.type, v.cells) /\ o = NoObject
               \/ o # NoObject /\ UnboxObject(v.type, o) = v
    /\ \A id \in DOMAIN objects :
         LET o == objects[id]
             nullable == Apply("Nullable", <<o.type>>)
         IN  o.storage = "Boxed" /\ ~IsNullable(o.type) =>
               /\ BoxValue(o.type, UnboxObject(o.type, o)) = o
               /\ o.type.args = <<>> /\ "Nullable" \in DOMAIN defs =>
                    BoxValue(nullable, UnboxObject(nullable, o)) = o

(* Values survive the places they pass through: every place holds a value of its type, and
   what is boxed comes out of the box unchanged (objects/, boxing.rs, object_ops_impl.rs). *)
ValuesSurvive == PlacesTyped /\ BoxingLossless
=============================================================================
