----------------------------- MODULE MCObjects ------------------------------
(* Small sets of definitions for Objects and Reflection: in some, programs evaluate values; in
   the others, threads reflect on types and members. *)
EXTENDS Reflection

CONSTANTS t1, t2

MCThread == {t1, t2}
ThreadSymmetry == Permutations(MCThread)

Byte == Simple("byte")
Num == Simple("int")
Str == Simple("str")

TypeDef(kind, arity, extends, implements, methods) ==
    [kind |-> kind, arity |-> arity, extends |-> extends, implements |-> implements,
     methods |-> methods, overrides |-> <<>>, variance |-> [i \in 1..arity |-> "none"]]

Value(type) == [type |-> type, byref |-> FALSE]
Ref(type) == [type |-> type, byref |-> TRUE]
Void == Value(NoType)
Declare(name, ret, params) ==
    [name |-> name, arity |-> 0, virtual |-> TRUE, newslot |-> FALSE, public |-> TRUE, body |-> TRUE,
     instance |-> TRUE, ret |-> ret, params |-> params, gets |-> "", sets |-> ""]
First(method) == [method EXCEPT !.newslot = TRUE]
Plain(method) == [method EXCEPT !.virtual = FALSE]
Hidden(method) == [method EXCEPT !.public = FALSE]
Static(method) == [method EXCEPT !.instance = FALSE, !.virtual = FALSE]
Generic(method) == [method EXCEPT !.arity = 1]
Constructor(params) == Plain(Declare(".ctor", Void, params))

(***************************************************************************)
(* Definitions with values, and the instructions a program uses on them     *)
(***************************************************************************)
Held(name, type) == [name |-> name, type |-> type, static |-> FALSE, public |-> TRUE]
ValueDef(kind, arity, extends, fields) ==
    TypeDef(kind, arity, extends, <<>>, <<>>)
    @@ [fields |-> fields, size |-> 0, accessors |-> <<>>, properties |-> <<>>]
StructDef(arity, fields) == ValueDef("struct", arity, SystemValueType, fields)
ScalarDef(size) == [StructDef(0, <<>>) EXCEPT !.size = size]
HeapClass(arity, extends, fields) == ValueDef("class", arity, extends, fields)
HeapInterface(variance) == [ValueDef("interface", 1, NoType, <<>>) EXCEPT !.variance = <<variance>>]

Values ==
    [object |-> HeapClass(0, NoType, <<>>), valuetype |-> HeapClass(0, SystemObject, <<>>),
     enum |-> HeapClass(0, SystemValueType, <<>>), str |-> HeapClass(0, SystemObject, <<>>),
     Array |-> HeapClass(0, SystemObject, <<>>), byte |-> ScalarDef(1), int |-> ScalarDef(4),
     nint |-> ScalarDef(8), typedref |-> ValueDef("typedref", 0, SystemValueType, <<>>)]
P(arg) == Apply("P", <<arg>>)
G(arg) == Apply("G", <<arg>>)
C == Simple("C")
E == Simple("E")
Optional(arg) == Apply("Nullable", <<arg>>)
Sequence(arg) == Apply("IEnumerable", <<arg>>)

BoxingUniverse ==
    [E |-> ValueDef("enum", 0, SystemEnum, <<Held("value__", Byte)>>),
     Nullable |-> StructDef(1, <<Held("hasValue", Byte), Held("value", T0)>>),
     P |-> StructDef(1, <<Held("a", T0), Held("b", SystemObject)>>)] @@ Values
Vectors == "[]" :> HeapClass(1, SystemObject, <<>>)
FieldUniverse ==
    [P |-> StructDef(1, <<Held("a", T0), Held("b", Str)>>),
     C |-> [HeapClass(0, SystemObject, <<Held("tag", Byte), Held("pair", P(Byte))>>) EXCEPT
              !.methods = <<Constructor(<<>>)>>],
     D |-> HeapClass(0, C, <<Held("next", C)>>)] @@ Vectors @@ Values
StaticUniverse ==
    [G |-> HeapClass(1, SystemObject, <<[Held("one", T0) EXCEPT !.static = TRUE]>>)] @@ Values
ArrayUniverse ==
    Vectors @@ [IList |-> HeapInterface("none"), IEnumerable |-> HeapInterface("out")] @@ Values
InvokeUniverse == Vectors @@ Values
ObjectUniverses == {BoxingUniverse, FieldUniverse, StaticUniverse, ArrayUniverse, InvokeUniverse}

NoMenu ==
    [nulls |-> {}, numbers |-> {}, created |-> {}, elements |-> {}, boxed |-> {}, casts |-> {},
     unboxed |-> {}, fields |-> {}, statics |-> {}, places |-> {},
     literals |-> {}, invoked |-> {}, attributed |-> {}, activated |-> {}]
Named(type, name) == [type |-> type, name |-> name]
Attribute(type, args) == [type |-> type, args |-> args]
Attributes == <<Attribute(C, <<[type |-> Byte, value |-> 7]>>), Attribute(C, <<[type |-> Num, value |-> 7]>>)>>
MCMenu(d) ==
    CASE "Nullable" \in DOMAIN d ->
           [NoMenu EXCEPT
              !.nulls = {SystemObject}, !.numbers = {<<Num, 300>>},
              !.created = {P(Byte), Optional(Num)},
              !.boxed = {E, Num, Optional(E), Optional(Num), P(Byte)},
              !.fields = {Named(P(Byte), "b")}, !.places = {Num, Optional(Num), P(Byte)},
              !.literals = {[type |-> E, value |-> 1]}]
      [] "C" \in DOMAIN d ->
           [NoMenu EXCEPT
              !.nulls = {C}, !.numbers = {<<Byte, 7>>}, !.created = {C, Simple("D"), P(Byte)},
              !.casts = {C, Simple("D"), Str},
              !.fields = {Named(C, "tag"), Named(C, "pair"), Named(Simple("D"), "next"),
                          Named(P(Byte), "a"), Named(P(Byte), "b")},
              !.places = {P(Byte), Str}, !.attributed = {<<Attributes, NoType>>, <<Attributes, Simple("D")>>, <<Attributes, Str>>},
              !.activated = {TypeTerm("C"), TypeTerm("D")}]
      [] "G" \in DOMAIN d ->
           [NoMenu EXCEPT
              !.numbers = {<<Num, 300>>}, !.created = {SystemObject}, !.casts = {Str},
              !.statics = {G(SystemObject), G(Str), G(Num), Apply("G", <<Str, Num>>)},
              !.places = {Str, Num}]
      [] "IList" \notin DOMAIN d ->
           [NoMenu EXCEPT
              !.numbers = {<<Num, 1>>}, !.elements = {SystemObject}, !.boxed = {Num}, !.places = {Num},
              !.invoked = {<<param>> : param \in {Value(Num), Ref(Num), Value(SystemObject), Ref(SystemObject)}}]
      [] OTHER ->
           [NoMenu EXCEPT
              !.numbers = {<<Num, 0>>, <<Num, 1>>}, !.created = {SystemObject},
              !.elements = {Num, Str, SystemObject},
              !.casts = {Vector(SystemObject), Vector(Str), Vector(Num), Sequence(SystemObject),
                         Apply("IList", <<Str>>), SystemArray},
              !.unboxed = {Str, Sequence(SystemObject)}, !.places = {Str, Num},
              !.activated = {Primitive("int"), VectorTerm(Primitive("int"))}]
(* Arguments are passed in an array, below which the stack holds another reference to it *)
MCMaxStack(d) == IF Menu(d).invoked = {} THEN 2 ELSE 3

(***************************************************************************)
(* Definitions to reflect on                                                *)
(***************************************************************************)
B(arg) == Apply("B", <<arg>>)
D(arg) == Apply("D", <<arg>>)
I(arg) == Apply("I", <<arg>>)
J(arg) == Apply("J", <<arg>>)
Box1(arg) == Apply("Box", <<arg>>)

WithMethods(def, methods) == [def EXCEPT !.methods = methods]
Naming(def, interfaces) == [def EXCEPT !.implements = interfaces]
Interface(arity, implements) == Naming(ValueDef("interface", arity, NoType, <<>>), implements)
Reflected ==
    [ByReference |-> StructDef(1, <<>>), Box |-> HeapClass(1, SystemObject, <<>>),
     void |-> StructDef(0, <<>>)] @@ Vectors @@ Values

(* A class D<T> with the base B<arg>; I<T> is an interface of J<T>, which one of them names *)
TypesUniverse(arg, base) ==
    [I |-> Interface(1, <<>>), J |-> Interface(1, <<I(T0)>>), K |-> Interface(0, <<>>),
     E |-> ValueDef("enum", 0, SystemEnum, <<Held("value__", Byte)>>),
     B |-> Naming(HeapClass(1, SystemObject, <<>>), IF base THEN <<J(T0), Simple("K")>> ELSE <<Simple("K")>>),
     D |-> Naming(HeapClass(1, B(arg), <<>>), IF base THEN <<Simple("K")>> ELSE <<J(arg)>>)] @@ Reflected

(* A class D<T> with the base B<arg>, whose methods it overrides, hides and overloads *)
MembersUniverse(arg) ==
    [B |-> WithMethods(HeapClass(1, SystemObject, <<>>),
             <<First(Declare("M", Void, <<Value(T0), Ref(Num)>>)),
               First(Declare("N", Value(T0), <<>>)),
               First(Generic(Declare("G", Value(M0), <<Value(M0)>>)))>>),
     D |-> [HeapClass(1, B(arg), <<Held("f", T0), [Held("g", Num) EXCEPT !.static = TRUE],
                                   [Held("h", Box1(T0)) EXCEPT !.public = FALSE]>>) EXCEPT
              !.methods = <<Constructor(<<Value(T0)>>), Hidden(Constructor(<<>>)),
                            Declare("M", Void, <<Value(arg), Ref(Num)>>),
                            First(Declare("N", Value(arg), <<>>)),
                            Plain(Declare("m", Void, <<Value(T0)>>)),
                            Static(Declare("M", Void, <<Value(Num)>>)),
                            Generic(Declare("G", Value(M0), <<Value(M0)>>))>>,
              !.accessors = <<Plain(Declare("get_P", Value(T0), <<>>)),
                              Hidden(Plain(Declare("set_P", Void, <<Value(T0)>>)))>>,
              !.properties = <<[name |-> "P", getter |-> 1, setter |-> 2],
                               [name |-> "p", getter |-> 0, setter |-> 2]>>]] @@ Reflected
(* A class with accessors and no properties *)
AccessorsUniverse ==
    [D |-> WithMethods(HeapClass(1, SystemObject, <<>>),
             <<[Declare("get_Q", Value(T0), <<>>) EXCEPT !.gets = "Q"],
               [Hidden(Declare("set_Q", Void, <<Value(T0)>>)) EXCEPT !.sets = "Q"]>>)] @@ Reflected
ReflectionUniverses ==
    {TypesUniverse(arg, base) : arg \in {T0, Box1(T0), Str}, base \in BOOLEAN}
    \cup {MembersUniverse(arg) : arg \in {T0, Box1(T0), Str}} \cup {AccessorsUniverse}

MCCaseVariants == "m" :> "M" @@ "p" :> "P" @@ "j" :> "J"
MCRoots(d) ==
    LET closed == GenericTerm("D", <<Primitive("int")>>)
    IN  IF "E" \in DOMAIN d
        THEN {closed, GenericTerm("D", <<TypeParameter("D", 1)>>), TypeTerm("E"), VectorTerm(Primitive("int"))}
        ELSE {closed}
Public == {"public", "instance", "static"}
AnyFlags == Public \cup {"nonpublic"}
Asking(op) == Query(op, "", {}, <<>>)
MCQueries(d) ==
    IF "E" \in DOMAIN d
    THEN [type |-> {Asking(op) : op \in {"GetBaseType", "GetInterfaces", "GetElementType", "MakeArrayType",
                                         "MakeByRefType", "GetGenericTypeDefinition", "GetGenericArguments",
                                         "GetEnumUnderlyingType"}}
                   \cup {Query("GetInterface", name, {"ignorecase"}, <<>>) : name \in {"j", "I"}}
                   \cup {Query("MakeGenericType", "", {}, <<Primitive("int")>>)},
          method |-> {}, field |-> {}, property |-> {}]
    ELSE [type |-> {Query(op, "", AnyFlags, <<>>) : op \in {"GetConstructors", "GetFields", "GetProperties"}}
                   \cup {Query(op, "", flags, <<>>) : op \in {"GetMethods", "GetConstructor"}, flags \in {{"public", "static"}, {"nonpublic", "instance"}}}
                   \cup {Query("GetMethod", "M", AnyFlags, types) : types \in {<<NoTerm>>, <<Primitive("int")>>}}
                   \cup {Query("GetMethod", name, AnyFlags, <<NoTerm>>) : name \in {"N", "G"}}
                   \cup {Query("GetMember", "M", AnyFlags \cup {"ignorecase"}, <<>>),
                         Query("GetField", "f", AnyFlags, <<>>), Query("GetProperty", "p", AnyFlags, <<>>)}
                   \cup {Query("GetMembers", "", {"nonpublic", "instance"}, <<>>)},
          method |-> {Asking(op) : op \in {"GetDeclaringType", "GetReturnType", "GetParameterType", "GetBaseDefinition",
                                           "GetGenericArguments", "GetGenericMethodDefinition"}}
                     \cup {Query("MakeGenericMethod", "", {}, <<Primitive("str")>>)},
          field |-> {Asking("GetFieldType")}, property |-> {}]

(* How many threads reflect: two where there are few questions, in every order of their steps *)
MaxActive(d) == IF "Q" \in {m.gets : m \in ToSet(d["D"].methods)} THEN 2 ELSE 1
Active(t) == job[t] # Free \/ mirrors[t] # <<>>

MCUniverses == ObjectUniverses \cup ReflectionUniverses
HasReflection == "ByReference" \in DOMAIN defs

Init == defs \in Universes /\ ObjectsInit /\ ReflectionInit
Evaluate == ~HasReflection /\ (ObjectsNext \/ ReflectOnValues) /\ UNCHANGED reflectionVars
Reflect ==
    /\ HasReflection
    /\ ReflectionNext
    /\ Cardinality({t \in Thread : Active(t)'}) <= MaxActive(defs)
    /\ UNCHANGED objectVars
Next == (Evaluate \/ Reflect) /\ UNCHANGED defs
Spec == Init /\ [][Next]_<<defs, objectVars, reflectionVars>>
=============================================================================
