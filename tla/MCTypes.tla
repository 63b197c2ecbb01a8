------------------------------ MODULE MCTypes -------------------------------
(* Small sets of definitions for Layout and for Dispatch. Each universe varies one thing: how a
   struct is laid out, what a class inherits, which special type is stored, or where a method
   is implemented. *)
EXTENDS Layout, Dispatch

CONSTANTS t1, t2

MCThread == {t1, t2}
ThreadSymmetry == Permutations(MCThread)

(***************************************************************************)
(* Definitions with fields                                                  *)
(***************************************************************************)
Byte == Simple("byte")
Long == Simple("long")
Object == Simple("object")
S(arg) == Apply("S", <<arg>>)
B(arg) == Apply("B", <<arg>>)
D(arg) == Apply("D", <<arg>>)

Auto == [kind |-> "auto", pack |-> 0, size |-> 0]
Sequential(pack, size) == [kind |-> "sequential", pack |-> pack, size |-> size]
ExplicitLayout(size) == [kind |-> "explicit", pack |-> 0, size |-> size]

Field(name, type) ==
    [name |-> name, type |-> type, byref |-> FALSE, offset |-> -1, static |-> FALSE, slot |-> "none"]
FieldAt(name, type, offset) == [Field(name, type) EXCEPT !.offset = offset]
ByRefField(name) == [Field(name, Object) EXCEPT !.byref = TRUE]
HandleField(name) == [Field(name, Long) EXCEPT !.slot = "handle"]
StaticField(name, type) == [Field(name, type) EXCEPT !.static = TRUE]

Definition(kind, extends, layout, fields) ==
    [kind |-> kind, extends |-> extends, layout |-> layout, fields |-> fields,
     size |-> 0, inline |-> 0, lenient |-> FALSE]
ScalarType(size) == [Definition("scalar", NoType, Auto, <<>>) EXCEPT !.size = size]
Struct(layout, fields) == Definition("struct", NoType, layout, fields)
RefStruct(fields) == Definition("refstruct", NoType, Sequential(0, 0), fields)
Class(extends, fields) == Definition("class", extends, Auto, fields)

Common ==
    [byte |-> ScalarType(1), long |-> ScalarType(8), object |-> Class(NoType, <<>>)]

(* A struct S<T>, stored in a class D<T> behind a byte *)
Holder == [D |-> Class(Object, <<Field("tag", Byte), Field("held", S(T0)), StaticField("all", S(T0))>>)]
FieldTypes == {Byte, Object, T0}
Structs ==
    {Struct(layout, <<Field("a", x), Field("b", y)>>) :
        layout \in {Auto, Sequential(0, 0), Sequential(1, 0), Sequential(0, 28),
                    Sequential(0, MaxFieldBytes + 1)},
        x \in FieldTypes, y \in FieldTypes}
    \cup {Struct(ExplicitLayout(size), <<FieldAt("a", x, 0), FieldAt("b", y, at)>>) :
            size \in {0, 17}, x \in FieldTypes, y \in FieldTypes, at \in {-1, 0, 1, 4, 8}}
    \cup {[Struct(ExplicitLayout(0), <<FieldAt("a", Byte, 0), FieldAt("b", Object, 0)>>) EXCEPT !.lenient = TRUE]}
    \cup {[Struct(layout, <<Field("a", x)>>) EXCEPT !.inline = n] :
            layout \in {Auto, Sequential(1, 0)}, x \in FieldTypes, n \in {1, 3}}
StructLayouts == {("S" :> s) @@ Holder @@ Common : s \in Structs}

(* A class D<T> with the base B<arg>, which has the base object *)
ClassLayouts ==
    {[S |-> Struct(Sequential(0, 0), <<Field("a", T0), Field("b", Byte)>>),
      B |-> Class(Object, <<Field("x", Byte), Field("y", T0), StaticField("all", T0)>>),
      D |-> [Class(B(arg), fields) EXCEPT !.layout = layout]] @@ Common :
        arg \in {T0, Object, Byte, S(T0)},
        fields \in {<<>>, <<FieldAt("x", T0, 0)>>,
                    <<FieldAt("x", Byte, 0), FieldAt("z", T0, 8), StaticField("z", S(T0))>>},
        layout \in {Auto, Sequential(1, 0), ExplicitLayout(0)}}

(* FieldTypes with a representation of their own, stored in each other *)
SpecialTypes ==
    [S |-> RefStruct(<<Field("tag", Byte), ByRefField("ref"), Field("held", T0)>>),
     E |-> Definition("enum", NoType, Auto, <<Field("value__", Byte)>>),
     H |-> Struct(Auto, <<HandleField("_value")>>),
     P |-> Definition("byreference", NoType, Auto, <<>>),
     R |-> Definition("typedref", NoType, Auto, <<>>)]
SpecialLayouts ==
    {("D" :> d) @@ SpecialTypes @@ Common :
        d \in {Class(Object, <<Field("tag", Byte), Field("held", x)>>) :
                 x \in {Simple("E"), Simple("H"), S(T0)} }
              \cup {RefStruct(<<Field("tag", Byte), Field("held", x)>>) :
                      x \in {Simple("P"), Simple("R"), S(T0), S(Simple("H")), S(Simple("P"))}}
              \cup {Class(Object, <<Field("tag", Byte), ByRefField("ref")>>)}}

LayoutUniverses == StructLayouts \cup ClassLayouts \cup SpecialLayouts

MCRequests(d) ==
    LET asked(goal, type) == [goal |-> goal, type |-> type]
    IN  {asked("instance", D(Byte)), asked("instance", D(Object)), asked("static", D(Object))}
        \cup (IF "B" \in DOMAIN d
              THEN {asked("instance", B(Byte)), asked("instance", B(Object))}
              ELSE {asked("instance", S(Object))})
        \cup (IF d["D"].kind = "class" THEN {} ELSE {asked("type", D(Byte))})

(* How many threads compute layouts at a time: two where types inherit or nest,
   one for the many ways to lay out a struct, which differ in nothing threads share *)
MaxBusy(d) == IF "B" \in DOMAIN d /\ d["D"].layout = Auto THEN 2 ELSE 1

(***************************************************************************)
(* Definitions with methods                                                 *)
(***************************************************************************)
Num == Simple("int")
Str == Simple("str")
Wrapped(arg) == Apply("Box", <<arg>>)

Value(type) == [type |-> type, byref |-> FALSE]
Void == Value(NoType)
Signature(ret, params) == [instance |-> TRUE, ret |-> ret, params |-> params]
Taking(type) == Signature(Void, <<Value(type)>>)
Giving(type) == Signature(Value(type), <<>>)

Declare(name, signature, body) ==
    [name |-> name, arity |-> 0, virtual |-> TRUE, public |-> TRUE, body |-> body] @@ signature
MethodImpl(type, name, signature, impl) ==
    [decl |-> [type |-> type, name |-> name, signature |-> signature], impl |-> impl]

TypeDef(kind, arity, extends, implements, methods) ==
    [kind |-> kind, arity |-> arity, extends |-> extends, implements |-> implements,
     methods |-> methods, overrides |-> <<>>, variance |-> [i \in 1..arity |-> "none"]]
ClassDef(arity, extends, implements, methods) == TypeDef("class", arity, extends, implements, methods)
InterfaceDef(arity, implements, methods) == TypeDef("interface", arity, NoType, implements, methods)

Basic ==
    [object |-> ClassDef(0, NoType, <<>>, <<Declare("Equals", Taking(SystemObject), TRUE)>>),
     valuetype |-> TypeDef("struct", 0, SystemObject, <<>>, <<>>),
     enum |-> TypeDef("struct", 0, SystemValueType, <<>>, <<>>),
     int |-> TypeDef("struct", 0, SystemValueType, <<>>, <<>>),
     str |-> ClassDef(0, SystemObject, <<>>, <<>>),
     Box |-> ClassDef(1, SystemObject, <<>>, <<>>)]

Closing(type, arg) == MakeConcrete(Lookup(<<arg>>, <<>>), type)
If(holds, entries) == IF holds THEN entries ELSE <<>>
Private(method) == [method EXCEPT !.public = FALSE]

(* A class D<T> with the base B<arg>, and a class E with the base D<int>; each may override M *)
ClassUniverse(arg, d, e) ==
    [B |-> ClassDef(1, SystemObject, <<>>, <<Declare("M", Taking(T0), TRUE)>>),
     D |-> ClassDef(1, Apply("B", <<arg>>), <<>>, If(d, <<Declare("M", Taking(arg), TRUE)>>)),
     E |-> ClassDef(0, Apply("D", <<Num>>), <<>>,
                    If(e, <<Declare("M", Taking(Closing(arg, Num)), TRUE)>>))] @@ Basic
ClassUniverses ==
    {ClassUniverse(arg, d, e) : arg \in {T0, Wrapped(T0), Str}, d \in BOOLEAN, e \in BOOLEAN}

(* An interface I<T>, an interface J<T> that extends it and may override its method, a class
   C<T> that implements I<arg> openly, by a MethodImpl or not at all, and a class D with the
   base C<int> that may name J *)
Itf(name, arg) == Apply(name, <<arg>>)
Variances == {"none", "out", "in"}
SignatureOf(variance, type) == IF variance = "out" THEN Giving(type) ELSE Taking(type)
InterfaceUniverse(variance, default, j, arg, how, named) ==
    LET sig == SignatureOf(variance, T0)
        m(type, body) == Declare("M", SignatureOf(variance, type), body)
    IN  [I |-> [InterfaceDef(1, <<>>, <<m(T0, default)>>) EXCEPT !.variance = <<variance>>],
         J |-> [InterfaceDef(1, <<Itf("I", T0)>>, If(j, <<Private(m(T0, TRUE))>>)) EXCEPT
                   !.variance = <<variance>>,
                   !.overrides = If(j, <<MethodImpl(Itf("I", T0), "M", sig, 1)>>)],
         C |-> [ClassDef(1, SystemObject, <<Itf("I", arg)>>,
                         CASE how = "open" -> <<m(arg, TRUE)>>
                           [] how = "hidden" -> <<Private(m(arg, TRUE))>>
                           [] OTHER -> <<>>) EXCEPT
                   !.overrides = If(how = "hidden", <<MethodImpl(Itf("I", arg), "M", sig, 1)>>)],
         D |-> ClassDef(0, Apply("C", <<Num>>),
                        If(named, <<Itf("J", Closing(arg, Num))>>), <<>>)] @@ Basic
Dispatched(how, arg, j, named) ==
    /\ how = "open" => arg = T0
    /\ j /\ named => how = "none"
InterfaceUniverses ==
    {InterfaceUniverse(variance, default, j, arg, how, named) :
        <<variance, default, j, arg, how, named>> \in
          {u \in Variances \X BOOLEAN \X BOOLEAN \X {T0, Wrapped(T0), Str}
                 \X {"open", "hidden", "none"} \X BOOLEAN : Dispatched(u[5], u[4], u[3], u[6])}}

(* The types and methods the runtime treats by itself, a generic method, and static methods *)
Generic(method) == [method EXCEPT !.arity = 1]
Static(method) == [method EXCEPT !.instance = FALSE]
SpecialUniverse(default, exact) ==
    [MulticastDelegate |-> ClassDef(0, SystemObject, <<>>, <<>>),
     Del |-> ClassDef(0, Simple("MulticastDelegate"), <<>>, <<Declare("Invoke", Taking(Num), FALSE)>>),
     IList |-> InterfaceDef(1, <<>>, <<Declare("Get", Giving(T0), FALSE)>>),
     Array |-> ClassDef(0, SystemObject, <<>>, <<>>),
     SZArrayHelper |-> ClassDef(1, SystemObject, <<>>, <<Declare("Get", Giving(T0), TRUE)>>),
     G |-> ClassDef(0, SystemObject, <<>>,
                    <<Generic(Declare("M", Taking(M0), TRUE)),
                      [Declare("N", Taking(Num), TRUE) EXCEPT !.virtual = FALSE]>>),
     H |-> ClassDef(0, Simple("G"), <<>>,
                    <<Declare("M", Taking(Num), TRUE), Generic(Declare("M", Taking(M0), TRUE))>>),
     K |-> InterfaceDef(1, <<>>, <<Static(Declare("S", Taking(T0), default))>>),
     V |-> TypeDef("struct", 0, SystemValueType, <<Itf("K", Str)>>,
                   <<Static(Declare("S", Taking(IF exact THEN Str ELSE Num), TRUE))>>)] @@ Basic
SpecialUniverses == {SpecialUniverse(default, TRUE) : default \in BOOLEAN} \cup {SpecialUniverse(TRUE, FALSE)}

(* Interfaces In<T> and Out<T> with one variance each, and classes X, Y that name them *)
In(arg) == Apply("In", <<arg>>)
Out(arg) == Apply("Out", <<arg>>)
X == Simple("X")
Y == Simple("Y")
CastUniverses ==
    {[In |-> [InterfaceDef(1, <<>>, <<>>) EXCEPT !.variance = <<"in">>],
      Out |-> [InterfaceDef(1, <<>>, <<>>) EXCEPT !.variance = <<"out">>],
      X |-> ClassDef(0, SystemObject, <<x, z>>, <<>>),
      Y |-> ClassDef(0, X, <<y>>, <<>>)] @@ Basic :
        x \in {In(X), In(Y), In(In(X)), In(In(Y)), Out(In(X))},
        z \in {In(Out(Y)), Out(In(Y))},
        y \in {In(Y), In(In(Y)), Out(In(X))}}

DispatchUniverses == ClassUniverses \cup InterfaceUniverses \cup SpecialUniverses \cup CastUniverses

MethodCall(type, index, receiver, args) ==
    [method |-> Method(type.def, MakeLookup(type), index), receiver |-> receiver, args |-> args]
Call(type, receiver) == MethodCall(type, 1, receiver, <<>>)

MCCalls(d) ==
    IF "B" \in DOMAIN d
    THEN {Call(Closing(d["D"].extends, arg), Apply("D", <<arg>>)) : arg \in {Num, Str}}
         \cup {Call(Closing(d["D"].extends, Num), Simple("E"))}
    ELSE IF "X" \in DOMAIN d THEN {}
    ELSE IF "I" \in DOMAIN d
    THEN LET itf(arg) == Closing(d["C"].implements[1], arg)
         IN  {Call(itf(arg), Apply("C", <<arg>>)) : arg \in {Num, Str}}
             \cup {Call(itf(Num), Simple("D"))}
             \cup (IF itf(Str) = Itf("I", Str) /\ d["I"].variance = <<"out">> /\ d["C"].methods # <<>>
                   THEN {Call(Itf("I", SystemObject), Apply("C", <<Str>>))} ELSE {})
    ELSE {Call(Simple("Del"), Simple("Del")), Call(Itf("IList", Num), Simple("Array")),
          MethodCall(Simple("G"), 1, Simple("H"), <<Num>>), MethodCall(Simple("G"), 1, Simple("H"), <<Str>>),
          MethodCall(Simple("G"), 2, Simple("H"), <<>>)}
MCStaticCalls(d) == IF "V" \in DOMAIN d THEN {Call(Itf("K", Str), Simple("V"))} ELSE {}
MCCastTypes(d) ==
    LET some == {Num, Str, SystemObject, SystemValueType, SystemEnum}
        named == {X, Y, In(X), In(Y), Out(X), Out(Y), In(In(X)), In(In(Y)),
                  In(Out(Y)), Out(In(X)), Out(In(Y))}
    IN  some \cup (IF "X" \in DOMAIN d THEN named ELSE {})
             \cup (IF "V" \in DOMAIN d THEN {Simple("V"), Itf("K", Str)} ELSE {})
MCCasts(d) ==
    CASE "X" \in DOMAIN d -> {<<X, In(X)>>, <<Y, In(Y)>>, <<X, In(In(X))>>, <<Y, Out(In(Y))>>}
      [] "V" \in DOMAIN d -> {Simple("V")} \X {SystemObject, SystemValueType, SystemEnum, Itf("K", Str)}
      [] OTHER -> {}

(* How many threads use the caches: two in the universes with the longest searches *)
MaxActive(d) ==
    IF "B" \in DOMAIN d /\ d["D"].extends = Apply("B", <<Wrapped(T0)>>)
    THEN 2 ELSE 1
Active(t) == filling[t] # Idle \/ \E c \in Caches : front[t][c] # <<>>

MCUniverses == LayoutUniverses \cup DispatchUniverses
HasMethods == "Box" \in DOMAIN defs

Init == defs \in Universes /\ LayoutInit /\ DispatchInit
LayOut ==
    /\ ~HasMethods
    /\ LayoutNext
    /\ Cardinality({t \in Thread : work'[t] # <<>>}) <= MaxBusy(defs)
    /\ UNCHANGED dispatchVars
Resolve ==
    /\ HasMethods
    /\ DispatchNext
    /\ Cardinality({t \in Thread : Active(t)'}) <= MaxActive(defs)
    /\ UNCHANGED layoutVars
Next == (LayOut \/ Resolve) /\ UNCHANGED defs
Spec == Init /\ [][Next]_<<defs, layoutVars, dispatchVars>>
=============================================================================
