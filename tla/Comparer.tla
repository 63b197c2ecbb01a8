------------------------------ MODULE Comparer ------------------------------
(***************************************************************************)
(* TypeComparer (dotnet-types/src/comparer.rs): when two types or two       *)
(* signatures are the same, and when a value of one type may be used as     *)
(* another. A comparer lives for one question and keeps what it found out   *)
(* while answering it.                                                      *)
(*                                                                          *)
(* All definitions are in one assembly here, so a definition is identified  *)
(* by its name and the canonical-name fallbacks compare the same thing.     *)
(* Definitions carry "implements", the interfaces a definition names in     *)
(* order, "variance", one of "in", "out" and "none" for each parameter, and *)
(* "methods"; types are System.Object, System.ValueType and System.Enum     *)
(* when the definition has that name.                                       *)
(***************************************************************************)
EXTENDS Metadata

SystemObject == Simple("object")
SystemValueType == Simple("valuetype")
SystemEnum == Simple("enum")

Closed(lookup, types) ==
    SelectSeq([i \in DOMAIN types |-> MakeConcrete(lookup, types[i])], LAMBDA t : t # NoType)
Interfaces(type) == Closed(MakeLookup(type), Def(type).implements)

IsInterface(type) == Def(type).kind = "interface"
(* ConcreteType::is_class: every definition that is not a value type, interfaces included *)
IsClass(type) == ~IsValueType(type)

(***************************************************************************)
(* Equality of the types of two signatures                                  *)
(***************************************************************************)
Placeholders == TypeGeneric \cup MethodGeneric
SamePlaceholder(left, right) == left = right /\ left \in Placeholders

(* resolve_generic_type: unlike MakeConcrete it tries no other index *)
Bound(lookup, type) ==
    LET args == IF type \in TypeGeneric THEN lookup.types ELSE lookup.methods
    IN  IF type \in Placeholders /\ Index(type) \in DOMAIN args THEN args[Index(type)] ELSE NoType

RECURSIVE ConcreteEquals(_, _, _)
EqualsBound(concrete, bound, type, lookup) ==
    IF bound # NoType
    THEN concrete = bound
    ELSE /\ type \notin Placeholders
         /\ concrete.def = type.def
         /\ Len(concrete.args) = Len(type.args)
         /\ \A i \in DOMAIN type.args : ConcreteEquals(concrete.args[i], type.args[i], lookup)
ConcreteEquals(concrete, type, lookup) ==
    EqualsBound(concrete, Bound(lookup, type), type, lookup)

RECURSIVE TypesEqual(_, _, _, _)
(* normalized_method_types_equal, given what the two placeholders are bound to *)
TypesEqualBound(left, leftBound, leftLookup, right, rightBound, rightLookup) ==
    \/ SamePlaceholder(left, right)
    \/ leftBound # NoType /\ ConcreteEquals(leftBound, right, rightLookup)
    \/ leftBound = NoType /\ rightBound # NoType /\ ConcreteEquals(rightBound, left, leftLookup)
    \/ /\ {left, right} \cap Placeholders = {}
       /\ left.def = right.def
       /\ Len(left.args) = Len(right.args)
       /\ \A i \in DOMAIN left.args :
            TypesEqual(left.args[i], leftLookup, right.args[i], rightLookup)
TypesEqual(left, leftLookup, right, rightLookup) ==
    TypesEqualBound(left, Bound(leftLookup, left), leftLookup,
                    right, Bound(rightLookup, right), rightLookup)

(***************************************************************************)
(* Assignability. A question is answered with what the comparer remembers   *)
(* and leaves more remembered: memo maps pairs of types to answers, busy is *)
(* the set of the pairs being worked out.                                   *)
(***************************************************************************)
Verdict(ok, memo) == [ok |-> ok, memo |-> memo]

RECURSIVE IsSubclassOf(_, _, _)
IsOrDerives(base, target, seen) ==
    base = target \/ (base # NoType /\ IsSubclassOf(base, target, seen))
IsSubclassOf(source, target, seen) ==
    /\ source \notin seen
    /\ Def(source).extends # NoType
    /\ IsOrDerives(Base(source), target, seen \cup {source})

RECURSIVE IsAssignableTo(_, _, _, _)
RECURSIVE Compatible(_, _, _, _, _)
RECURSIVE FirstCompatible(_, _, _, _)
RECURSIVE ImplementsInterface(_, _, _, _, _)

(* compatible_with_variance, from the i-th argument on *)
CompatibleArgument(variance, s, t, busy, memo) ==
    CASE variance = "none" -> Verdict(s = t, memo)
      [] variance = "out" -> IsAssignableTo(s, t, busy, memo)
      [] variance = "in" -> IsAssignableTo(t, s, busy, memo)
CompatibleRest(one, source, target, i, busy) ==
    IF one.ok THEN Compatible(source, target, i, busy, one.memo) ELSE one
Compatible(source, target, i, busy, memo) ==
    IF source.def # target.def \/ Len(source.args) # Len(target.args)
    THEN Verdict(FALSE, memo)
    ELSE IF source = target \/ i > Len(source.args)
    THEN Verdict(TRUE, memo)
    ELSE CompatibleRest(CompatibleArgument(Def(source).variance[i], source.args[i], target.args[i],
                                           busy, memo),
                        source, target, i + 1, busy)

CompatibleElse(one, types, target, busy) ==
    IF one.ok THEN one ELSE FirstCompatible(types, target, busy, one.memo)
FirstCompatible(types, target, busy, memo) ==
    IF types = <<>>
    THEN Verdict(FALSE, memo)
    ELSE CompatibleElse(Compatible(Head(types), target, 1, busy, memo), Tail(types), target, busy)

(* The types not seen yet, each once, in order *)
Unseen(types, seen) ==
    LET first(i) == types[i] \notin seen /\ \A j \in 1..(i - 1) : types[j] # types[i]
        kept == SelectSeq([i \in DOMAIN types |-> i], first)
    IN  [k \in DOMAIN kept |-> types[kept[k]]]

(* The interfaces of a type, then its base *)
Above(type) ==
    LET base == IF Def(type).extends = NoType THEN <<>> ELSE <<Def(type).extends>>
    IN  Closed(MakeLookup(type), Def(type).implements \o base)
SearchAbove(found, next, queue, seen, target, busy) ==
    IF found.ok THEN found
    ELSE ImplementsInterface(queue \o next, seen \cup ToSet(next), target, busy, found.memo)
ImplementsInterface(queue, seen, target, busy, memo) ==
    IF queue = <<>>
    THEN Verdict(FALSE, memo)
    ELSE SearchAbove(FirstCompatible(Interfaces(Head(queue)), target, busy, memo),
                     Unseen(Above(Head(queue)), seen), Tail(queue), seen, target, busy)

AssignableByKind(variant, source, target, busy) ==
    IF variant.ok THEN variant
    ELSE IF target = SystemObject THEN [variant EXCEPT !.ok = TRUE]
    ELSE IF target = SystemEnum THEN [variant EXCEPT !.ok = IsSubclassOf(source, target, {})]
    ELSE IF target = SystemValueType THEN [variant EXCEPT !.ok = IsValueType(source)]
    ELSE IF IsInterface(target)
    THEN ImplementsInterface(<<source>>, {source}, target, busy, variant.memo)
    ELSE [variant EXCEPT !.ok = IsClass(target) /\ IsSubclassOf(source, target, {})]

(* A pair met again while it is being worked out is taken to hold *)
Remember(pair, found) == Verdict(found.ok, (pair :> found.ok) @@ found.memo)
IsAssignableTo(source, target, busy, memo) ==
    LET pair == <<source, target>>
        inside == busy \cup {pair}
    IN  IF pair \in DOMAIN memo THEN Verdict(memo[pair], memo)
        ELSE IF pair \in busy THEN Verdict(TRUE, memo)
        ELSE Remember(pair, AssignableByKind(Compatible(source, target, 1, inside, memo),
                                             source, target, inside))

(* A question put to a new comparer *)
NoMemo == [pair \in {} |-> TRUE]
Assignable(source, target) == IsAssignableTo(source, target, {}, NoMemo).ok

(***************************************************************************)
(* Signatures and the methods that have them                                *)
(***************************************************************************)
(* A variant return ignores whether a reference is returned; a variant parameter
   passed by reference keeps its type *)
VariantTypes(source, sourceLookup, target, targetLookup) ==
    LET closed(s, t) == s # NoType /\ t # NoType /\ Assignable(s, t)
    IN  closed(MakeConcrete(sourceLookup, source), MakeConcrete(targetLookup, target))

ParamEqual(a, aLookup, b, bLookup) ==
    a.byref = b.byref /\ TypesEqual(a.type, aLookup, b.type, bLookup)

ReturnsMatch(variant, a, aLookup, b, bLookup) ==
    IF NoType \in {a.type, b.type} THEN a.type = b.type
    ELSE IF variant THEN VariantTypes(b.type, bLookup, a.type, aLookup)
    ELSE ParamEqual(a, aLookup, b, bLookup)

ParametersMatch(variant, a, aLookup, b, bLookup) ==
    IF variant /\ ~a.byref /\ ~b.byref
    THEN VariantTypes(a.type, aLookup, b.type, bLookup)
    ELSE ParamEqual(a, aLookup, b, bLookup)

SignaturesMatch(variant, a, aLookup, b, bLookup) ==
    /\ a.instance = b.instance
    /\ Len(a.params) = Len(b.params)
    /\ ReturnsMatch(variant, a.ret, aLookup, b.ret, bLookup)
    /\ \A i \in DOMAIN a.params :
         ParametersMatch(variant, a.params[i], aLookup, b.params[i], bLookup)

(* MethodDescription: a member of a definition and the arguments of its declaring type *)
Method(d, lookup, index) == [def |-> d, lookup |-> lookup, index |-> index]
NoMethod == Method("none", Empty, 0)
Member(method) == defs[method.def].methods[method.index]

(* find_method_in_type_internal: the last method of the name that has the signature *)
LastMethod(d, lookup, matches) ==
    IF matches = {} THEN NoMethod ELSE Method(d, lookup, CHOOSE i \in matches : \A j \in matches : j <= i)
FindMethod(d, name, signature, sigLookup, typeLookup, variant) ==
    LET methods == defs[d].methods
    IN  LastMethod(d, typeLookup,
                   {i \in DOMAIN methods :
                      /\ methods[i].name = name
                      /\ SignaturesMatch(variant, signature, sigLookup, methods[i], typeLookup)})

(* locate_method: of a definition, and of a reference to a method of a type *)
LocateDefinition(d, index, lookup) ==
    Method(d, Lookup(SubSeq(lookup.types, 1, IF defs[d].arity < Len(lookup.types)
                                             THEN defs[d].arity ELSE Len(lookup.types)), <<>>),
           index)

LocateIn(parent, name, signature, lookup) ==
    LET own == Lookup(parent.args, lookup.methods)
        rebound(found) == IF found = NoMethod THEN found
                          ELSE [found EXCEPT !.lookup = MakeLookup(parent)]
    IN  IF parent = NoType THEN NoMethod
        ELSE rebound(FindMethod(parent.def, name, signature, own, own, FALSE))
LocateReference(type, name, signature, lookup) ==
    LocateIn(MakeConcrete(lookup, type), name, signature, lookup)
=============================================================================
