---------------------------- MODULE RuntimeTypes -----------------------------
(***************************************************************************)
(* What reflection answers about types and members: RuntimeType             *)
(* (dotnet-types/src/runtime.rs) and the queries of                         *)
(* dotnet-intrinsics-reflection (types/type_queries.rs,                     *)
(* types/type_construction.rs, types/type_members.rs, methods.rs).          *)
(*                                                                          *)
(* A runtime type is a term: the structural description that a Type object *)
(* stands for. Several terms may denote one type; the canonical ones are    *)
(* those RuntimeTypeFromConcrete builds. Definitions carry, beside what     *)
(* Comparer and Objects use, "accessors", the methods of their properties,  *)
(* "properties", whose getter and setter are positions in "accessors" or 0, *)
(* and "attributes".                                                        *)
(***************************************************************************)
EXTENDS Objects

CONSTANT
    CaseVariants      \* names that differ from another one by case only, and that name

Term(form, def, args) == [form |-> form, def |-> def, args |-> args]
Primitive(d) == Term("primitive", d, <<>>)
TypeTerm(d) == Term("type", d, <<>>)
GenericTerm(d, args) == Term("generic", d, args)
VectorTerm(element) == Term("vector", "[]", <<element>>)
ByRefTerm(target) == Term("byref", "&", <<target>>)
TypeParameter(d, i) == Term("parameter", <<"T0", "T1">>[i], <<TypeTerm(d)>>)
MethodParameter(d, name) == Term("methodparameter", "M0", <<TypeTerm(d), Term("method", name, <<>>)>>)
NoTerm == Term("none", "none", <<>>)
VoidTerm == Primitive("void")

(* The types with a variant of their own *)
SimpleNames == {"void", "typedref", "byte", "int", "nint", "object", "str"}

OpenTerm(d) == GenericTerm(d, [i \in 1..defs[d].arity |-> TypeParameter(d, i)])

(***************************************************************************)
(* Between types and terms                                                  *)
(***************************************************************************)
RECURSIVE RuntimeTypeFromConcrete(_), ToConcrete(_)
(* A generic definition without arguments stands for the open type *)
RuntimeTypeFromConcrete(type) ==
    IF type.def \in SimpleNames THEN Primitive(type.def)
    ELSE IF IsVector(type) THEN VectorTerm(RuntimeTypeFromConcrete(Element(type)))
    ELSE IF type.args # <<>>
    THEN GenericTerm(type.def, [i \in DOMAIN type.args |-> RuntimeTypeFromConcrete(type.args[i])])
    ELSE IF defs[type.def].arity > 0 THEN OpenTerm(type.def)
    ELSE TypeTerm(type.def)

(* A parameter becomes System.Object, a managed reference the struct ByReference<T> *)
ToConcrete(term) ==
    CASE term.form \in {"parameter", "methodparameter"} -> SystemObject
      [] term.form = "byref" -> Apply("ByReference", <<ToConcrete(term.args[1])>>)
      [] OTHER -> Apply(term.def, [i \in DOMAIN term.args |-> ToConcrete(term.args[i])])

(* runtime_type_from_method_type; NoTerm is its None *)
TermOrNone(type) == IF type = NoType THEN NoTerm ELSE RuntimeTypeFromConcrete(type)
FromMethodType(lookup, type) == TermOrNone(MakeConcrete(lookup, type))

(* common::make_runtime_type, of a type that cannot be closed *)
RECURSIVE Structural(_, _, _)
Structural(d, name, type) ==
    IF type \in TypeGeneric THEN TypeParameter(d, Index(type))
    ELSE IF type \in MethodGeneric THEN MethodParameter(d, name)
    ELSE IF type.args = <<>> THEN RuntimeTypeFromConcrete(type)
    ELSE Term(IF IsVector(type) THEN "vector" ELSE "generic", type.def,
              [i \in DOMAIN type.args |-> Structural(d, name, type.args[i])])

(* reflection_make_runtime_type_for_method *)
OrStructural(term, d, name, type) == IF term = NoTerm THEN Structural(d, name, type) ELSE term
TermForMethod(d, name, lookup, type) == OrStructural(FromMethodType(lookup, type), d, name, type)

IsDefinitionTerm(term) == term.form \in {"type", "generic"}
(* build_generic_lookup_from_runtime_type *)
LookupOf(term) ==
    IF term.form = "generic"
    THEN Lookup([i \in DOMAIN term.args |-> ToConcrete(term.args[i])], <<>>) ELSE Empty
(* find_concrete_type *)
DefinitionOf(type) == IF IsVector(type) THEN "Array" ELSE type.def

(* member_lookup_target *)
TargetOf(term) ==
    [def |-> IF IsDefinitionTerm(term) THEN term.def ELSE DefinitionOf(ToConcrete(term)),
     lookup |-> LookupOf(term)]

(***************************************************************************)
(* Queries on types                                                         *)
(***************************************************************************)
BaseOf(d, lookup) ==
    IF defs[d].extends = NoType THEN NoTerm ELSE FromMethodType(lookup, defs[d].extends)
(* handle_get_base_type; the lookup of a type that is no definition is that of its concrete form *)
GetBaseType(term) ==
    BaseOf(TargetOf(term).def, IF IsDefinitionTerm(term) THEN LookupOf(term) ELSE MakeLookup(ToConcrete(term)))

InterfaceTerms(target) ==
    LET named == defs[target.def].implements
        terms == [i \in DOMAIN named |-> FromMethodType(target.lookup, named[i])]
    IN  SelectSeq(terms, LAMBDA term : term # NoTerm)
Targets(terms) ==
    LET queued == SelectSeq(terms, IsDefinitionTerm) IN [i \in DOMAIN queued |-> TargetOf(queued[i])]
BaseTerms(target) ==
    LET base == BaseOf(target.def, target.lookup) IN IF base = NoTerm THEN <<>> ELSE <<base>>

RECURSIVE Traverse(_, _, _)
(* traverse_interfaces_and_base_types: the interfaces met, each once, in order; the
   interfaces of an interface are met only when interfaces are queued too *)
TraverseFrom(new, target, queue, seen, deep) ==
    Traverse(queue \o (IF deep THEN Targets(new) ELSE <<>>) \o Targets(BaseTerms(target)),
             seen \o new, deep)
Traverse(queue, seen, deep) ==
    IF queue = <<>> THEN seen
    ELSE TraverseFrom(Unseen(InterfaceTerms(Head(queue)), ToSet(seen)), Head(queue), Tail(queue), seen, deep)

(* handle_get_interfaces *)
GetInterfaces(term) == Traverse(<<TargetOf(term)>>, <<>>, FALSE)
SameName(a, b, ignoreCase) ==
    LET folded(n) == IF n \in DOMAIN CaseVariants THEN CaseVariants[n] ELSE n
    IN  a = b \/ (ignoreCase /\ folded(a) = folded(b))
FirstOr(seq, none) == IF seq = <<>> THEN none ELSE Head(seq)
(* handle_get_interface: the search stops at the first of the name *)
GetInterface(term, name, ignoreCase) ==
    FirstOr(SelectSeq(Traverse(<<TargetOf(term)>>, <<>>, TRUE), LAMBDA t : SameName(t.def, name, ignoreCase)),
            NoTerm)

HasElementType(term) == term.form \in {"vector", "byref"}
GetElementType(term) == IF HasElementType(term) THEN term.args[1] ELSE NoTerm
MakeArrayType(term) == VectorTerm(term)
MakeByRefType(term) == ByRefTerm(term)
(* handle_make_generic_type: neither the arity nor that the type is open is looked at *)
MakeGenericType(term, args) == GenericTerm(term.def, args)

AllParameters(args) == \A i \in DOMAIN args : args[i].form = "parameter"
IsGenericType(term) == term.form = "generic"
IsGenericTypeDefinition(term) == IsGenericType(term) /\ term.args # <<>> /\ AllParameters(term.args)
IsConstructedGenericType(term) == IsGenericType(term) /\ ~AllParameters(term.args)
GetGenericTypeDefinition(term) == OpenTerm(term.def)
GetGenericArguments(term) == IF IsGenericType(term) THEN term.args ELSE <<>>

TermIsEnum(term) == IsDefinitionTerm(term) /\ defs[term.def].kind = "enum"
GetEnumUnderlyingType(term) == FromMethodType(Empty, defs[term.def].fields[1].type)

(***************************************************************************)
(* Members. A set of binding flags holds "instance", "static", "public",    *)
(* "nonpublic" and "ignorecase".                                            *)
(***************************************************************************)
Accessors(d) == defs[d].methods \o defs[d].accessors
MethodOf(m) == Accessors(m.def)[m.index]
MethodKey(d, lookup, index) == [method |-> Method(d, lookup, index), lookup |-> lookup]
FieldKey(d, lookup, index) == [def |-> d, index |-> index, lookup |-> lookup]
NoMember == MethodKey("none", Empty, 0)
NoField == FieldKey("none", Empty, 0)

(* member_matches_binding_flags *)
MatchesBindingFlags(public, static, flags) ==
    /\ (IF public THEN "public" ELSE "nonpublic") \in flags
    /\ (IF static THEN "static" ELSE "instance") \in flags

IsConstructor(method) == method.name = ".ctor"
IsOrdinary(method) == method.name \notin {".ctor", ".cctor"}
AnyName == ""
NameMatches(filter, name, flags) == filter = AnyName \/ SameName(name, filter, "ignorecase" \in flags)

Positions(seq, holds(_)) == SelectSeq([i \in DOMAIN seq |-> i], LAMBDA i : holds(seq[i]))
MethodKeys(target, holds(_)) ==
    LET found == Positions(defs[target.def].methods, holds)
    IN  [k \in DOMAIN found |-> MethodKey(target.def, target.lookup, found[k])]
BindsTo(method, flags) == MatchesBindingFlags(method.public, ~method.instance, flags)

(* handle_get_methods, handle_get_constructors and push_method_members_if_match *)
OrdinaryMethods(target, name, flags) ==
    MethodKeys(target, LAMBDA m : IsOrdinary(m) /\ NameMatches(name, m.name, flags) /\ BindsTo(m, flags))
ConstructorsOf(target, name, flags) ==
    MethodKeys(target, LAMBDA m : IsConstructor(m) /\ NameMatches(name, m.name, flags) /\ BindsTo(m, flags))
GetMethods(term, flags) == OrdinaryMethods(TargetOf(term), AnyName, flags)
GetConstructors(term, flags) ==
    IF IsDefinitionTerm(term) THEN ConstructorsOf(TargetOf(term), AnyName, flags) ELSE <<>>
(* handle_get_constructor_impl: the types of the parameters are not looked at *)
GetConstructor(term, flags) == FirstOr(GetConstructors(term, flags), NoMember)

(* runtime_type_from_parameter, method_parameter_runtime_types, resolve_return_type *)
ParameterTerm(key, param) ==
    LET term == TermForMethod(key.method.def, MethodOf(key.method).name, key.lookup, param.type)
    IN  IF param.byref THEN ByRefTerm(term) ELSE term
ParameterTerms(key) ==
    [i \in DOMAIN MethodOf(key.method).params |-> ParameterTerm(key, MethodOf(key.method).params[i])]
ReturnTerm(key) ==
    IF MethodOf(key.method).ret.type = NoType THEN VoidTerm
    ELSE TermForMethod(key.method.def, MethodOf(key.method).name, key.lookup, MethodOf(key.method).ret.type)

(* handle_get_method_impl: constructors are not left out *)
GetMethod(term, name, flags, arities, types) ==
    FirstOr(SelectSeq(MethodKeys(TargetOf(term),
                                 LAMBDA m : NameMatches(name, m.name, flags) /\ m.arity \in arities /\ BindsTo(m, flags)),
                      LAMBDA key : types = <<NoTerm>> \/ ParameterTerms(key) = types),
            NoMember)

FieldKeys(target, name, flags) ==
    LET fields == defs[target.def].fields
        found == Positions(fields, LAMBDA f : NameMatches(name, f.name, flags)
                                              /\ MatchesBindingFlags(f.public, f.static, flags))
    IN  [k \in DOMAIN found |-> FieldKey(target.def, target.lookup, found[k])]
GetFields(term, flags) ==
    IF IsDefinitionTerm(term) THEN FieldKeys(TargetOf(term), AnyName, flags) ELSE <<>>
(* handle_get_field: names are compared exactly whatever the flags *)
GetFieldNamed(term, name, flags) ==
    IF IsDefinitionTerm(term)
    THEN FirstOr(FieldKeys(TargetOf(term), name, flags \ {"ignorecase"}), NoField) ELSE NoField
FieldTerm(key) == FromMethodType(key.lookup, defs[key.def].fields[key.index].type)

(* PropertyCandidate: positions in Accessors, 0 where there is none *)
Candidate(d, name, getter, setter) == [def |-> d, name |-> name, getter |-> getter, setter |-> setter]
NoProperty == Candidate("none", "", 0, 0)
(* property_accessor_descriptions: a missing accessor is looked for among the methods by its name *)
AccessorOr(d, position, named(_)) ==
    IF position > 0 THEN Len(defs[d].methods) + position
    ELSE SelectInSeq(defs[d].methods, named)
Declared(d, property) ==
    Candidate(d, property.name,
              AccessorOr(d, property.getter, LAMBDA m : m.gets = property.name),
              AccessorOr(d, property.setter, LAMBDA m : m.sets = property.name))
(* The names of the accessors among the methods, in the order of a BTreeMap; the last one of a name wins *)
SyntheticNames(d) ==
    SetToSeq(UNION {{m.gets, m.sets} : m \in ToSet(defs[d].methods)} \ {""})
Synthetic(d, name) ==
    Candidate(d, name, SelectLastInSeq(defs[d].methods, LAMBDA m : m.gets = name),
              SelectLastInSeq(defs[d].methods, LAMBDA m : m.sets = name))
(* collect_property_candidates *)
PropertyCandidates(d) ==
    LET properties == defs[d].properties
    IN  IF properties # <<>>
        THEN [i \in DOMAIN properties |-> Declared(d, properties[i])]
        ELSE [i \in DOMAIN SyntheticNames(d) |-> Synthetic(d, SyntheticNames(d)[i])]

(* property_matches_binding_flags: one accessor may have the visibility, another the binding *)
PropertyMatches(p, flags) ==
    LET has == {Accessors(p.def)[i] : i \in {p.getter, p.setter} \ {0}}
    IN  /\ \E m \in has : (IF m.public THEN "public" ELSE "nonpublic") \in flags
        /\ \E m \in has : (IF m.instance THEN "instance" ELSE "static") \in flags
Properties(target, name, flags) ==
    SelectSeq(PropertyCandidates(target.def),
              LAMBDA p : NameMatches(name, p.name, flags) /\ PropertyMatches(p, flags))
GetProperties(term, flags) ==
    IF IsDefinitionTerm(term) THEN Properties(TargetOf(term), AnyName, flags) ELSE <<>>

(* property_signature_runtime_types: the last parameter of a setter is the value *)
PropertyTypes(p, lookup) ==
    IF p.getter # 0
    THEN LET getter == MethodKey(p.def, lookup, p.getter) IN [type |-> ReturnTerm(getter), index |-> ParameterTerms(getter)]
    ELSE LET types == ParameterTerms(MethodKey(p.def, lookup, p.setter)) IN [type |-> Last(types), index |-> Front(types)]
GetProperty(term, name, flags, type) ==
    IF IsDefinitionTerm(term)
    THEN FirstOr(SelectSeq(Properties(TargetOf(term), name, flags),
                           LAMBDA p : type = NoTerm \/ PropertyTypes(p, LookupOf(term)).type = type), NoProperty)
    ELSE NoProperty

(* collect_type_member_infos, of all kinds *)
GetMembers(term, name, flags) ==
    LET target == TargetOf(term)
    IN  [methods |-> OrdinaryMethods(target, name, flags), constructors |-> ConstructorsOf(target, name, flags),
         fields |-> FieldKeys(target, name, flags), properties |-> Properties(target, name, flags)]

(***************************************************************************)
(* Methods                                                                  *)
(***************************************************************************)
Prefix(seq, n) == SubSeq(seq, 1, IF n < Len(seq) THEN n ELSE Len(seq))
(* declaring_runtime_type *)
DeclaringTerm(key) ==
    LET d == key.method.def
        arity == defs[d].arity
        of(args) == GenericTerm(d, [i \in 1..arity |-> RuntimeTypeFromConcrete(args[i])])
    IN  IF arity = 0 THEN RuntimeTypeFromConcrete(Simple(d))
        ELSE IF Len(key.lookup.types) >= arity THEN of(key.lookup.types)
        ELSE IF Len(key.method.lookup.types) >= arity THEN of(key.method.lookup.types)
        ELSE RuntimeTypeFromConcrete(Simple(d))

IsGenericMethod(key) == MethodOf(key.method).arity > 0
IsGenericMethodDefinition(key) == IsGenericMethod(key) /\ key.lookup.methods = <<>>
GetGenericMethodDefinition(key) == [key EXCEPT !.lookup.methods = <<>>]
MakeGenericMethod(key, args) == [key EXCEPT !.lookup.methods = [i \in DOMAIN args |-> ToConcrete(args[i])]]
MethodGenericArguments(key) ==
    [i \in 1..MethodOf(key.method).arity |->
       IF Len(key.lookup.methods) >= MethodOf(key.method).arity
       THEN RuntimeTypeFromConcrete(key.lookup.methods[i])
       ELSE MethodParameter(key.method.def, MethodOf(key.method).name)]

Trimmed(key) == Lookup(key.lookup.types, Prefix(key.lookup.methods, MethodOf(key.method).arity))

RECURSIVE BaseDefinition(_, _, _, _)
BetterBase(found, lookup, best) ==
    IF found # NoMethod /\ MethodOf(found).virtual THEN [method |-> found, lookup |-> lookup] ELSE best
(* Mutant: the arguments of the method's own class are kept all the way up. *)
BaseLookupKept(parent, lookup) == lookup

(* The arguments a base class has in its derived class *)
BaseLookup(parent, lookup) ==
    Lookup([i \in DOMAIN parent.args |-> MakeConcrete(lookup, parent.args[i])], lookup.methods)

(* The walk of resolve_base_method_definition up from a definition: the last match is the base *)
BaseDefinition(original, d, lookup, best) ==
    IF defs[d].extends = NoType THEN best
    ELSE LET parent == defs[d].extends
             above == BaseLookup(parent, lookup)
             m == MethodOf(original.method)
         IN  BaseDefinition(original, parent.def, above,
                            BetterBase(FindMethod(parent.def, m.name, m,
                                                  Lookup(original.method.lookup.types, lookup.methods), above, FALSE),
                                       above, best))
(* resolve_base_method_definition *)
GetBaseDefinition(key) ==
    LET self == [method |-> key.method, lookup |-> Trimmed(key)]
        m == MethodOf(key.method)
    IN  IF ~m.virtual \/ m.newslot THEN self
        ELSE BaseDefinition(key, key.method.def, Trimmed(key), self)
=============================================================================
