------------------------------ MODULE Metadata ------------------------------
(***************************************************************************)
(* The type definitions of the loaded assemblies and the terms built from  *)
(* them: dotnet-types (generics.rs, lib.rs), the ancestors of a type        *)
(* (dotnet-assemblies/src/ancestors.rs) and the predicates of the resolver *)
(* (dotnet-runtime-resolver/src/types.rs).                                  *)
(*                                                                          *)
(* A type is a record of a definition's name and the types it is applied   *)
(* to. "T0" and "T1" stand for the type parameters of the definition in     *)
(* which a term occurs, "M0" for its method's parameter.                    *)
(***************************************************************************)
EXTENDS Naturals, Integers, FiniteSets, Sequences, SequencesExt, TLC

CONSTANTS
    Universes,   \* the sets of definitions considered
    Thread       \* the threads that ask about them

VARIABLE
    defs         \* the definitions loaded: a function from names to records

Apply(d, args) == [def |-> d, args |-> args]
Simple(d) == Apply(d, <<>>)

NoType == Simple("none")
T0 == Simple("T0")
T1 == Simple("T1")
M0 == Simple("M0")

TypeGeneric == {T0, T1}
MethodGeneric == {M0}
Index(var) == IF var = T1 THEN 2 ELSE 1

(* GenericLookup: the type and method arguments in force *)
Lookup(types, methods) == [types |-> types, methods |-> methods]
Empty == Lookup(<<>>, <<>>)
MakeLookup(type) == Lookup(type.args, <<>>)

(* The argument at the first of several indices at which there is one *)
ArgumentAt(args, tried, k) == IF k = 0 THEN NoType ELSE args[tried[k]]
FirstArgument(args, tried) ==
    ArgumentAt(args, tried, SelectInSeq(tried, LAMBDA i : i \in DOMAIN args))

(* lookup_method_generic_with_fallback_indices, on indices counted from 1 *)
MethodFallback(lookup, i) ==
    LET n == Len(lookup.types)
        m == Len(lookup.methods)
    IN  FirstArgument(lookup.methods, <<i, i - n, i - n - 1, i - m, i - m - 1, i - 1>>)

TypeFallback(lookup, i) ==
    LET m == Len(lookup.methods)
    IN  FirstArgument(lookup.types, <<i, i - m, i - m - 1, i - 1>>)

OrType(type, other) == IF type = NoType THEN other ELSE type
ApplyAll(d, args) == IF NoType \in ToSet(args) THEN NoType ELSE Apply(d, args)

RECURSIVE MakeConcrete(_, _)
(* GenericLookup::make_concrete; NoType is its error *)
MakeConcrete(lookup, type) ==
    LET i == Index(type)
    IN  IF type \in TypeGeneric /\ i <= Len(lookup.types)
        THEN lookup.types[i]
        ELSE IF type \in TypeGeneric \cup MethodGeneric
        THEN OrType(MethodFallback(lookup, i),
                    IF type \in MethodGeneric THEN TypeFallback(lookup, i) ELSE NoType)
        ELSE ApplyAll(type.def, [k \in DOMAIN type.args |-> MakeConcrete(lookup, type.args[k])])

Def(type) == defs[type.def]

(* The base of a closed type, its arguments taken from the extends clause of the type *)
Base(type) == MakeConcrete(MakeLookup(type), Def(type).extends)

RECURSIVE Ancestors(_)
(* AssemblyLoader::ancestors, each with the arguments it has in the type *)
Ancestors(type) ==
    IF Def(type).extends = NoType THEN <<type>> ELSE <<type>> \o Ancestors(Base(type))

(* is_value_type, is_byref_like *)
IsValueType(type) == Def(type).kind \in {"struct", "refstruct", "enum", "typedref", "byreference"}
IsByRefLike(type) == Def(type).kind = "refstruct"
=============================================================================
