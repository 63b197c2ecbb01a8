----------------------------- MODULE Reflection ------------------------------
(***************************************************************************)
(* The objects of reflection. A Type, MethodInfo, ConstructorInfo or        *)
(* FieldInfo holds the index of what it mirrors in a table that all threads *)
(* share (dotnet-vm/src/stack/reflection_ops_impl.rs); each thread keeps    *)
(* the mirrors it has made (dotnet-intrinsics-reflection/src/common.rs). An *)
(* intrinsic reads what its receiver mirrors, works out its answer, of      *)
(* which RuntimeTypes says what it is, and makes the mirrors of the answer  *)
(* one after another.                                                       *)
(*                                                                          *)
(* The second part are the intrinsics that read and write values: fields,   *)
(* the arguments of an invocation, attributes and new instances, which are  *)
(* further instructions on the state of Objects.                            *)
(***************************************************************************)
EXTENDS RuntimeTypes

CONSTANTS
    Roots(_),       \* the runtime types a program names with ldtoken
    Queries(_),     \* what it asks of a mirror
    MaxMirrors,     \* how many mirrors there are before threads ask for no more
    IndexBits       \* the width of a method or field index

VARIABLES
    registry,       \* by kind, [index, keys, next]: the index of a key, the key of an index
    mirrors,        \* by thread, the mirrors it made
    known,          \* by thread, the mirror of each goal: its object caches
    job             \* by thread, the intrinsic it is in

reflectionVars == <<registry, mirrors, known, job>>

Query(op, name, flags, terms) == [op |-> op, name |-> name, flags |-> flags, terms |-> terms]
Goal(kind, key) == [kind |-> kind, key |-> key]
TypeGoal(term) == Goal("type", term)
Goals(kind, keys) == [i \in DOMAIN keys |-> Goal(kind, keys[i])]
Unless(none, kind, key) == IF key = none THEN <<>> ELSE <<Goal(kind, key)>>

PropertyKey(term, p) == [declaring |-> term, property |-> p, lookup |-> LookupOf(term)]
PropertyGoals(term, candidates) ==
    [i \in DOMAIN candidates |-> Goal("property", PropertyKey(term, candidates[i]))]

(***************************************************************************)
(* What an intrinsic answers                                                *)
(***************************************************************************)
MemberGoals(term, members) ==
    Goals("method", members.methods) \o Goals("method", members.constructors)
    \o Goals("field", members.fields) \o PropertyGoals(term, members.properties)
(* runtime_type_handle_intrinsic_call *)
OnType(q, term) ==
    CASE q.op = "GetBaseType" -> Unless(NoTerm, "type", GetBaseType(term))
      [] q.op = "GetInterfaces" -> Goals("type", GetInterfaces(term))
      [] q.op = "GetInterface" -> Unless(NoTerm, "type", GetInterface(term, q.name, "ignorecase" \in q.flags))
      [] q.op = "GetElementType" -> Unless(NoTerm, "type", GetElementType(term))
      [] q.op = "MakeArrayType" -> <<TypeGoal(MakeArrayType(term))>>
      [] q.op = "MakeByRefType" -> <<TypeGoal(MakeByRefType(term))>>
      [] q.op = "MakeGenericType" -> IF IsDefinitionTerm(term) THEN <<TypeGoal(MakeGenericType(term, q.terms))>> ELSE <<>>
      [] q.op = "GetGenericTypeDefinition" -> IF IsGenericType(term) THEN <<TypeGoal(GetGenericTypeDefinition(term))>> ELSE <<>>
      [] q.op = "GetGenericArguments" -> Goals("type", GetGenericArguments(term))
      [] q.op = "GetEnumUnderlyingType" -> IF TermIsEnum(term) THEN <<TypeGoal(GetEnumUnderlyingType(term))>> ELSE <<>>
      [] q.op = "GetMethods" -> Goals("method", GetMethods(term, q.flags))
      [] q.op = "GetMethod" -> Unless(NoMember, "method", GetMethod(term, q.name, q.flags, {0, 1}, q.terms))
      [] q.op = "GetConstructors" -> Goals("method", GetConstructors(term, q.flags))
      [] q.op = "GetConstructor" -> Unless(NoMember, "method", GetConstructor(term, q.flags))
      [] q.op = "GetFields" -> Goals("field", GetFields(term, q.flags))
      [] q.op = "GetField" -> Unless(NoField, "field", GetFieldNamed(term, q.name, q.flags))
      [] q.op = "GetProperties" -> PropertyGoals(term, GetProperties(term, q.flags))
      [] q.op = "GetProperty" ->
           LET p == GetProperty(term, q.name, q.flags, NoTerm)
           IN  IF p = NoProperty THEN <<>> ELSE PropertyGoals(term, <<p>>)
      [] q.op = "GetMembers" -> MemberGoals(term, GetMembers(term, AnyName, q.flags))
      [] q.op = "GetMember" -> MemberGoals(term, GetMembers(term, q.name, q.flags))
      [] OTHER -> <<>>

(* runtime_method_info_intrinsic_call and runtime_parameter_info_intrinsic_call. GetParameters
   stores the index of the method in its result, and the type of a parameter is asked of that *)
OnMethod(q, key) ==
    CASE q.op = "GetDeclaringType" -> <<TypeGoal(DeclaringTerm(key))>>
      [] q.op = "GetReturnType" -> <<TypeGoal(ReturnTerm(key))>>
      [] q.op = "GetParameterType" -> Goals("type", ParameterTerms(key))
      [] q.op = "GetBaseDefinition" -> <<Goal("method", GetBaseDefinition(key))>>
      [] q.op = "GetGenericArguments" -> Goals("type", MethodGenericArguments(key))
      [] q.op = "GetGenericMethodDefinition" ->
           IF IsGenericMethod(key) THEN <<Goal("method", GetGenericMethodDefinition(key))>> ELSE <<>>
      [] q.op = "MakeGenericMethod" ->
           IF IsGenericMethod(key) /\ Len(q.terms) = MethodOf(key.method).arity
           THEN <<Goal("method", MakeGenericMethod(key, q.terms))>> ELSE <<>>
      [] OTHER -> <<>>

OnField(q, key) == IF q.op = "GetFieldType" THEN <<TypeGoal(FieldTerm(key))>> ELSE <<>>

Answer(q, goal) ==
    CASE goal.kind = "type" -> OnType(q, goal.key)
      [] goal.kind = "method" -> OnMethod(q, goal.key)
      [] goal.kind = "field" -> OnField(q, goal.key)

(***************************************************************************)
(* Making mirrors                                                           *)
(***************************************************************************)
(* create_runtime_property_obj: the accessors and types are mirrored first; the object is
   cached under its getter, or else its setter *)
AccessorKey(key, position) == MethodKey(key.property.def, key.lookup, position)
AccessorGoals(key, position) == IF position = 0 THEN <<>> ELSE <<Goal("method", AccessorKey(key, position))>>
Parts(key) ==
    AccessorGoals(key, key.property.getter) \o AccessorGoals(key, key.property.setter)
    \o <<TypeGoal(key.declaring), TypeGoal(PropertyTypes(key.property, key.lookup).type)>>
CacheKey(goal) ==
    IF goal.kind = "property"
    THEN LET p == goal.key.property
         IN  Goal("property", AccessorKey(goal.key, IF p.getter # 0 THEN p.getter ELSE p.setter))
    ELSE goal
Expanded(goal) == IF goal.kind = "property" THEN Append(Parts(goal.key), goal) ELSE <<goal>>
ExpandedAll(goals) == FlattenSeq([i \in DOMAIN goals |-> Expanded(goals[i])])

Uncached(goals, cache) == SelectSeq(goals, LAMBDA g : CacheKey(g) \notin DOMAIN cache)
Todo(goals, cache) == ExpandedAll(Uncached(goals, cache))
(* What is left to do once the mirrors already made are dropped *)
RECURSIVE Left(_, _)
Left(todo, cache) ==
    IF todo # <<>> /\ CacheKey(Head(todo)) \in DOMAIN cache THEN Left(Tail(todo), cache) ELSE todo

Job(stage, query, subject, todo, index) ==
    [stage |-> stage, query |-> query, subject |-> subject, todo |-> todo, index |-> index]
NoQuery == Query("none", "", {}, <<>>)
Free == Job("idle", NoQuery, TypeGoal(NoTerm), <<>>, 0)
Current(t) == Head(job[t].todo)
Pending == FoldFunction(LAMBDA j, n : n + Len(j.todo), 0, job)
MirrorsMade == FoldFunction(LAMBDA made, n : n + Len(made), 0, mirrors)

Started(t, q, subject, goals) ==
    /\ MirrorsMade + Pending < MaxMirrors
    /\ job' = [job EXCEPT ![t] = Job("begun", q, subject, goals, 0)]
    /\ UNCHANGED <<registry, mirrors, known>>
Start(t, q, subject, goals) == Started(t, q, subject, Left(Todo(goals, known[t]), known[t]))

(* ldtoken, and Type.GetTypeFromHandle of the handle it makes *)
LdToken(t) ==
    /\ job[t] = Free
    /\ \E term \in Roots(defs) : Start(t, Query("ldtoken", "", {}, <<>>), TypeGoal(term), <<TypeGoal(term)>>)

(* The code takes any arguments for any definition, though it says that MakeGenericType "may
   only be called on a type for which IsGenericTypeDefinition is true": a program gives a generic
   type as many arguments as it has parameters *)
Sensible(q, goal) ==
    IF q.op = "MakeGenericType" /\ IsDefinitionTerm(goal.key)
    THEN IsGenericType(goal.key) /\ Len(q.terms) = defs[goal.key.def].arity ELSE TRUE

(* resolve_runtime_type, resolve_runtime_method, resolve_runtime_field: an index that is not in
   the table panics. The receiver may be a mirror another thread made *)
Receive(t, q, mirror) ==
    IF mirror.index \in DOMAIN registry[mirror.kind].keys
    THEN LET subject == Goal(mirror.kind, registry[mirror.kind].keys[mirror.index])
         IN  Sensible(q, subject) /\ Start(t, q, subject, Answer(q, subject))
    ELSE job' = [job EXCEPT ![t].stage = "panic"] /\ UNCHANGED <<registry, mirrors, known>>
Ask(t) ==
    /\ job[t] = Free
    /\ \E u \in Thread : \E i \in DOMAIN mirrors[u] : \E q \in Queries(defs)[mirrors[u][i].kind] :
         Receive(t, q, mirrors[u][i])

Width(kind, index) == IF kind = "type" THEN index ELSE index % 2 ^ IndexBits
(* alloc_reflection_obj, and the entry in the thread's cache *)
Made(t, mirror) ==
    LET cache == (CacheKey(Current(t)) :> Len(mirrors[t]) + 1) @@ known[t]
    IN  /\ mirrors' = [mirrors EXCEPT ![t] = Append(@, mirror)]
        /\ known' = [known EXCEPT ![t] = cache]
        /\ job' = [job EXCEPT ![t] = [@ EXCEPT !.stage = "making", !.todo = Left(Tail(@), cache), !.index = 0]]
Mirror(kind, index, parts) == [kind |-> kind, index |-> index, parts |-> parts]
MakeIndexed(t, index) == Made(t, Mirror(Current(t).kind, Width(Current(t).kind, index), <<>>))

Working(t) == job[t].stage \in {"begun", "making"} /\ job[t].todo # <<>>
Registered(goal) == goal.key \in DOMAIN registry[goal.kind].index
Indexed(t) == Working(t) /\ Current(t).kind # "property"

(* Mutant: the entry of the key is not held while it is filled. *)
EntryNotHeld(t) == TRUE

(* The entry of a key is locked by the thread that found it vacant *)
EntryFree(t) ==
    \A u \in Thread \ {t} : job[u].stage \in {"reserved", "listed"} => Current(u) # Current(t)

(* shared_reflection_index_get_or_insert, of a key that has an index *)
Occupied(t) ==
    /\ Indexed(t) /\ Registered(Current(t))
    /\ MakeIndexed(t, registry[Current(t).kind].index[Current(t).key])
    /\ UNCHANGED registry
(* ... and of one that has none: an index is taken, the key entered under the index, and then
   the index under the key *)
Reserve(t) ==
    /\ Indexed(t) /\ ~Registered(Current(t)) /\ EntryFree(t)
    /\ job' = [job EXCEPT ![t].stage = "reserved", ![t].index = registry[Current(t).kind].next]
    /\ registry' = [registry EXCEPT ![Current(t).kind].next = @ + 1]
    /\ UNCHANGED <<mirrors, known>>
List(t) ==
    /\ job[t].stage = "reserved"
    /\ registry' = [registry EXCEPT ![Current(t).kind].keys = (job[t].index :> Current(t).key) @@ @]
    /\ job' = [job EXCEPT ![t].stage = "listed"]
    /\ UNCHANGED <<mirrors, known>>
Register(t) ==
    /\ job[t].stage = "listed"
    /\ registry' = [registry EXCEPT ![Current(t).kind].index = (Current(t).key :> job[t].index) @@ @]
    /\ MakeIndexed(t, job[t].index)

PartMirrors(t, key) == [i \in DOMAIN Parts(key) |-> known[t][Parts(key)[i]]]
MakeProperty(t) ==
    /\ Working(t) /\ Current(t).kind = "property"
    /\ Made(t, Mirror("property", 0, PartMirrors(t, Current(t).key)))
    /\ UNCHANGED registry

(* The mirrors are pushed, alone or in an array *)
Return(t) ==
    /\ job[t].stage \in {"begun", "making"} /\ job[t].todo = <<>>
    /\ job' = [job EXCEPT ![t] = Free]
    /\ UNCHANGED <<registry, mirrors, known>>

Tables == {"type", "method", "field"}
ReflectionInit ==
    /\ registry = [kind \in Tables |-> [index |-> <<>>, keys |-> <<>>, next |-> 0]]
    /\ mirrors = [t \in Thread |-> <<>>]
    /\ known = [t \in Thread |-> <<>>]
    /\ job = [t \in Thread |-> Free]
ReflectionNext ==
    \E t \in Thread :
        \/ LdToken(t) \/ Ask(t) \/ Return(t)
        \/ Occupied(t) \/ Reserve(t) \/ List(t) \/ Register(t) \/ MakeProperty(t)

(***************************************************************************)
(* Values: the intrinsics below are instructions on the state of Objects    *)
(***************************************************************************)
(* Boxes a value unless it is a reference *)
PushBoxed(rest, type, v) ==
    IF v.kind = "ref" THEN Push(rest, v, SystemObject) /\ Keep
    ELSE IF BoxValue(type, v) = NoObject THEN Push(rest, Null, SystemObject) /\ Keep
    ELSE Allocate(rest, BoxValue(type, v), SystemObject)

(* The code does not compare the class of the target with the field's: a program passes an
   object that has the field *)
HasFieldOf(v, f) ==
    v.kind = "ref" /\ (IF IsNull(v) THEN TRUE ELSE Assignable(RuntimeType(objects[v.id]), f.type))

(* FieldInfo.GetValue, of an instance field *)
GetFieldValue(f) ==
    /\ RefOn(1) /\ HasFieldOf(Upper.v, f)
    /\ IF IsNull(Upper.v) THEN Throw("NullTarget") /\ Keep
       ELSE PushBoxed(Under, FieldOf(f).type, ReadPlace(Upper.v, FieldOf(f).at, FieldOf(f).type))
(* ... of a static one, and of a literal, which is boxed as the field's type *)
GetStaticValue(owner) == Push(stack, Null, SystemObject) /\ Keep
GetLiteralValue(literal) ==
    PushBoxed(stack, literal.type, Number(ScalarKind(StackForm(literal.type)), literal.value))

(* coerce_field_set_value_argument: the type of the box is not compared with the field's *)
Coerced(type, v) ==
    IF v.kind = "ref" /\ ~IsNull(v) /\ objects[v.id].storage = "Boxed"
    THEN ReadCtsValue(type, objects[v.id].cells) ELSE v
(* FieldInfo.SetValue: null stands for the default of a value type *)
NewFieldCells(type, v) ==
    IF ~IsValueType(type) THEN NewCtsValue(type, v)
    ELSE IF IsNull(v) THEN Zeros(SizeOf(type))
    ELSE NewCtsValue(type, Coerced(type, v))
MayHold(type, v) ==
    IF IsNull(v) THEN TRUE
    ELSE IF IsValueType(type) THEN objects[v.id].storage = "Boxed" /\ objects[v.id].type = type
    ELSE ObjectAssignable(objects[v.id], type)
SetFieldValue(f) ==
    /\ Has(2) /\ Upper.as = SystemObject /\ HasFieldOf(Lower.v, f)
    /\ MayHold(FieldOf(f).type, Upper.v)
    /\ IF IsNull(Lower.v) THEN Throw("Argument") /\ Keep
       ELSE StoreCells(Below, Lower.v, FieldOf(f).at, NewFieldCells(FieldOf(f).type, Upper.v))
SetStaticValue(owner) == HasOn(1, SystemObject) /\ Throw("NotImplemented") /\ Keep
SetLiteralValue(literal) == HasOn(1, SystemObject) /\ Throw("FieldAccess") /\ Keep

(* unbox_param_to_stack_value. The code passes a null reference for null as an argument of a
   value type and does not compare the box with the parameter: a program passes a box of the
   parameter's type *)
SlotOf(array, i) == ReadRef(Slice(objects[array].cells, (i - 1) * RefSize, RefSize))
PassesValue(param, id) ==
    IF id = 0 THEN param.byref \/ ~IsValueType(param.type) ELSE MayHold(param.type, ObjectRef(id))
ArgumentFor(param, array, i, box) ==
    LET id == SlotOf(array, i)
    IN  IF ~param.byref
        THEN Operand(IF IsValueType(param.type) THEN ReadCtsValue(param.type, objects[id].cells) ELSE ObjectRef(id),
                     param.type)
        ELSE IF IsValueType(param.type)
        THEN Operand(ManagedPtr(IF id = 0 THEN box ELSE id, 0, param.type), ByRef(param.type))
        ELSE Operand(ManagedPtr(array, (i - 1) * RefSize, param.type), ByRef(param.type))
(* unmarshal_invoke_params: a null passed by reference to a value type is replaced, in the
   array too, by a box of the default *)
Replaced(params, array) ==
    SelectSeq([i \in DOMAIN params |-> i],
              LAMBDA i : params[i].byref /\ IsValueType(params[i].type) /\ SlotOf(array, i) = 0)
BoxFor(replaced, i) == Len(objects) + SelectInSeq(replaced, LAMBDA k : k = i)
WithBoxes(params, array, replaced) ==
    LET cells == FoldLeft(LAMBDA c, i : Splice(c, (i - 1) * RefSize, RefCells(BoxFor(replaced, i))),
                          objects[array].cells, replaced)
        box(k) == HeapObject("Boxed", params[replaced[k]].type, Zeros(SizeOf(params[replaced[k]].type)))
    IN  [objects EXCEPT ![array].cells = cells] \o [k \in DOMAIN replaced |-> box(k)]
InvokeWith(params, array, replaced) ==
    /\ Len(objects) + Len(replaced) <= MaxObjects
    /\ objects' = WithBoxes(params, array, replaced)
    /\ stack' = Under \o [i \in DOMAIN params |-> ArgumentFor(params[i], array, i, BoxFor(replaced, i))]
    /\ outcome' = "ok"
    /\ UNCHANGED staticStorage
(* MethodBase.Invoke up to the call: the arguments are on the stack *)
Invoke(params) ==
    /\ HasOn(1, Vector(SystemObject)) /\ Upper.v.kind = "ref" /\ ~IsNull(Upper.v)
    /\ objects[Upper.v.id].type = SystemObject /\ LengthOf(objects[Upper.v.id]) = Len(params)
    /\ \A i \in DOMAIN params : PassesValue(params[i], SlotOf(Upper.v.id, i))
    /\ Len(Under) + Len(params) <= MaxStack(defs)
    /\ InvokeWith(params, Upper.v.id, Replaced(params, Upper.v.id))

(* materialize_custom_attribute: the arguments of the constructor go, in order, into the first
   instance fields; the attribute is left out where the types differ *)
Materializes(attribute) ==
    LET fields == InstanceFields(attribute.type)
    IN  /\ Len(attribute.args) <= Len(fields)
        /\ \A i \in DOMAIN attribute.args : fields[i].type = attribute.args[i].type
Materialized(attribute) ==
    LET f(i) == GetField(attribute.type, attribute.type.def, InstanceFields(attribute.type)[i].name)
    IN  FoldLeft(LAMBDA o, i : [o EXCEPT !.cells = Splice(@, f(i).at, Encode(attribute.args[i].value, SizeOf(attribute.args[i].type)))],
                 NewObject(attribute.type), [i \in DOMAIN attribute.args |-> i])
AttributeMatches(attribute, filter) == filter = NoType \/ Assignable(attribute.type, filter)
Selected(attributes, filter) ==
    SelectSeq(attributes, LAMBDA a : AttributeMatches(a, filter) /\ Materializes(a))
(* handle_get_custom_attributes_typed, and with no filter handle_get_custom_attributes_bool *)
GetCustomAttributes(attributes, filter) ==
    LET found == Selected(attributes, filter)
        made == [i \in DOMAIN found |-> Materialized(found[i])]
        cells == FlattenSeq([i \in DOMAIN found |-> RefCells(Len(objects) + i)])
    IN  /\ Len(objects) + Len(made) < MaxObjects
        /\ objects' = objects \o Append(made, HeapObject("Vec", SystemObject, cells))
        /\ Push(stack, ObjectRef(Len(objects) + Len(made) + 1), Vector(SystemObject))
        /\ UNCHANGED staticStorage
IsDefined(attributes, filter) ==
    Push(stack, Number("int32", IF Selected(attributes, filter) = <<>> THEN 0 ELSE 1), SystemInt) /\ Keep

(* handle_create_instance_default_ctor up to the constructor's frame; a type without a
   constructor that takes nothing is refused *)
CreateInstance(term) ==
    IF ~IsDefinitionTerm(term)
       \/ ~\E m \in ToSet(defs[term.def].methods) : IsConstructor(m) /\ m.instance /\ m.params = <<>>
    THEN Throw("MissingMethod") /\ Keep
    ELSE Allocate(stack, NewObject(ToConcrete(term)), ToConcrete(term))
(* RuntimeHelpers.GetUninitializedObject: an instance of a value type is an object too *)
Uninstantiable(term) ==
    term.form \in {"vector", "byref", "parameter", "methodparameter"} \/ term.def \in {"void", "typedref", "str"}
GetUninitializedObject(term) ==
    IF Uninstantiable(term) THEN Throw("Serialization") /\ Keep
    ELSE Allocate(stack, NewObject(ToConcrete(term)), SystemObject)
(* Array.CreateInstance *)
ArrayCreateInstance(term) ==
    /\ HasOn(1, SystemInt) /\ Upper.v.num <= MaxLength
    /\ Allocate(Under, HeapObject("Vec", ToConcrete(term), Zeros(Upper.v.num * SizeOf(ToConcrete(term)))),
                Vector(ToConcrete(term)))

ReflectOnValues ==
    \/ \E f \in Menu(defs).fields : GetFieldValue(f) \/ SetFieldValue(f)
    \/ \E owner \in Menu(defs).statics : GetStaticValue(owner) \/ SetStaticValue(owner)
    \/ \E literal \in Menu(defs).literals : GetLiteralValue(literal) \/ SetLiteralValue(literal)
    \/ \E params \in Menu(defs).invoked : Invoke(params)
    \/ \E a \in Menu(defs).attributed : GetCustomAttributes(a[1], a[2]) \/ IsDefined(a[1], a[2])
    \/ \E term \in Menu(defs).activated :
          CreateInstance(term) \/ GetUninitializedObject(term) \/ ArrayCreateInstance(term)

(***************************************************************************)
(* Properties                                                               *)
(***************************************************************************)
Resolves(mirror, goal) ==
    /\ mirror.kind = goal.kind
    /\ mirror.index \in DOMAIN registry[goal.kind].keys
    /\ registry[goal.kind].keys[mirror.index] = goal.key
MirrorOf(t, goal) == mirrors[t][known[t][CacheKey(goal)]]
Inserting(kind, index) == \E t \in Thread : job[t].stage = "listed" /\ Current(t).kind = kind /\ job[t].index = index

RECURSIVE IsClosed(_)
IsClosed(term) ==
    /\ term.form \notin {"parameter", "methodparameter", "byref"}
    /\ \A i \in DOMAIN term.args : IsClosed(term.args[i])

(* Whatever threads register what at the same time, a mirror stands for what it was made for,
   whichever thread reads it: its index is in the table and leads to its key; a key has one
   index, a thread one mirror of it; a property's parts mirror its accessors and types. Two
   closed types that are the same type have one Type object, so that typeof(X) == typeof(X). *)
MirrorsFaithful ==
    /\ \A t \in Thread : job[t].stage # "panic"
    /\ \A kind \in Tables :
         LET table == registry[kind]
         IN  /\ \A key \in DOMAIN table.index : table.keys[table.index[key]] = key
             /\ \A i \in DOMAIN table.keys :
                  Inserting(kind, i) \/ (table.keys[i] \in DOMAIN table.index /\ table.index[table.keys[i]] = i)
    /\ \A t \in Thread : \A goal \in DOMAIN known[t] :
         goal.kind # "property" => Resolves(mirrors[t][known[t][goal]], goal)
    /\ \A t \in Thread : Cardinality(DOMAIN known[t]) = Len(mirrors[t])
    /\ \A a, b \in DOMAIN registry["type"].index :
         IsClosed(a) /\ IsClosed(b) /\ ToConcrete(a) = ToConcrete(b) => a = b

RECURSIVE AllInterfaces(_)
AllInterfaces(type) == ToSet(Interfaces(type)) \cup UNION {AllInterfaces(x) : x \in ToSet(Above(type))}
AsClosed(term) == Apply(TargetOf(term).def, TargetOf(term).lookup.types)
InterfaceNames == {d \in DOMAIN defs : defs[d].kind = "interface"}

InterfacesLawful(term) ==
    LET all == AllInterfaces(AsClosed(term))
    IN  /\ \A itf \in ToSet(GetInterfaces(term)) : ToConcrete(itf) \in all
        /\ \A name \in InterfaceNames :
             LET found == GetInterface(term, name, FALSE)
             IN  IF found = NoTerm THEN \A itf \in all : itf.def # name ELSE ToConcrete(found) \in all
        /\ GetBaseType(term) # NoTerm =>
             ToSet(GetInterfaces(GetBaseType(term))) \subseteq ToSet(GetInterfaces(term))

MembersLawful(term, flags) ==
    /\ \A key \in ToSet(GetMethods(term, flags)) :
         /\ IsDefinitionTerm(term) => DeclaringTerm(key) = term
         /\ GetMethod(term, MethodOf(key.method).name, flags, {MethodOf(key.method).arity}, ParameterTerms(key)) = key
    /\ \A p \in ToSet(GetProperties(term, flags)) :
         GetProperty(term, p.name, flags, PropertyTypes(p, LookupOf(term)).type) = p

GenericsLawful(term) ==
    LET open == GetGenericTypeDefinition(term)
    IN  IsGenericType(term) =>
          /\ IsGenericTypeDefinition(open)
          /\ MakeGenericType(open, GetGenericArguments(term)) = term
          /\ IsConstructedGenericType(term) # IsGenericTypeDefinition(term)

DeclaredType(key) == Apply(key.method.def, key.method.lookup.types)
BaseLawful(key, base) ==
    /\ GetBaseDefinition(base) = base
    /\ \E a \in ToSet(Ancestors(DeclaredType(key))) : DeclaringTerm(base) = RuntimeTypeFromConcrete(a)
    /\ ~IsGenericMethodDefinition(key) => ParameterTerms(base) = ParameterTerms(key)

(* The answers agree with each other and with the type comparer. GetInterfaces and GetInterface
   find interfaces the type has, GetInterface every one of them, and a class has those of its
   base. A generic type is its definition made with its own arguments. A method found with GetMethods says that it is declared there, and is found again by
   its name and the types of its parameters; so is a property. The base definition of a method
   is declared by an ancestor, under the arguments the ancestor has there, takes parameters of
   the same types, and is its own base definition. *)
QueriesLawful ==
    \A t \in Thread :
        job[t].stage = "begun" =>
          LET subject == job[t].subject
          IN  CASE subject.kind = "type" /\ IsClosed(subject.key) ->
                     /\ GenericsLawful(subject.key)
                     /\ InterfacesLawful(subject.key)
                     /\ MembersLawful(subject.key, job[t].query.flags \ {"ignorecase"})
                [] subject.kind = "type" /\ ~IsClosed(subject.key) -> GenericsLawful(subject.key)
                [] subject.kind = "method" -> BaseLawful(subject.key, GetBaseDefinition(subject.key))
                [] OTHER -> TRUE
=============================================================================
