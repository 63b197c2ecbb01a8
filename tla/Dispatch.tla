------------------------------ MODULE Dispatch ------------------------------
(***************************************************************************)
(* Which method a virtual call runs: resolve_virtual_method and what it     *)
(* uses (dotnet-runtime-resolver/src/methods.rs), is_a (types.rs), the      *)
(* generic context a call hands to the method                               *)
(* (dotnet-vm/src/stack/call_ops_impl.rs), and the caches that remember the *)
(* answers for all threads (dotnet-vm/src/cache.rs, state.rs).              *)
(*                                                                          *)
(* A definition also carries "overrides", its MethodImpl entries: the       *)
(* declaration as a reference to a method of a type, and the index of the   *)
(* implementation.                                                          *)
(***************************************************************************)
EXTENDS Comparer

CONSTANTS
    Capacity,         \* of the table all threads share, DOTNET_CACHE_LIMIT_*
    FrontCapacity,    \* of a thread's own table; 0 disables it
    Calls(_),         \* the virtual calls made under a set of definitions
    StaticCalls(_),   \* the static calls constrained to a type
    Casts(_),         \* the pairs of types is_a is asked about
    Types(_)          \* the types these are made of

VARIABLES
    shared,           \* vmt_cache, hierarchy_cache, static_constrained_cache: questions to answers
    front,            \* each thread's own entries of them, the last used first
    filling           \* the entries a thread has still to insert, with what it found out

dispatchVars == <<shared, front, filling>>

(***************************************************************************)
(* Overrides and implementations                                            *)
(***************************************************************************)
Take(seq, n) == SubSeq(seq, 1, IF n < Len(seq) THEN n ELSE Len(seq))

Unresolved == Method("error", Empty, 0)
IsFound(method) == method \notin {NoMethod, Unresolved}
HasBody(method) == Member(method).body

(* method_for_lookup: an interface method asked of a type with as many arguments
   as the interface takes the type's arguments *)
MethodForLookup(method, lookup, variant) ==
    LET rebinds == variant /\ Len(method.lookup.types) = Len(lookup.types)
    IN  [method EXCEPT !.lookup = Lookup(IF rebinds THEN lookup.types ELSE @.types, lookup.methods)]

(* The MethodImpl entries of a definition, located under a lookup *)
OverrideMap(d, lookup) ==
    [i \in DOMAIN defs[d].overrides |->
        LET o == defs[d].overrides[i]
        IN  [decl |-> LocateReference(o.decl.type, o.decl.name, o.decl.signature, lookup),
             impl |-> LocateDefinition(d, o.impl, lookup)]]

(* Declarations that denote the method though their descriptions differ *)
Bridges(decl, method, asked, variant) ==
    /\ decl.def = method.def
    /\ Member(decl).name = Member(method).name
    /\ SignaturesMatch(variant, Member(asked), asked.lookup, Member(decl), decl.lookup)

OrElse(method, other) == IF method = NoMethod THEN other ELSE method

LastEntry(map, Test(_)) ==
    LET found == {i \in DOMAIN map : Test(map[i].decl)}
        last(set) == IF set = {} THEN NoMethod
                     ELSE map[CHOOSE i \in set : \A j \in set : j <= i].impl
    IN  last(found)

OverrideIn(map, method, asked, variant) ==
    IF \E i \in DOMAIN map : map[i].decl = NoMethod
    THEN Unresolved
    ELSE OrElse(LastEntry(map, LAMBDA decl : decl = method),
         OrElse(LastEntry(map, LAMBDA decl : decl = asked),
                LastEntry(map, LAMBDA decl : Bridges(decl, method, asked, variant))))

FindOverride(d, method, lookup, variant) ==
    OverrideIn(OverrideMap(d, lookup), method, MethodForLookup(method, lookup, variant), variant)

(* find_and_cache_method, without the entry it caches. A member that implements an interface
   method by its name alone is public; variance is tried last, and not against a
   default body. *)
Implicit(d, method, asked, lookup, variant) ==
    FindMethod(d, Member(method).name, Member(method), asked, lookup, variant)
PublicImplicit(found, isInterface) ==
    IF isInterface /\ found # NoMethod /\ ~Member(found).public THEN NoMethod ELSE found
ImplicitOrVariant(exact, d, method, asked, lookup, isInterface) ==
    IF exact # NoMethod THEN PublicImplicit(exact, isInterface)
    ELSE IF ~isInterface \/ HasBody(method) THEN NoMethod
    ELSE PublicImplicit(Implicit(d, method, asked, lookup, TRUE), isInterface)
FindImplementation(d, method, lookup, isInterface) ==
    LET asked == MethodForLookup(method, lookup, isInterface).lookup
    IN  OrElse(FindOverride(d, method, lookup, isInterface),
               ImplicitOrVariant(Implicit(d, method, asked, lookup, FALSE),
                                 d, method, asked, lookup, isInterface))

RECURSIVE FirstOverride(_, _, _, _)
(* find_interface_override_for_receiver: the interfaces breadth first *)
OverrideElse(found, next, queue, seen, method, args) ==
    IF found \notin {NoMethod, method} THEN found
    ELSE FirstOverride(queue \o next, seen \cup ToSet(next), method, args)
FirstOverride(queue, seen, method, args) ==
    IF queue = <<>>
    THEN NoMethod
    ELSE LET type == Head(queue)
         IN  OverrideElse(FindOverride(type.def, method, Lookup(type.args, args), TRUE),
                          Unseen(Interfaces(type), seen), Tail(queue), seen, method, args)

(***************************************************************************)
(* Virtual methods. A question names the method called, the definition of   *)
(* the receiver and the arguments in force. An answer comes with the        *)
(* entries the search caches on its way.                                    *)
(***************************************************************************)
Question(method, d, lookup) == [method |-> method, def |-> d, lookup |-> lookup]
Entry(question, answer) == [question |-> question, answer |-> answer]
Found(method, entries) == [method |-> method, entries |-> entries]

ArrayInterfaces == {"IList"}
(* try_resolve_array_generic_interface_method *)
ArrayHelper(q) ==
    LET m == q.method
    IN  IF q.def # "Array" \/ m.def \notin ArrayInterfaces \/ m.lookup.types = <<>>
        THEN NoMethod
        ELSE FindMethod("SZArrayHelper", Member(m).name, Member(m),
                        Lookup(m.lookup.types, q.lookup.methods),
                        Lookup(<<m.lookup.types[1]>>, <<>>), TRUE)

RECURSIVE IsDelegateType(_)
(* is_delegate_type_in_hierarchy *)
IsDelegateType(d) ==
    d = "MulticastDelegate" \/ (defs[d].extends # NoType /\ IsDelegateType(defs[d].extends.def))

(* Invoke, BeginInvoke and EndInvoke of a delegate type have no body *)
IsDelegateCall(q) ==
    Member(q.method).name = "Invoke" /\ IsDelegateType(q.def) /\ ~HasBody(q.method)

(* Mutant: the base is searched under the arguments of the type derived from it *)
BaseLookup_same(d, lookup) == lookup

(* The lookup of the base of a definition searched under a lookup *)
BaseLookup(d, lookup) ==
    LET args == defs[d].extends.args
    IN  Lookup([i \in DOMAIN args |-> MakeConcrete(lookup, args[i])], lookup.methods)

RECURSIVE SearchAncestors(_, _, _)
(* The loop over the ancestors: a definition, then the interfaces it names, then its base *)
SearchBase(q, d, base) ==
    IF NoType \in ToSet(base.types) THEN Found(Unresolved, <<>>)
    ELSE SearchAncestors(q, defs[d].extends.def, base)
SearchInterfaces(q, inherited, d, lookup) ==
    IF inherited # NoMethod THEN Found(inherited, <<>>)
    ELSE IF defs[d].extends = NoType THEN Found(NoMethod, <<>>)
    ELSE SearchBase(q, d, BaseLookup(d, lookup))
(* Mutant: an implementation found in an ancestor is cached under the receiver's arguments *)
SearchFrom_receiver(q, own, d, lookup) ==
    LET itfs == Closed(lookup, defs[d].implements)
        inherited == IF defs[q.method.def].kind = "interface"
                     THEN FirstOverride(Unseen(itfs, {}), ToSet(itfs), q.method, q.lookup.methods)
                     ELSE NoMethod
    IN  IF own # NoMethod
        THEN Found(own, <<Entry(Question(q.method, d, q.lookup), own)>>)
        ELSE SearchInterfaces(q, inherited, d, lookup)
SearchFrom(q, own, d, lookup) ==
    LET itfs == Closed(lookup, defs[d].implements)
        inherited == IF defs[q.method.def].kind = "interface"
                     THEN FirstOverride(Unseen(itfs, {}), ToSet(itfs), q.method, q.lookup.methods)
                     ELSE NoMethod
    IN  IF own # NoMethod
        THEN Found(own, <<Entry(Question(q.method, d, lookup), own)>>)
        ELSE SearchInterfaces(q, inherited, d, lookup)
SearchAncestors(q, d, lookup) ==
    SearchFrom(q, FindImplementation(d, q.method, lookup, defs[q.method.def].kind = "interface"),
               d, lookup)

Trimmed(q) == [q EXCEPT !.lookup.methods = Take(@, Member(q.method).arity)]

(* resolve_virtual_method when nothing is cached: a default body is the last resort *)
OrDefault(found, method) ==
    IF found.method = NoMethod /\ defs[method.def].kind = "interface" /\ HasBody(method)
    THEN Found(method, <<>>) ELSE found
OrSearch(helper, q) ==
    IF helper # NoMethod THEN Found(helper, <<>>)
    ELSE IF IsDelegateCall(q) THEN Found(q.method, <<>>)
    ELSE OrDefault(SearchAncestors(q, q.def, q.lookup), q.method)
WithOwnEntry(found, q) ==
    IF IsFound(found.method)
    THEN [found EXCEPT !.entries = Append(@, Entry(q, found.method))]
    ELSE Found(found.method, <<>>)
Search(q) ==
    WithOwnEntry(IF ~Member(q.method).virtual THEN Found(q.method, <<>>)
                 ELSE OrSearch(ArrayHelper(q), q), q)

(* resolve_static_constrained_method_uncached: what is exact, then a default body, then what
   variance allows *)
SearchStatic(q) ==
    LET m == q.method
        asked == MethodForLookup(m, q.lookup, TRUE).lookup
    IN  OrElse(FindOverride(q.def, m, q.lookup, FALSE),
        OrElse(Implicit(q.def, m, q.lookup, q.lookup, FALSE),
        IF HasBody(m) THEN m
        ELSE OrElse(FindOverride(q.def, m, q.lookup, TRUE),
             OrElse(Implicit(q.def, m, asked, q.lookup, TRUE), m))))

StaticQuestion(method, constraint, args) ==
    Question(method, constraint.def, Lookup(method.lookup.types, args))

(* merge_receiver_lookup_for_virtual_dispatch, and the call site's own arguments *)
CallQuestion(method, receiver, methodArgs) ==
    Trimmed(Question(method, receiver.def,
                     Lookup(IF receiver.args # <<>> THEN receiver.args ELSE method.lookup.types,
                            methodArgs)))

(* rebind_lookup_to_resolved_method: the type arguments the method runs with *)
Rebound(method, lookup) ==
    LET arity == defs[method.def].arity
    IN  IF Len(method.lookup.types) = arity \/ arity = 0
        THEN Take(method.lookup.types, arity)
        ELSE Take(lookup.types, arity)

(***************************************************************************)
(* The caches                                                               *)
(***************************************************************************)
Filling(cache, entries, stage) == [cache |-> cache, entries |-> entries, stage |-> stage]
Idle == Filling("none", <<>>, "idle")
Fill(cache, entries) == IF entries = <<>> THEN Idle ELSE Filling(cache, entries, "look")
Report(cache, q) == Filling(cache, <<Entry(q, NoMethod)>>, "report")
Caches == {"vmt", "hierarchy", "static"}
Bounded == {"vmt", "hierarchy"}     \* the others have no limit and no front

(* FrontCache, an LruCache: get and put move an entry to the front *)
Touch(cache, entries, entry) ==
    Take(<<entry>> \o SelectSeq(entries, LAMBDA e : e.question # entry.question),
         IF cache \in Bounded THEN FrontCapacity ELSE 0)

InFront(t, cache, q) == {i \in DOMAIN front[t][cache] : front[t][cache][i].question = q}

(* try_get_with_front *)
Hit(t, cache, q) ==
    /\ \/ \E i \in InFront(t, cache, q) :
            front' = [front EXCEPT ![t][cache] = Touch(cache, @, @[i])]
       \/ /\ InFront(t, cache, q) = {}
          /\ q \in DOMAIN shared[cache]
          /\ front' = [front EXCEPT ![t][cache] = Touch(cache, @, Entry(q, shared[cache][q]))]
    /\ UNCHANGED <<shared, filling>>

(* An error is reported to the caller and leaves no entry *)
Miss(t, cache, q, asked, entries) ==
    /\ asked => InFront(t, cache, q) = {} /\ q \notin DOMAIN shared[cache]
    /\ filling' = [filling EXCEPT ![t] = IF entries = <<>> THEN Report(cache, q)
                                         ELSE Fill(cache, entries)]
    /\ UNCHANGED <<shared, front>>

IsIdle(t) == filling[t] = Idle

(* A method that is not virtual is inserted without being looked up *)
CallVirtual(t, q) ==
    /\ IsIdle(t)
    /\ \/ Member(q.method).virtual /\ Hit(t, "vmt", q)
       \/ Miss(t, "vmt", q, Member(q.method).virtual, Search(q).entries)

CallStatic(t, q) ==
    /\ IsIdle(t)
    /\ \/ Hit(t, "static", q)
       \/ Miss(t, "static", q, TRUE,
               SelectSeq(<<Entry(q, SearchStatic(q))>>, LAMBDA e : IsFound(e.answer)))

IsA(t, pair) ==
    /\ IsIdle(t)
    /\ pair[1] # pair[2]
    /\ \/ Hit(t, "hierarchy", pair)
       \/ Miss(t, "hierarchy", pair, TRUE, <<Entry(pair, Assignable(pair[1], pair[2]))>>)

(* Cache::insert: an update needs no room; a new key makes room for itself, one
   victim at a time, whatever the other threads insert meanwhile *)
LookForKey(t) ==
    LET present == Head(filling[t].entries).question \in DOMAIN shared[filling[t].cache]
    IN  /\ filling[t].stage = "look"
        /\ filling' = [filling EXCEPT ![t].stage = IF present THEN "insert" ELSE "evict"]
        /\ UNCHANGED <<shared, front>>

MakeRoom(t) ==
    LET cache == filling[t].cache
        keys == DOMAIN shared[cache]
    IN  /\ filling[t].stage = "evict"
        /\ IF cache \in Bounded /\ Cardinality(keys) >= Capacity /\ keys # {}
           THEN /\ \E victim \in keys :
                     shared' = [shared EXCEPT ![cache] = [q \in keys \ {victim} |-> @[q]]]
                /\ UNCHANGED filling
           ELSE /\ filling' = [filling EXCEPT ![t].stage = "insert"]
                /\ UNCHANGED shared
        /\ UNCHANGED front

(* insert_with_front *)
Insert(t) ==
    LET cache == filling[t].cache
        entry == Head(filling[t].entries)
    IN  /\ filling[t].stage = "insert"
        /\ shared' = [shared EXCEPT ![cache] = (entry.question :> entry.answer) @@ @]
        /\ front' = [front EXCEPT ![t][cache] = Touch(cache, @, entry)]
        /\ filling' = [filling EXCEPT ![t] = Fill(cache, Tail(filling[t].entries))]

ReportError(t) ==
    /\ filling[t].stage = "report"
    /\ filling' = [filling EXCEPT ![t] = Idle]
    /\ UNCHANGED <<shared, front>>

DispatchInit ==
    /\ shared = [c \in Caches |-> [q \in {} |-> NoMethod]]
    /\ front = [t \in Thread |-> [c \in Caches |-> <<>>]]
    /\ filling = [t \in Thread |-> Idle]

DispatchStep(t) ==
    \/ \E c \in Calls(defs) : CallVirtual(t, CallQuestion(c.method, c.receiver, c.args))
    \/ \E c \in StaticCalls(defs) : CallStatic(t, StaticQuestion(c.method, c.receiver, c.args))
    \/ \E pair \in Casts(defs) : IsA(t, pair)
    \/ LookForKey(t)
    \/ MakeRoom(t)
    \/ Insert(t)
    \/ ReportError(t)

DispatchNext == \E t \in Thread : DispatchStep(t)

(***************************************************************************)
(* What the answers should be                                               *)
(***************************************************************************)
RECURSIVE AllInterfaces(_)
(* Every interface a type has, through its interfaces and its bases *)
AllInterfaces(type) ==
    LET above == ToSet(Interfaces(type)) \cup (IF Def(type).extends = NoType THEN {} ELSE {Base(type)})
    IN  {t \in above : IsInterface(t)} \cup UNION {AllInterfaces(t) : t \in above}

VariantOf(source, target, related) ==
    /\ source.def = target.def
    /\ \A i \in DOMAIN source.args :
         LET s == source.args[i]
             t == target.args[i]
             variance == Def(source).variance[i]
         IN  \/ s = t
             \/ variance = "out" /\ <<s, t>> \in related
             \/ variance = "in" /\ <<t, s>> \in related

(* A type may be used as another if that follows from the pairs in related *)
Justified(source, target, related) ==
    \/ VariantOf(source, target, related)
    \/ target = SystemObject
    \/ target = SystemValueType /\ IsValueType(source)
    \/ \E i \in AllInterfaces(source) : VariantOf(i, target, related)
    \/ target # source /\ target \in ToSet(Ancestors(source))

RECURSIVE Consistent(_)
(* The largest set of pairs among those given that justifies each of its members *)
Consistent(pairs) ==
    LET kept == {p \in pairs : Justified(p[1], p[2], pairs)}
    IN  IF kept = pairs THEN pairs ELSE Consistent(kept)

(* The signature of a method with the arguments of its type and its own filled in *)
ClosedSignature(member, lookup) ==
    LET closed(p) == [p EXCEPT !.type = IF @ = NoType THEN @ ELSE MakeConcrete(lookup, @)]
    IN  [name |-> member.name, arity |-> member.arity, instance |-> member.instance, ret |-> closed(member.ret),
         params |-> [i \in DOMAIN member.params |-> closed(member.params[i])]]

(* The members of a type that implement a method: those a MethodImpl names, else those that
   have its name and signature *)
Explicit(type, method, args) ==
    {Def(type).overrides[i].impl : i \in
        {i \in DOMAIN Def(type).overrides :
            LET o == Def(type).overrides[i].decl
                decl == [name |-> o.name, arity |-> Member(method).arity] @@ o.signature
            IN  /\ MakeConcrete(MakeLookup(type), o.type) = Apply(method.def, method.lookup.types)
                /\ ClosedSignature(decl, Lookup(method.lookup.types, args))
                     = ClosedSignature(Member(method), Lookup(method.lookup.types, args))}}
ByName(type, method, args) ==
    LET wanted == ClosedSignature(Member(method), Lookup(method.lookup.types, args))
        methods == Def(type).methods
    IN  {i \in DOMAIN methods :
            /\ IF defs[method.def].kind = "interface" THEN methods[i].public ELSE methods[i].virtual
            /\ ClosedSignature(methods[i], Lookup(type.args, args)) = wanted}
ImplementedIn(type, method, args) ==
    LET explicitElse(explicit) == IF explicit # {} THEN explicit ELSE ByName(type, method, args)
    IN  explicitElse(Explicit(type, method, args))

(* The interface of the receiver that a call through a variant interface reaches *)
ReachedAmong(named, has, related) ==
    LET pick(variants) == IF named \in has \/ variants = {} THEN named
                          ELSE CHOOSE i \in variants : TRUE
    IN  pick({i \in has : VariantOf(i, named, related)})
Reached(call, related) ==
    [call.method EXCEPT !.lookup.types =
        ReachedAmong(Apply(call.method.def, @), AllInterfaces(call.receiver), related).args]

Target(type, index) == [def |-> type.def, index |-> index, types |-> type.args]
NoTarget == [def |-> "none", index |-> 0, types |-> <<>>]
Itself(method) == Target(Apply(method.def, method.lookup.types), method.index)

(* The classes searched for an implementation: an array has those of its interfaces in
   SZArrayHelper, a delegate's Invoke is the runtime's own *)
Implementors(receiver, method) ==
    IF receiver.def = "Array" /\ method.def \in ArrayInterfaces
    THEN <<Apply("SZArrayHelper", method.lookup.types)>>
    ELSE Ancestors(receiver)

(* A member of the first class of a chain that implements the method *)
NearestMember(chain, members) ==
    LET has == {i \in DOMAIN chain : members[i] # {}}
        at(i) == Target(chain[i], CHOOSE m \in members[i] : TRUE)
    IN  IF has = {} THEN NoTarget ELSE at(CHOOSE i \in has : \A j \in has : i <= j)
ClassMember(chain, method, args) ==
    NearestMember(chain, [i \in DOMAIN chain |-> ImplementedIn(chain[i], method, args)])

(* A member of the most specific of the interfaces that override the method *)
SpecificMember(members) ==
    LET has == {i \in DOMAIN members : members[i] # {}}
        specific == {i \in has : \A j \in has : i \notin AllInterfaces(j)}
        at(i) == Target(i, CHOOSE m \in members[i] : TRUE)
    IN  IF has = {} THEN NoTarget ELSE at(CHOOSE i \in specific : TRUE)
InterfaceMember(itfs, method, args) ==
    SpecificMember([i \in itfs |-> Explicit(i, method, args)])

(* The member the call has to run: of the most derived class that implements the method, else of
   the most specific interface that does, else the method itself *)
OrTarget(target, other) == IF target = NoTarget THEN other ELSE target
ExpectedFor(method, receiver, args) ==
    IF ~Member(method).virtual THEN Itself(method)
    ELSE OrTarget(ClassMember(Implementors(receiver, method), method, args),
         OrTarget(InterfaceMember(AllInterfaces(receiver), method, args),
                  IF Member(method).body THEN Itself(method) ELSE NoTarget))
Expected(call, related) ==
    ExpectedFor(IF defs[call.method.def].kind = "interface" THEN Reached(call, related)
                ELSE call.method,
                call.receiver, call.args)

(* Every answer in a table, or on its way into one, is the one a search would find now: an
   entry made while another type was asked about, promoted, evicted or inserted twice
   never answers a question differently (get_vmt_cached, get_hierarchy_cached,
   find_and_cache_method). *)
Entries(cache) ==
    {Entry(q, shared[cache][q]) : q \in DOMAIN shared[cache]}
    \cup UNION {ToSet(front[t][cache]) : t \in Thread}
    \cup UNION {ToSet(filling[t].entries) :
                   t \in {t \in Thread : filling[t].cache = cache /\ filling[t].stage # "report"}}
AnswersFresh ==
    /\ \A e \in Entries("vmt") : e.answer = Search(e.question).method
    /\ \A e \in Entries("static") : e.answer = SearchStatic(e.question)
    /\ \A e \in Entries("hierarchy") : e.answer = Assignable(e.question[1], e.question[2])

(* A search answers a virtual call with the member it has to run, and with the type arguments
   that member's class has in the receiver, and reports an error only where there is no such
   member; it answers a cast with yes exactly where a consistent set of assumptions
   justifies it (resolve_virtual_method, rebind_lookup_to_resolved_method,
   is_assignable_to with what it remembers and assumes on the way). *)
Answered(cache) == {Last(filling[t].entries) : t \in {t \in Thread : filling[t].cache = cache}}
Runs(found) ==
    IF IsFound(found.answer)
    THEN [def |-> found.answer.def, index |-> found.answer.index,
          types |-> Rebound(found.answer, found.question.lookup)]
    ELSE NoTarget
SameMember(target, method) == target.def = method.def /\ target.index = method.index
ResolutionRightUnder(related) ==
    /\ \A found \in Answered("vmt"), call \in Calls(defs) :
         CallQuestion(call.method, call.receiver, call.args) = found.question =>
           Expected(call, related) = Runs(found)
    /\ \A found \in Answered("static"), call \in StaticCalls(defs) :
         StaticQuestion(call.method, call.receiver, call.args) = found.question =>
           SameMember(Expected(call, related), found.answer)
    /\ \A found \in Answered("hierarchy") : found.answer = (found.question \in related)
ResolutionRight == ResolutionRightUnder(Consistent(Types(defs) \X Types(defs)))

(* A bounded table holds its capacity and one entry more for each other thread that made
   room at the same time (Cache::insert); a thread's own table never holds more than
   its capacity (FrontCache). *)
TablesBounded ==
    \A cache \in Bounded :
        /\ Cardinality(DOMAIN shared[cache])
             <= (IF Capacity = 0 THEN 1 ELSE Capacity) + Cardinality(Thread) - 1
        /\ \A t \in Thread : Len(front[t][cache]) <= FrontCapacity

(* However the threads' questions interleave, no cache answers other than a fresh search
   would, and none grows past its bound (Cache, FrontCache, GlobalCaches). *)
CachesSound == AnswersFresh /\ TablesBounded
=============================================================================
