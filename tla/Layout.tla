------------------------------- MODULE Layout -------------------------------
(***************************************************************************)
(* The layout of types in storage and the map of the references in it:     *)
(* LayoutFactory and the layout part of ResolverService                     *)
(* (dotnet-runtime-resolver/src/layout.rs), LayoutManager                   *)
(* (dotnet-value/src/layout.rs), and the caches of layouts                  *)
(* (dotnet-vm/src/resolver/mod.rs, dotnet-vm/src/statics.rs).               *)
(*                                                                          *)
(* The recursion of the code is the stack of frames a thread works on:      *)
(* a frame waits for the layouts of the fields of the level it collects.    *)
(***************************************************************************)
EXTENDS Metadata

CONSTANT
    Requests(_)  \* what may be asked about given definitions: [goal, type]

VARIABLES
    layouts,     \* layout_cache
    instances,   \* instance_field_layout_cache
    statics,     \* static_field_layout_cache
    work         \* work[t]: the frames of thread t, the innermost last

layoutVars == <<layouts, instances, statics, work>>

PointerSize == 8                 \* ObjectRef::SIZE
ManagedPtrSize == 24             \* ManagedPtr::SIZE
MaxFieldBytes == 268435456       \* 0x1000_0000
MaxArrayLength == 1073741824     \* 0x4000_0000

Least(a, b) == IF a <= b THEN a ELSE b
Greatest(a, b) == IF a >= b THEN a ELSE b

-----------------------------------------------------------------------------
(* LayoutManager. gc is the set of offsets in GcDesc, ptrs what
   visit_managed_ptrs visits, refs is_or_contains_refs, isPtr is_gc_ptr,
   hasPtrs has_managed_ptrs; the fields are those of FieldLayoutManager. *)

ScalarLayout(size) ==
    [size |-> size, align |-> size, gc |-> {}, ptrs |-> {}, refs |-> FALSE,
     isPtr |-> FALSE, hasPtrs |-> FALSE, fields |-> {}]

ObjectRefLayout ==
    [ScalarLayout(PointerSize) EXCEPT !.gc = {0}, !.refs = TRUE, !.isPtr = TRUE]

ManagedPtrLayout ==
    [ScalarLayout(ManagedPtrSize) EXCEPT
        !.align = PointerSize, !.ptrs = {0}, !.refs = TRUE, !.isPtr = TRUE, !.hasPtrs = TRUE]

NoLayout == ScalarLayout(0)      \* nothing collected yet: base size 0
Failed == [NoLayout EXCEPT !.refs = TRUE]

AlignUp(value, align) ==
    IF value % align = 0 THEN value ELSE (value + align) - (value % align)

Shift(offsets, by) == {o + by : o \in offsets}

(* populate_gc_desc and visit_managed_ptrs over the fields of a type *)
ReferencesOf(fields) == UNION {Shift(f.layout.gc, f.pos) : f \in fields}
PointersOf(fields) == UNION {Shift(f.layout.ptrs, f.pos) : f \in fields}

FieldLayoutOf(fields, size, align) ==
    [size |-> size, align |-> align, fields |-> fields,
     gc |-> ReferencesOf(fields), ptrs |-> PointersOf(fields), isPtr |-> FALSE,
     refs |-> \E f \in fields : f.layout.refs,
     hasPtrs |-> \E f \in fields : f.layout.hasPtrs]

(* The manager of an array: create_array_layout and the Array arms of
   LayoutManager. The element is small enough for the product not to overflow. *)
ArrayLayout(element, length) ==
    IF length > MaxArrayLength THEN Failed
    ELSE [element EXCEPT
            !.size = element.size * length, !.isPtr = FALSE, !.fields = {},
            !.gc = IF element.refs
                   THEN UNION {Shift(element.gc, element.size * i) : i \in 0..(length - 1)}
                   ELSE {},
            !.ptrs = UNION {Shift(element.ptrs, element.size * i) : i \in 0..(length - 1)}]

-----------------------------------------------------------------------------
(* create_field_layout. A field to place is a record [owner, name, offset,
   layout]; its offset is used by explicit layouts only, -1 where there is none. *)

PlaceField(placed, f, packing) ==
    LET align == Least(f.layout.align, packing)
        pos == AlignUp(placed.offset, align)
    IN  [offset |-> pos + f.layout.size,
         align |-> Greatest(placed.align, align),
         fields |-> placed.fields \cup
                      {[owner |-> f.owner, name |-> f.name, pos |-> pos, layout |-> f.layout]}]

PlaceFieldsSequentially(fields, base, packing) ==
    LET placed == FoldLeft(LAMBDA p, f : PlaceField(p, f, packing),
                           [offset |-> base.size, align |-> Greatest(base.align, 1), fields |-> {}],
                           fields)
    IN  FieldLayoutOf(placed.fields, AlignUp(placed.offset, placed.align), placed.align)

Overlap(f, g) == f.pos < g.pos + g.layout.size /\ g.pos < f.pos + f.layout.size

(* Two fields may overlap if neither contains references, or if they are the same slot *)
MayOverlap(f, g) ==
    \/ ~f.layout.refs /\ ~g.layout.refs
    \/ /\ f.pos = g.pos /\ f.layout.size = g.layout.size
       /\ f.layout.isPtr /\ g.layout.isPtr

PlaceFieldsExplicitly(fields, base, classSize, lenient) ==
    LET placed == [i \in DOMAIN fields |->
                     [owner |-> fields[i].owner, name |-> fields[i].name,
                      pos |-> base.size + fields[i].offset, layout |-> fields[i].layout]]
        end == FoldLeft(LAMBDA e, f : Greatest(e, f.pos + f.layout.size), base.size, placed)
        align == FoldLeft(LAMBDA a, f : Greatest(a, f.layout.align), Greatest(base.align, 1), placed)
        clash == \E i, j \in DOMAIN placed :
                    i < j /\ Overlap(placed[i], placed[j]) /\ ~MayOverlap(placed[i], placed[j])
    IN  IF \/ \E i \in DOMAIN fields : fields[i].offset < 0
           \/ clash /\ ~lenient
        THEN Failed
        ELSE FieldLayoutOf(ToSet(placed), Greatest(end, base.size + classSize), align)

(* A layout is [kind, pack, size]: of kind "auto", "sequential" or "explicit" *)
CreateFieldLayout(fields, layout, base, lenient) ==
    LET sequential(packing) == PlaceFieldsSequentially(fields, base, packing)
        result ==
            CASE layout.kind = "auto" -> sequential(MaxFieldBytes)
              [] layout.kind = "sequential" ->
                    LET s == sequential(IF layout.pack = 0 THEN 8 ELSE layout.pack)
                    IN  [s EXCEPT !.size = Greatest(@, base.size + layout.size)]
              [] layout.kind = "explicit" ->
                    PlaceFieldsExplicitly(fields, base, layout.size, lenient)
    IN  IF result.size > MaxFieldBytes THEN Failed ELSE result

-----------------------------------------------------------------------------
(* collect_fields, for one level of the ancestors and the layout of its base *)

FieldsOf(type, goal) ==
    SelectSeq(Def(type).fields, LAMBDA f : f.static = (goal = "static"))

FieldType(type, f) == MakeConcrete(MakeLookup(type), f.type)

(* Which of the representations a field has does not depend on its type's layout *)
IsHandleValue(f) == f.slot = "handle"
IsByRef(f) == ~IsHandleValue(f) /\ f.byref
NeedsLayout(f) == ~IsHandleValue(f) /\ ~f.byref

FieldToPlace(type, f) ==
    [owner |-> type.def, name |-> f.name, offset |-> f.offset,
     layout |-> CASE IsHandleValue(f) -> ObjectRefLayout
                  [] IsByRef(f) -> ManagedPtrLayout
                  [] OTHER -> layouts[FieldType(type, f)]]

(* Mutant: the base's map of references is left out. *)
MergeBaseFields(result, base) ==
    [result EXCEPT !.fields = @ \cup base.fields, !.ptrs = @ \cup base.ptrs,
                   !.refs = @ \/ base.refs, !.hasPtrs = @ \/ base.hasPtrs]

(* Merging the fields of the base type into those of the level *)
MergeBase(result, base) ==
    [result EXCEPT !.fields = @ \cup base.fields, !.gc = @ \cup base.gc, !.ptrs = @ \cup base.ptrs,
                   !.refs = @ \/ base.refs, !.hasPtrs = @ \/ base.hasPtrs]

(* InlineArray: the first field of the type is repeated *)
ExpandInline(type, result) ==
    LET own == {f \in result.fields : f.owner = type.def}
        first == CHOOSE f \in own : \A g \in own : f.pos <= g.pos
        n == Def(type).inline
    IN  IF n <= 1 \/ own = {} THEN result
        ELSE [result EXCEPT
                !.size = AlignUp(first.pos + first.layout.size * n, Greatest(result.align, 1)),
                !.gc = IF first.layout.refs
                       THEN UNION {Shift(first.layout.gc, first.pos + first.layout.size * i)
                                     : i \in 0..(n - 1)}
                       ELSE @,
                !.hasPtrs = @ \/ first.layout.refs]

CollectLevel(type, goal, base) ==
    LET fields == [i \in DOMAIN FieldsOf(type, goal) |->
                     FieldToPlace(type, FieldsOf(type, goal)[i])]
        result == CreateFieldLayout(fields, Def(type).layout, base, Def(type).lenient)
    IN  IF result = Failed THEN Failed ELSE ExpandInline(type, MergeBase(result, base))

-----------------------------------------------------------------------------

(* The levels whose fields make up what is asked for, from the root down:
   a value type and the static fields have no base. *)
Levels(goal, type) ==
    CASE goal = "type" /\ Def(type).kind \notin {"struct", "refstruct"} -> <<>>
      [] goal = "static" \/ IsValueType(type) -> <<type>>
      [] OTHER -> Reverse(Ancestors(type))

Frame(goal, type) ==
    [goal |-> goal, type |-> type, line |-> Levels(goal, type), base |-> NoLayout]

CacheOf(goal) ==
    CASE goal = "type" -> layouts [] goal = "instance" -> instances [] goal = "static" -> statics

Top(t) == Last(work[t])

LayoutInit ==
    /\ layouts = <<>> /\ instances = <<>> /\ statics = <<>>
    /\ work = [t \in Thread |-> <<>>]

SetWork(t, frames) == work' = [work EXCEPT ![t] = frames]

(* type_layout_cached, instance_field_layout_cached, the layout of a type's
   static storage: a cached answer is returned at once *)
Ask(t, goal, type) ==
    /\ work[t] = <<>> /\ type \notin DOMAIN CacheOf(goal)
    /\ SetWork(t, <<Frame(goal, type)>>)
    /\ UNCHANGED <<layouts, instances, statics>>

(* The innermost question of thread t is answered: its layout is cached *)
Answer(t, layout) ==
    LET goal == Top(t).goal
        fill(cache, which) ==
            IF goal = which THEN (Top(t).type :> layout) @@ cache ELSE cache
    IN  /\ layouts' = fill(layouts, "type")
        /\ instances' = fill(instances, "instance")
        /\ statics' = fill(statics, "static")
        /\ SetWork(t, Front(work[t]))

AnswerLeaf(t) ==
    LET kind == Def(Top(t).type).kind
    IN  /\ Top(t).goal = "type"
        /\ \/ kind = "scalar" /\ Answer(t, ScalarLayout(Def(Top(t).type).size))
           \/ kind = "byreference" /\ Answer(t, ManagedPtrLayout)
           \/ kind \in {"class", "interface"} /\ Answer(t, ObjectRefLayout)

Underlying(type) == FieldType(type, Def(type).fields[1])

AnswerEnum(t) ==
    /\ Top(t).goal = "type" /\ Def(Top(t).type).kind = "enum"
    /\ Underlying(Top(t).type) \in DOMAIN layouts
    /\ Answer(t, layouts[Underlying(Top(t).type)])

(* The first field of the level at which collect_fields stops: one whose layout
   has to be computed first, or a managed pointer in a type that is not byref-like *)
IsMisplaced(type, f) == IsByRef(f) /\ ~IsByRefLike(type)
Blocking(frame) ==
    LET level == Head(frame.line)
    IN  SelectInSeq(FieldsOf(level, frame.goal),
                    LAMBDA f : \/ IsMisplaced(level, f)
                               \/ NeedsLayout(f) /\ FieldType(level, f) \notin DOMAIN layouts)

(* The type whose layout the innermost frame waits for; NoType if it waits for none *)
WaitsFor(frame) ==
    IF frame.line = <<>>
    THEN IF Def(frame.type).kind = "enum" /\ Underlying(frame.type) \notin DOMAIN layouts
         THEN Underlying(frame.type) ELSE NoType
    ELSE LET level == Head(frame.line)
             f == FieldsOf(level, frame.goal)[Blocking(frame)]
         IN  IF Blocking(frame) = 0 \/ IsMisplaced(level, f) THEN NoType ELSE FieldType(level, f)

Descend(t) ==
    /\ WaitsFor(Top(t)) # NoType
    /\ SetWork(t, Append(work[t], Frame("type", WaitsFor(Top(t)))))
    /\ UNCHANGED <<layouts, instances, statics>>

(* The layout of a level: the base of the next one, or the answer *)
Collect(t) ==
    LET frame == Top(t)
        result == CollectLevel(Head(frame.line), frame.goal, frame.base)
    IN  /\ frame.line # <<>> /\ Blocking(frame) = 0 /\ result # Failed
        /\ IF Len(frame.line) = 1 THEN Answer(t, result)
           ELSE /\ SetWork(t, Append(Front(work[t]),
                              [frame EXCEPT !.line = Tail(@), !.base = result]))
                /\ UNCHANGED <<layouts, instances, statics>>

(* An error is returned through all the frames; nothing of theirs is cached *)
Fails(frame) ==
    IF frame.line = <<>> THEN frame.goal = "type" /\ Def(frame.type).kind = "typedref"
    ELSE LET level == Head(frame.line)
         IN  IF Blocking(frame) = 0
             THEN CollectLevel(level, frame.goal, frame.base) = Failed
             ELSE WaitsFor(frame) = NoType

Fail(t) ==
    /\ Fails(Top(t))
    /\ SetWork(t, <<>>)
    /\ UNCHANGED <<layouts, instances, statics>>

LayoutStep(t) ==
    /\ work[t] # <<>>
    /\ AnswerLeaf(t) \/ AnswerEnum(t) \/ Descend(t) \/ Collect(t) \/ Fail(t)

LayoutNext ==
    \E t \in Thread :
        \/ \E r \in Requests(defs) : Ask(t, r.goal, r.type)
        \/ LayoutStep(t)

-----------------------------------------------------------------------------
(* What is stored where, read off the metadata: the positions are those of the
   layouts, everything else is independent of how the layouts were computed. *)

Slot(at, size, kind) == [at |-> at, size |-> size, kind |-> kind]
MoveSlots(slots, by) == {[s EXCEPT !.at = @ + by] : s \in slots}

RECURSIVE StoredSlots(_, _, _), TypeSlots(_)

ValueSlots(level, f) ==
    CASE IsHandleValue(f) -> {Slot(0, PointerSize, "object")}
      [] IsByRef(f) -> {Slot(0, ManagedPtrSize, "pointer")}
      [] OTHER -> TypeSlots(FieldType(level, f))

TypeSlots(type) ==
    LET kind == Def(type).kind
    IN  CASE kind = "scalar" -> {Slot(0, Def(type).size, "plain")}
          [] kind = "enum" -> TypeSlots(Underlying(type))
          [] kind = "byreference" -> {Slot(0, ManagedPtrSize, "pointer")}
          [] kind \in {"class", "interface"} -> {Slot(0, PointerSize, "object")}
          [] OTHER -> StoredSlots(layouts[type], "type", type)

StoredSlots(layout, goal, type) ==
    LET copies(level) == IF goal = "static" THEN 1 ELSE Greatest(1, Def(level).inline)
        place(level, f) == CHOOSE p \in layout.fields : p.owner = level.def /\ p.name = f.name
        field(level, f) ==
            LET p == place(level, f)
            IN  UNION {MoveSlots(ValueSlots(level, f), p.pos + i * p.layout.size)
                         : i \in 0..(copies(level) - 1)}
    IN  UNION {UNION {field(level, f) : f \in ToSet(FieldsOf(level, goal))}
                 : level \in ToSet(Levels(goal, type))}

SlotsOf(goal, type) ==
    IF Levels(goal, type) = <<>> THEN TypeSlots(type)
    ELSE StoredSlots(CacheOf(goal)[type], goal, type)

Goals == {"type", "instance", "static"}
EachLayout(Holds(_, _, _)) ==
    \A goal \in Goals : \A type \in DOMAIN CacheOf(goal) : Holds(goal, type, CacheOf(goal)[type])

At(slots, kind) == {s.at : s \in {x \in slots : x.kind = kind}}

(* FieldLayoutManager::trace and LayoutManager::trace over storage of the layout's size *)
TracedObjects(layout) == {o \in layout.gc : o + PointerSize <= layout.size}
TracedPointers(layout) ==
    IF layout.hasPtrs THEN {o \in layout.ptrs : o + ManagedPtrSize <= layout.size} ELSE {}

(* The collector visits exactly the object references and the managed pointers a
   value holds, in every type of a field, in objects, in static storage and in
   arrays: nested structs, inherited fields and repeated elements included. *)
ReferencesTraced ==
    EachLayout(LAMBDA goal, type, layout :
        LET slots == SlotsOf(goal, type)
            pair == ArrayLayout(layout, 2)
        IN  /\ TracedObjects(layout) = At(slots, "object")
            /\ TracedPointers(layout) = At(slots, "pointer")
            /\ goal = "type" =>
                 TracedObjects(pair) = At(slots, "object") \cup Shift(At(slots, "object"), layout.size))

(* What a value holds lies inside its storage. *)
InsideStorage ==
    EachLayout(LAMBDA goal, type, layout :
        \A s \in SlotsOf(goal, type) : s.at + s.size <= layout.size)

(* A reference shares its bytes with nothing, unless a definition is one of those
   for which the code accepts it. *)
ReferencesAlone ==
    EachLayout(LAMBDA goal, type, layout :
        \/ \E d \in DOMAIN defs : defs[d].lenient
        \/ \A a, b \in SlotsOf(goal, type) :
                a # b /\ a.at < b.at + b.size /\ b.at < a.at + a.size
                   => a.kind = "plain" /\ b.kind = "plain")

RECURSIVE Natural(_, _)
(* Nothing in the type is packed, sized or placed by hand *)
Natural(goal, type) ==
    \A level \in ToSet(Levels(goal, type)) :
        /\ \/ Def(level).layout.kind = "auto"
           \/ Def(level).layout.kind = "sequential"
              /\ Def(level).layout.pack \in {0, 8} /\ Def(level).layout.size = 0
        /\ \A f \in ToSet(FieldsOf(level, goal)) :
              NeedsLayout(f) => Natural("type", FieldType(level, f))

(* References are aligned for the atomic accesses of the runtime, in elements of
   arrays too, unless the program has asked for another layout. *)
ReferencesAligned ==
    EachLayout(LAMBDA goal, type, layout :
        Natural(goal, type) =>
            /\ \A s \in SlotsOf(goal, type) : s.kind # "plain" => s.at % PointerSize = 0
            /\ layout.refs => layout.size % PointerSize = 0)

StorageSound == InsideStorage /\ ReferencesAlone /\ ReferencesAligned

(* An object of a derived type can be used as one of its base type: what the base's
   own layout holds, with the arguments the derived type gives it, is at the same
   place. And the two caches that may hold the layout of a value type agree. *)
LayoutsAgree ==
    /\ \A type \in DOMAIN instances : \A base \in ToSet(Ancestors(type)) \cap DOMAIN instances :
          ~IsValueType(type) =>
            /\ instances[base].fields \subseteq instances[type].fields
            /\ instances[base].gc \subseteq instances[type].gc
    /\ \A type \in DOMAIN instances \cap DOMAIN layouts :
          Def(type).kind \in {"struct", "refstruct"} => instances[type] = layouts[type]

(* Every layout the factory builds is one the collector and the program can both use: its
   references are traced, lie inside it, alone and aligned, and are where a base type or
   another cache says they are (LayoutFactory, FieldLayoutManager). *)
LayoutsSound == ReferencesTraced /\ StorageSound /\ LayoutsAgree
=============================================================================
