---------------------------- MODULE CrossArenaGC ----------------------------
(***************************************************************************)
(* What one coordinated collection does to the heaps: collect_all_arenas   *)
(* (gc/coordinator.rs) with the command handlers of                        *)
(* execute_gc_command_for_current_thread (threading/basic.rs) and          *)
(* HeapManager::finalize_check (dotnet-runtime-memory/src/heap.rs).        *)
(*                                                                         *)
(* The world is stopped, so the object graph is fixed.  Each arena marks,  *)
(* finalizes and sweeps its own objects; a reference into another arena is *)
(* recorded and sent to its owner in a later round.  StopTheWorld shows    *)
(* that commands of different phases do not overlap; within a phase the    *)
(* arenas run theirs in any order.                                         *)
(***************************************************************************)
EXTENDS Naturals, FiniteSets

CONSTANTS
    Arenas,
    Objects,
    Owner,       \* ObjectInner::owner_id
    MaxRefs,     \* bound: references held by one object
    MaxRoots,    \* bound: objects on one arena's stack and in its statics
    MaxQueued,   \* bound: objects awaiting finalization
    MaxStale     \* bound: cross_arena_roots left by the previous collection

ASSUME OwnerAssumption == Owner \in [Objects -> Arenas]
ASSUME HeapBounds == {MaxRefs, MaxRoots, MaxQueued, MaxStale} \subseteq Nat

VARIABLES
    refs,        \* the references each object holds
    roots,       \* what each arena's root traces besides cross_arena_roots
    registered,  \* arenas with a live registration
    queue,       \* finalization_queue, over all arenas
    pending,     \* pending_finalization, over all arenas
    phase,       \* the command collect_all_arenas is at
    todo,        \* arenas that have still to run it
    objs,        \* the objects named by this round's MarkObjects commands
    crossRoots,  \* cross_arena_roots, over all arenas
    found,       \* GCCoordinator::cross_arena_refs
    dispatched,  \* references already sent to their owner
    marked,      \* objects that are not white
    freed

heap == <<refs, roots, registered>>
vars == <<heap, queue, pending, phase, todo, objs, crossRoots, found, dispatched, marked, freed>>

Local(a) == {o \in Objects : Owner[o] = a}

SmallSubsets(S, n) == {T \in SUBSET S : Cardinality(T) <= n}

(* Every heap whose live objects reference live arenas or ones whose thread has left. *)
Init ==
    /\ refs \in [Objects -> SmallSubsets(Objects, MaxRefs)]
    /\ roots \in [Arenas -> SmallSubsets(Objects, MaxRoots)]
    /\ registered \in SUBSET Arenas \ {{}}
    /\ queue \in SmallSubsets({o \in Objects : Owner[o] \in registered}, MaxQueued)
    /\ crossRoots \in SmallSubsets({o \in Objects : Owner[o] \in registered}, MaxStale)
    /\ pending = {}
    /\ phase = "MarkAll" /\ todo = registered
    /\ objs = {} /\ found = {} /\ dispatched = {}
    /\ marked = {} /\ freed = {}

(* The objects of S and everything that references r inside T lead to from them. *)
Closure(r, S, T) ==
    {o \in Objects : \A C \in SUBSET Objects :
        S \subseteq C /\ (\A p \in C \cap T : r[p] \cap T \subseteq C) => o \in C}

-----------------------------------------------------------------------------
(* Marking *)

(* finish_marking and the harvest: the arena's own graph is traced from its root,
   and a reference to another arena's object is recorded while that arena is
   registered (ObjectRef::trace, record_found_cross_arena_refs). *)
Trace(a, extra) ==
    LET own == Local(a)
        reach == Closure(refs, (roots[a] \cap own) \cup extra, own)
        foreign == (roots[a] \cup UNION {refs[o] : o \in reach \ marked}) \ own
    IN  /\ marked' = marked \cup reach
        /\ found' = found \cup {o \in foreign : Owner[o] \in registered}

(* Mutant: the roots of the previous collection are kept. *)
MarkAllKeepsRoots(a) ==
    /\ phase = "MarkAll" /\ a \in todo
    /\ Trace(a, crossRoots \cap Local(a))
    /\ todo' = todo \ {a}
    /\ UNCHANGED <<heap, queue, pending, phase, objs, dispatched, crossRoots, freed>>

(* MarkAll clears the roots of the previous collection and traces from the rest. *)
MarkAll(a) ==
    /\ phase = "MarkAll" /\ a \in todo
    /\ crossRoots' = crossRoots \ Local(a)
    /\ Trace(a, {})
    /\ todo' = todo \ {a}
    /\ UNCHANGED <<heap, queue, pending, phase, objs, dispatched, freed>>

(* The owner installs the objects sent to it as roots, and traces again. *)
MarkObjects(a) ==
    /\ phase = "MarkObjects" /\ a \in todo
    /\ crossRoots' = crossRoots \cup (objs \cap Local(a))
    /\ Trace(a, (crossRoots \cup objs) \cap Local(a))
    /\ todo' = todo \ {a}
    /\ UNCHANGED <<heap, queue, pending, phase, objs, dispatched, freed>>

(* Mutant: every recorded reference is sent again. *)
FreshAll == found

(* References that have not been sent yet; the rest are forgotten. *)
Fresh == found \ dispatched

(* One turn of the fixed-point loop: a MarkObjects round for the new references,
   or finalization when there are none. *)
NextRound ==
    /\ phase \in {"MarkAll", "MarkObjects"} /\ todo = {}
    /\ found' = {}
    /\ IF Fresh # {}
         THEN /\ phase' = "MarkObjects"
              /\ objs' = Fresh /\ dispatched' = dispatched \cup Fresh
              /\ todo' = {Owner[o] : o \in Fresh}
         ELSE /\ phase' = "Finalize"
              /\ todo' = registered
              /\ UNCHANGED <<objs, dispatched>>
    /\ UNCHANGED <<heap, queue, pending, crossRoots, marked, freed>>

-----------------------------------------------------------------------------
(* Finalization and sweeping *)

(* Mutant: an object becomes pending without being resurrected. *)
FinalizeWithoutResurrection(a) ==
    LET dead == (queue \cap Local(a)) \ marked
    IN  /\ phase = "Finalize" /\ a \in todo
        /\ queue' = queue \ dead
        /\ pending' = pending \cup dead
        /\ todo' = todo \ {a}
        /\ UNCHANGED <<heap, phase, objs, crossRoots, found, dispatched, marked, freed>>

(* finalize_check: dead objects with a finalizer become pending and are
   resurrected with everything they lead to.  ObjectRef::resurrect follows every
   reference, whichever arena owns its target. *)
Finalize(a) ==
    LET dead == (queue \cap Local(a)) \ marked
        revived == Closure(refs, dead, Objects) \ marked
    IN  /\ phase = "Finalize" /\ a \in todo
        /\ queue' = queue \ dead
        /\ pending' = pending \cup dead
        /\ marked' = marked \cup revived
        /\ todo' = todo \ {a}
        /\ UNCHANGED <<heap, phase, objs, crossRoots, found, dispatched, freed>>

Sweep(a) ==
    /\ phase = "Sweep" /\ a \in todo
    /\ freed' = freed \cup (Local(a) \ marked)
    /\ todo' = todo \ {a}
    /\ UNCHANGED <<heap, queue, pending, phase, objs, crossRoots, found, dispatched, marked>>

NextCommand ==
    /\ phase \in {"Finalize", "Sweep"} /\ todo = {}
    /\ phase' = IF phase = "Finalize" THEN "Sweep" ELSE "Done"
    /\ todo' = IF phase = "Finalize" THEN registered ELSE {}
    /\ UNCHANGED <<heap, queue, pending, objs, crossRoots, found, dispatched, marked, freed>>

Next ==
    \/ \E a \in Arenas : MarkAll(a) \/ MarkObjects(a) \/ Finalize(a) \/ Sweep(a)
    \/ NextRound
    \/ NextCommand

Spec == Init /\ [][Next]_vars

(* Every arena's thread answers its command (StopTheWorld, CollectionCompletes). *)
FairSpec == Spec /\ WF_vars(Next)

-----------------------------------------------------------------------------
(* Properties *)

TypeOK ==
    /\ refs \in [Objects -> SUBSET Objects] /\ roots \in [Arenas -> SUBSET Objects]
    /\ registered \subseteq Arenas
    /\ queue \subseteq Objects /\ pending \subseteq Objects
    /\ phase \in {"MarkAll", "MarkObjects", "Finalize", "Sweep", "Done"}
    /\ todo \subseteq registered
    /\ objs \subseteq Objects /\ crossRoots \subseteq Objects
    /\ found \subseteq Objects /\ dispatched \subseteq Objects
    /\ marked \subseteq Objects
    /\ freed \subseteq Objects

(* Objects of arenas that take part in the collection. *)
Present == {o \in Objects : Owner[o] \in registered}

(* When marking has reached its fixed point, the roots of every arena are marked
   and no marked object references an unmarked one: the collection has seen
   everything reachable, however the paths weave between arenas. *)
MarkingComplete ==
    phase \in {"Finalize", "Sweep", "Done"} =>
        /\ \A a \in registered : roots[a] \cap Present \subseteq marked
        /\ \A o \in marked \cap Present : refs[o] \cap Present \subseteq marked

(* What the program can still reach: from a root, or from a pending finalizer. *)
RootReach == Closure(refs, (UNION {roots[a] : a \in registered}) \cap Present, Present)

Reachable == RootReach \cup Closure(refs, pending, Objects)

(* No sweep frees an object that a root or a pending finalizer can still reach. *)
NothingReachableFreed == freed \cap Reachable = {}

(* The collection is exact: all that nothing can reach any more has been freed. *)
GarbageFreed ==
    phase = "Done" => Present \ Reachable \subseteq freed

(* The rounds of cross-arena marking come to an end, and with them the collection. *)
CollectionEnds == <>(phase = "Done")
=============================================================================
