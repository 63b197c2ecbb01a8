-------------------------------- MODULE Heap --------------------------------
(***************************************************************************)
(* The HeapManager of one arena (dotnet-runtime-memory/src/heap.rs), the   *)
(* System.GC and GCHandle calls of a program                               *)
(* (dotnet-vm/src/intrinsics/gc.rs), and the executor's loop, which runs   *)
(* collections and finalizers between batches of instructions              *)
(* (Executor::run).                                                        *)
(*                                                                         *)
(* CrossArenaGC shows how a collection finds what is reachable when the    *)
(* references weave between arenas; here the arena is alone, a collection  *)
(* is one step (its world is stopped), and the question is what a long     *)
(* sequence of calls and collections does to handles and finalizers.       *)
(* An object's identity is its allocation: it is not used again.           *)
(***************************************************************************)
EXTENDS Naturals, FiniteSets

CONSTANTS
    Object,
    Finalizable,     \* ObjectInstance::has_finalizer
    Null,
    Kinds,           \* the kinds of GCHandle the program uses
    MaxHandles,      \* bound: slots of gchandles
    MaxCollections   \* bound: collections in a behaviour

ASSUME ObjectAssumption == Finalizable \subseteq Object /\ Null \notin Object
ASSUME KindAssumption == Kinds \subseteq {"Weak", "WeakTrackResurrection", "Normal", "Pinned"}
ASSUME BoundAssumption == {MaxHandles, MaxCollections} \subseteq Nat

VARIABLES
    at,          \* where the executor's loop is
    allocated,   \* objects the arena holds
    freed,       \* objects swept
    field,       \* the reference an object holds
    roots,       \* objects the frames, the evaluation stack and statics hold
    suppressed,  \* objects with finalizer_suppressed
    queue,       \* finalization_queue: entries per object
    pending,     \* pending_finalization: entries per object
    finalizing,  \* the object whose finalizer runs, when processing_finalizer is set
    gchandles,
    pinned,      \* pinned_objects
    registry,    \* object_registry
    needsFull,   \* needs_full_collect
    waiting,     \* the program is at a call of WaitForPendingFinalizers
    collections

program == <<roots, field, suppressed>>
finalizers == <<queue, pending, finalizing>>
handles == <<gchandles, pinned>>
arena == <<allocated, freed, registry>>
loop == <<at, needsFull, waiting, collections>>
vars == <<program, finalizers, handles, arena, loop>>

Maybe == Object \cup {Null}
Free == [target |-> Null, kind |-> "free"]

Init ==
    /\ at = "check" /\ needsFull = FALSE /\ waiting = FALSE /\ collections = 0
    /\ allocated = {} /\ freed = {} /\ registry = {}
    /\ field = [o \in Object |-> Null] /\ roots = {} /\ suppressed = {}
    /\ queue = [o \in Object |-> 0] /\ pending = [o \in Object |-> 0] /\ finalizing = Null
    /\ gchandles = [h \in 1..MaxHandles |-> Free] /\ pinned = {}

-----------------------------------------------------------------------------
(* Collections *)

(* The objects of S and everything their fields lead to. *)
Closure(S) ==
    {o \in Object : \A C \in SUBSET Object :
        S \subseteq C /\ (\A p \in C : field[p] \in C \cup {Null}) => o \in C}

HandleTargets(kinds) == {gchandles[h].target : h \in {h \in 1..MaxHandles : gchandles[h].kind \in kinds}}

Queued(q) == {o \in Object : q[o] > 0}

(* HeapManager::trace and the rest of the arena's root. *)
Traced ==
    (roots \cup {finalizing} \cup pinned \cup Queued(pending)
           \cup HandleTargets({"Normal", "Pinned"})) \ {Null}

Reachable == Closure(Traced)

(* Objects that are due a finalizer: in the queue, dead and not suppressed. *)
Due == {o \in Queued(queue) \ suppressed : o \notin Reachable}

(* Mutant: what a resurrected object references is not resurrected with it. *)
SurvivorsShallow == Reachable \cup Due

(* ObjectRef::resurrect: with everything it leads to. *)
Survivors == Reachable \cup Closure(Due)

(* Mutant: a short weak handle lives as long as its object. *)
ZeroedByKindOnly(h) == h.target \notin Survivors

(* zero_out_handles, before resurrection for Weak and after it for
   WeakTrackResurrection. *)
Zeroed(h) ==
    \/ h.kind = "Weak" /\ h.target \notin Reachable
    \/ h.kind = "WeakTrackResurrection" /\ h.target \notin Survivors

(* What stays in the queue. *)
QueueLeft == [o \in Object |-> IF o \in suppressed \cup Due THEN 0 ELSE queue[o]]

(* finish_marking, finalize_check and the sweep. *)
Collect ==
    /\ collections' = collections + 1
    /\ queue' = QueueLeft
    /\ pending' = [o \in Object |-> pending[o] + (IF o \in Due THEN queue[o] ELSE 0)]
    /\ gchandles' = [h \in 1..MaxHandles |->
                        IF Zeroed(gchandles[h]) THEN [gchandles[h] EXCEPT !.target = Null]
                                                ELSE gchandles[h]]
    /\ registry' = registry \cap Survivors
    /\ allocated' = allocated \cap Survivors
    /\ freed' = freed \cup (allocated \ Survivors)
    /\ suppressed' = suppressed \cap Survivors
    /\ field' = [o \in Object |-> IF o \in Survivors THEN field[o] ELSE Null]
    /\ UNCHANGED <<roots, finalizing, pinned>>

-----------------------------------------------------------------------------
(* The executor's loop *)

(* collection_check and perform_full_gc, then the safe point.  A collection comes
   when the program asked for one, when the arena is over its allocation
   threshold, or when another thread coordinates it; a program that asks while
   another thread is about to collect goes on until that thread has stopped it.
   A second collection before the program runs would find nothing to do. *)
CheckAndSafePoint ==
    /\ at = "check" /\ at' = "finalizers"
    /\ needsFull' = FALSE
    /\ \/ collections < MaxCollections /\ Collect
       \/ UNCHANGED <<program, finalizers, handles, arena, collections>>
    /\ UNCHANGED waiting

(* Mutant: the entry is taken before the look at processing_finalizer. *)
ProcessPendingFinalizersPopsFirst ==
    /\ at = "finalizers" /\ at' = "run"
    /\ \/ \E o \in Queued(pending) :
            /\ pending' = [pending EXCEPT ![o] = @ - 1]
            /\ finalizing' = IF finalizing = Null THEN o ELSE finalizing
       \/ Queued(pending) = {} /\ UNCHANGED <<pending, finalizing>>
    /\ UNCHANGED <<program, queue, handles, arena, needsFull, waiting, collections>>

(* process_pending_finalizers takes the last entry; which one that is does not
   matter here.  The finalizer's frame holds the object until it returns. *)
ProcessPendingFinalizers ==
    /\ at = "finalizers" /\ at' = "run"
    /\ \/ /\ finalizing = Null
          /\ \E o \in Queued(pending) :
                /\ pending' = [pending EXCEPT ![o] = @ - 1]
                /\ finalizing' = o
       \/ /\ finalizing # Null \/ Queued(pending) = {}
          /\ UNCHANGED <<pending, finalizing>>
    /\ UNCHANGED <<program, queue, handles, arena, needsFull, waiting, collections>>

-----------------------------------------------------------------------------
(* The program, which runs in batches of instructions.  While a finalizer's frame
   is on the stack, its code is what runs. *)

Runs == at = "run" /\ (waiting => finalizing # Null)
Held == roots \cup ({finalizing} \ {Null})

Yield ==
    /\ at = "run" /\ at' = "check"
    /\ UNCHANGED <<program, finalizers, handles, arena, needsFull, waiting, collections>>

(* register_new_object, and the constructor's store of a reference. *)
New(o, v) ==
    /\ Runs /\ o \notin allocated \cup freed /\ v \in Held \cup {Null}
    /\ field' = [field EXCEPT ![o] = v]
    /\ allocated' = allocated \cup {o} /\ registry' = registry \cup {o}
    /\ roots' = roots \cup {o}
    /\ queue' = [queue EXCEPT ![o] = IF o \in Finalizable THEN @ + 1 ELSE @]
    /\ UNCHANGED <<suppressed, pending, finalizing, handles, freed, loop>>

(* A reference the program comes to hold. *)
Hold(v) ==
    /\ roots' = (roots \cup {v}) \ {Null}
    /\ UNCHANGED <<field, suppressed, finalizers, handles, arena, loop>>

Load(o) == Runs /\ o \in Held /\ Hold(field[o])

Release(o) ==
    /\ Runs /\ o \in roots
    /\ roots' = roots \ {o}
    /\ UNCHANGED <<field, suppressed, finalizers, handles, arena, loop>>

(* return_frame and unwind_frame: the finalizer's frame is gone. *)
FinalizerReturns ==
    /\ at = "run" /\ finalizing # Null
    /\ finalizing' = Null
    /\ UNCHANGED <<program, queue, pending, handles, arena, loop>>

SuppressFinalize(o) ==
    /\ Runs /\ o \in Held
    /\ suppressed' = suppressed \cup {o}
    /\ UNCHANGED <<roots, field, finalizers, handles, arena, loop>>

ReRegisterForFinalize(o) ==
    /\ Runs /\ o \in Held
    /\ suppressed' = suppressed \ {o}
    /\ queue' = [queue EXCEPT ![o] = IF @ = 0 THEN 1 ELSE @]
    /\ UNCHANGED <<roots, field, pending, finalizing, handles, arena, loop>>

(* GC.Collect ends the batch, so that the loop sees the request. *)
GCCollect ==
    /\ Runs
    /\ needsFull' = TRUE /\ at' = "check"
    /\ UNCHANGED <<program, finalizers, handles, arena, waiting, collections>>

(* The call ends the batch and is tried again as long as a finalizer is pending
   or running.  (Made by a finalizer, it would never return: see README.) *)
WaitForPendingFinalizers ==
    /\ at = "run" /\ finalizing = Null
    /\ waiting' = (Queued(pending) # {} \/ finalizing # Null)
    /\ at' = IF waiting' THEN "check" ELSE "run"
    /\ UNCHANGED <<program, finalizers, handles, arena, needsFull, collections>>

-----------------------------------------------------------------------------
(* Handles: an index into the table is all that a program keeps of one *)

First(S) == CHOOSE h \in S : \A i \in S : h <= i

(* GCHandle::InternalAlloc: alloc_or_reuse_slot, and pin_object. *)
HandleAlloc(o, kind) ==
    LET empty == {h \in 1..MaxHandles : gchandles[h] = Free}
    IN  /\ Runs /\ o \in Held /\ empty # {}
        /\ gchandles' = [gchandles EXCEPT ![First(empty)] = [target |-> o, kind |-> kind]]
        /\ pinned' = IF kind = "Pinned" THEN pinned \cup {o} ELSE pinned
        /\ UNCHANGED <<program, finalizers, arena, loop>>

(* GCHandle::InternalFree *)
HandleFree(h) ==
    /\ Runs
    /\ pinned' = IF gchandles[h].kind = "Pinned" THEN pinned \ {gchandles[h].target} ELSE pinned
    /\ gchandles' = [gchandles EXCEPT ![h] = Free]
    /\ UNCHANGED <<program, finalizers, arena, loop>>

(* GCHandle::InternalGet *)
HandleGet(h) == Runs /\ Hold(gchandles[h].target)

(* GCHandle::InternalSet *)
HandleSet(h, o) ==
    /\ Runs /\ o \in Held \cup {Null} /\ gchandles[h] # Free
    /\ pinned' = IF gchandles[h].kind = "Pinned"
                   THEN (pinned \ {gchandles[h].target}) \cup ({o} \ {Null})
                   ELSE pinned
    /\ gchandles' = [gchandles EXCEPT ![h].target = o]
    /\ UNCHANGED <<program, finalizers, arena, loop>>

-----------------------------------------------------------------------------
Loop == CheckAndSafePoint \/ ProcessPendingFinalizers \/ Yield

Program ==
    \/ \E o \in Object :
         \/ Load(o) \/ Release(o)
         \/ SuppressFinalize(o) \/ ReRegisterForFinalize(o)
         \/ \E v \in Maybe : New(o, v)
         \/ \E kind \in Kinds : HandleAlloc(o, kind)
    \/ \E h \in 1..MaxHandles : HandleFree(h) \/ HandleGet(h) \/ \E v \in Maybe : HandleSet(h, v)
    \/ FinalizerReturns \/ GCCollect \/ WaitForPendingFinalizers

Next == Loop \/ Program

Spec == Init /\ [][Next]_vars

(* The executor's loop goes round, a batch comes to its end, and finalizers
   return. *)
FairSpec ==
    /\ Spec
    /\ WF_vars(Loop)
    /\ SF_vars(FinalizerReturns)
    /\ SF_vars(waiting /\ WaitForPendingFinalizers)

-----------------------------------------------------------------------------
(* Properties *)

TypeOK ==
    /\ at \in {"check", "finalizers", "run"}
    /\ needsFull \in BOOLEAN /\ waiting \in BOOLEAN /\ collections \in 0..MaxCollections
    /\ allocated \subseteq Object /\ freed \subseteq Object /\ registry \subseteq Object
    /\ field \in [Object -> Maybe] /\ roots \subseteq Object /\ suppressed \subseteq Object
    /\ queue \in [Object -> Nat] /\ pending \in [Object -> Nat] /\ finalizing \in Maybe
    /\ gchandles \in [1..MaxHandles -> [target : Maybe, kind : Kinds \cup {"free"}]]
    /\ pinned \subseteq Object

(* Whatever order handles are made, set and freed in, finalizers run and
   resurrect, and collections come: no reference that the program or the heap
   manager keeps is to an object that was swept, and the registry of objects,
   by which an address finds its owner, knows exactly the objects there are. *)
NothingDangles ==
    /\ (Held \cup pinned \cup Queued(queue) \cup Queued(pending) \cup HandleTargets(Kinds))
         \cap freed = {}
    /\ \A o \in allocated : field[o] \notin freed
    /\ registry = allocated

(* An object waits for one finalizer at a time in each queue (finalize_check's
   "finalization queue must not contain duplicates"): it is finalized once for
   each time it was registered, although it may be re-registered at any moment
   of its finalization. *)
EntriesOnce == \A o \in Object : queue[o] <= 1 /\ pending[o] <= 1

(* The tables of the heap manager hold live objects only, each as often as it should be. *)
TablesSound == NothingDangles /\ EntriesOnce

(* A collection clears a short weak handle exactly when nothing but finalization
   can reach its object any more, and a tracking one exactly when the object is
   swept, after resurrection; no other handle loses its object. *)
HandlesClearedOnDeath ==
    [][collections' # collections =>
        \A h \in 1..MaxHandles :
            LET old == gchandles[h] IN
            gchandles'[h].target =
                CASE old.kind = "Weak" /\ old.target \notin Reachable -> Null
                  [] old.kind = "WeakTrackResurrection" /\ old.target \in freed' -> Null
                  [] OTHER -> old.target]_vars

(* Every object queued for finalization is finalized, and a program that waits for
   that goes on. *)
FinalizersRun ==
    /\ \A o \in Object : pending[o] > 0 ~> finalizing = o
    /\ waiting ~> ~waiting
=============================================================================
