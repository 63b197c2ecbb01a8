----------------------------- MODULE HeapProofs -----------------------------
(***************************************************************************)
(* For any objects and any number of handles and collections: nothing that *)
(* the program or the heap manager keeps is swept, an object is queued for *)
(* one finalizer at a time, and a collection clears exactly the handles of *)
(* the objects that die.                                                   *)
(***************************************************************************)
EXTENDS Heap, WellFoundedInduction, TLAPS

Kept == Held \cup pinned \cup Queued(queue) \cup Queued(pending)
Entries == [target : Maybe, kind : Kinds \cup {"free"}]

(* What is referenced is allocated: the program's references, the tables of the
   heap manager, and the fields of what is itself allocated.  An identity that was
   swept is not allocated again. *)
LiveInv ==
    /\ Kept \subseteq allocated
    /\ \A h \in 1..MaxHandles : gchandles[h].target \in allocated \cup {Null}
    /\ \A h \in 1..MaxHandles : gchandles[h].kind = "free" => gchandles[h].target = Null
    /\ \A o \in allocated : field[o] \in allocated \cup {Null}
    /\ registry = allocated /\ allocated \cap freed = {}

IInv == TypeOK /\ LiveInv /\ EntriesOnce

-----------------------------------------------------------------------------
(* Reachability *)

(* What is reachable from S contains S, is closed under the fields and is made of objects. *)
LEMMA ClosureClosed ==
    ASSUME field \in [Object -> Maybe], NEW S \in SUBSET Object
    PROVE  /\ S \subseteq Closure(S) /\ Closure(S) \subseteq Object
           /\ \A o \in Closure(S) : field[o] \in Closure(S) \cup {Null}
  BY DEF Closure, Maybe

(* It is the least such set. *)
LEMMA ClosureLeast ==
    ASSUME NEW S \in SUBSET Object, NEW C \in SUBSET Object,
           S \subseteq C, \A p \in C : field[p] \in C \cup {Null}
    PROVE  Closure(S) \subseteq C
  BY DEF Closure

(* What a collection keeps: everything the root of the arena traces and whatever is due
   a finalizer, and nothing but allocated objects. *)
LEMMA SurvivorsFacts ==
    ASSUME IInv
    PROVE  /\ Traced \subseteq Reachable /\ Reachable \subseteq Survivors /\ Due \subseteq Survivors
           /\ Survivors \subseteq allocated
           /\ \A o \in Survivors : field[o] \in Survivors \cup {Null}
<1>1. field \in [Object -> Maybe] /\ allocated \in SUBSET Object
  BY DEF IInv, TypeOK
<1>2. HandleTargets({"Normal", "Pinned"}) \subseteq allocated \cup {Null}
  BY DEF IInv, LiveInv, HandleTargets
<1>3. Traced \subseteq allocated /\ Due \subseteq allocated
  BY <1>2 DEF IInv, LiveInv, Kept, Held, Traced, Due
<1>4. \A p \in allocated : field[p] \in allocated \cup {Null}
  BY DEF IInv, LiveInv
<1>5. Traced \in SUBSET Object /\ Due \in SUBSET Object
  BY <1>1, <1>3
<1>6. Closure(Traced) \subseteq allocated /\ Closure(Due) \subseteq allocated
  BY <1>1, <1>3, <1>4, <1>5, ClosureLeast
<1>7. /\ Traced \subseteq Closure(Traced) /\ Due \subseteq Closure(Due)
      /\ \A o \in Closure(Traced) : field[o] \in Closure(Traced) \cup {Null}
      /\ \A o \in Closure(Due) : field[o] \in Closure(Due) \cup {Null}
  BY <1>1, <1>5, ClosureClosed
<1> QED BY <1>6, <1>7 DEF Reachable, Survivors

(* A collection clears a handle's target or leaves it, and never its kind. *)
LEMMA Zeroing ==
    ASSUME IInv, Collect, NEW h \in 1..MaxHandles
    PROVE  /\ gchandles[h] \in Entries /\ gchandles'[h] \in Entries
           /\ gchandles'[h].kind = gchandles[h].kind
           /\ gchandles'[h].target = IF Zeroed(gchandles[h]) THEN Null ELSE gchandles[h].target
<1>1. gchandles[h] \in Entries
  BY SMTT(30) DEF IInv, TypeOK, Entries
<1>2. gchandles'[h] = IF Zeroed(gchandles[h]) THEN [gchandles[h] EXCEPT !.target = Null] ELSE gchandles[h]
  BY DEF Collect
<1> QED BY <1>1, <1>2 DEF Entries, Maybe

(* The target of a handle that a collection does not clear survives it. *)
LEMMA UnclearedSurvives ==
    ASSUME IInv, NEW h \in 1..MaxHandles, ~Zeroed(gchandles[h])
    PROVE  gchandles[h].target \in Survivors \cup {Null}
<1>1. gchandles[h].kind \in Kinds \cup {"free"}
  BY DEF IInv, TypeOK
<1>2. gchandles[h].kind \in {"Weak", "WeakTrackResurrection", "Normal", "Pinned", "free"}
  BY <1>1, KindAssumption
<1>3. CASE gchandles[h].kind \in {"Normal", "Pinned"}
  <2>1. gchandles[h].target \in HandleTargets({"Normal", "Pinned"})
    BY <1>3 DEF HandleTargets
  <2> QED BY <2>1, SurvivorsFacts DEF Traced
<1>4. CASE gchandles[h].kind \in {"Weak", "WeakTrackResurrection"}
  BY <1>4, SurvivorsFacts DEF Zeroed
<1>5. CASE gchandles[h].kind = "free"
  BY <1>5 DEF IInv, LiveInv
<1> QED BY <1>2, <1>3, <1>4, <1>5

(* Every nonempty set of handle indexes has a least one, which alloc_or_reuse_slot takes. *)
LEMMA FirstIsOne ==
    ASSUME NEW S \in SUBSET (1..MaxHandles), S # {}
    PROVE  First(S) \in S
<1> DEFINE R == OpToRel(<, Nat)
<1>1. S \subseteq Nat
  OBVIOUS
<1>2. \A x, y \in Nat : <<x, y>> \in R <=> x < y
  BY DEF OpToRel
<1>3. IsWellFoundedOn(R, Nat)
  BY NatLessThanWellFounded
<1> HIDE DEF R
<1>4. PICK x \in S : \A y \in S : ~ (<<y, x>> \in R)
  BY Zenon, <1>1, <1>3, WFMin
<1>5. \A y \in S : x <= y
  <2> SUFFICES ASSUME NEW y \in S PROVE x <= y
    OBVIOUS
  <2>1. x \in Nat /\ y \in Nat
    BY <1>1
  <2>2. ~(y < x)
    BY <1>2, <1>4, <2>1, Zenon
  <2> QED BY <2>1, <2>2
<1> QED BY Zenon, <1>5 DEF First

-----------------------------------------------------------------------------
(* The invariant *)

(* A new arena holds nothing. *)
LEMMA InitIInv == Init => IInv
<1> SUFFICES ASSUME Init PROVE IInv
  OBVIOUS
<1>1. TypeOK
  <2>1. MaxCollections \in Nat /\ Free \in Entries
    BY BoundAssumption DEF Free, Entries, Maybe
  <2>2. gchandles \in [1..MaxHandles -> Entries] /\ collections \in 0..MaxCollections
    BY <2>1 DEF Init
  <2> QED BY Zenon, <2>2 DEF Init, TypeOK, Maybe, Entries
<1>2. Kept = {}
  BY DEF Init, Kept, Held, Queued
<1>3. LiveInv /\ EntriesOnce
  BY <1>2 DEF Init, LiveInv, EntriesOnce, Free
<1> QED BY <1>1, <1>3 DEF IInv

(* A collection keeps what is referenced and queues each dead object once. *)
LEMMA CollectIInv ==
    ASSUME IInv, Collect, collections < MaxCollections,
           at' \in {"check", "finalizers", "run"}, needsFull' \in BOOLEAN, waiting' \in BOOLEAN
    PROVE  IInv'
<1>1. /\ Traced \subseteq Reachable /\ Reachable \subseteq Survivors /\ Due \subseteq Survivors
      /\ Survivors \subseteq allocated
      /\ \A o \in Survivors : field[o] \in Survivors \cup {Null}
  BY SurvivorsFacts
<1>2. TypeOK /\ LiveInv /\ EntriesOnce
  BY DEF IInv
<1>3. /\ allocated' = Survivors /\ registry' = Survivors /\ freed' = freed \cup (allocated \ Survivors)
      /\ roots' = roots /\ finalizing' = finalizing /\ pinned' = pinned
  BY <1>1, <1>2 DEF Collect, LiveInv
<1>4. \A o \in Object : /\ queue[o] \in {0, 1} /\ pending[o] \in {0, 1}
                        /\ pending[o] > 0 => o \in Reachable
  BY <1>1, <1>2, ObjectAssumption DEF TypeOK, EntriesOnce, Traced, Queued
<1>5. \A o \in Object : /\ queue'[o] = IF o \in suppressed \cup Due THEN 0 ELSE queue[o]
                        /\ pending'[o] = IF o \in Due THEN pending[o] + queue[o] ELSE pending[o]
  BY <1>4 DEF Collect, QueueLeft
<1>6. \A o \in Object : /\ queue'[o] \in {0, 1} /\ pending'[o] \in {0, 1}
                        /\ queue'[o] > 0 => o \in Reachable
                        /\ pending'[o] > 0 => o \in Survivors
  BY <1>1, <1>4, <1>5 DEF Due, Queued
<1>7. EntriesOnce'
  BY <1>6 DEF EntriesOnce
<1>8. LiveInv'
  <2>1. Kept' \subseteq Survivors
    <3>1. Held' \cup pinned' \subseteq Survivors
      BY <1>1, <1>2, <1>3, ObjectAssumption DEF Held, Traced, TypeOK
    <3>2. Queued(queue)' \subseteq Survivors /\ Queued(pending)' \subseteq Survivors
      BY <1>1, <1>6 DEF Queued
    <3> QED BY <3>1, <3>2 DEF Kept
  <2>2. \A h \in 1..MaxHandles : /\ gchandles'[h].target \in Survivors \cup {Null}
                                 /\ gchandles'[h].kind = "free" => gchandles'[h].target = Null
    BY <1>2, Zeroing, UnclearedSurvives DEF LiveInv
  <2>3. \A o \in Survivors : field'[o] \in Survivors \cup {Null}
    BY <1>1, <1>2 DEF Collect, TypeOK
  <2> QED BY <1>1, <1>2, <1>3, <2>1, <2>2, <2>3 DEF LiveInv
<1>9. TypeOK'
  <2>1. queue' \in [Object -> Nat] /\ pending' \in [Object -> Nat]
    BY <1>6 DEF Collect, QueueLeft
  <2>2. gchandles' \in [1..MaxHandles -> Entries]
    BY Zeroing DEF Collect
  <2>3. field' \in [Object -> Maybe] /\ suppressed' \subseteq Object
    BY <1>2 DEF Collect, TypeOK, Maybe
  <2>4. collections' \in 0..MaxCollections
    BY <1>2, BoundAssumption DEF Collect, TypeOK
  <2> QED BY <1>1, <1>2, <1>3, <2>1, <2>2, <2>3, <2>4 DEF TypeOK, Entries
<1> QED BY <1>7, <1>8, <1>9 DEF IInv

(* The steps of the program and of the loop that move references only. *)
LEMMA ProgramIInv ==
    ASSUME IInv, Next, ~(CheckAndSafePoint /\ collections' # collections)
    PROVE  IInv'
<1>1. TypeOK /\ LiveInv /\ EntriesOnce
  BY DEF IInv
<1>2. /\ Held \subseteq allocated /\ pinned \subseteq allocated
      /\ Queued(queue) \subseteq allocated /\ Queued(pending) \subseteq allocated
      /\ allocated \subseteq Object /\ Null \notin Object
  BY <1>1, ObjectAssumption DEF LiveInv, Kept, TypeOK
<1>3. \A o \in Object : queue[o] \in {0, 1} /\ pending[o] \in {0, 1}
  BY <1>1 DEF TypeOK, EntriesOnce
<1>4. ASSUME UNCHANGED <<allocated, freed, registry, field, queue, gchandles>>,
             pinned' = pinned, pending' = pending, Held' \subseteq allocated, TypeOK'
      PROVE  IInv'
  <2>1. Kept' \subseteq allocated
    BY <1>2, <1>4 DEF Kept, Queued
  <2> QED BY <1>1, <1>4, <2>1 DEF IInv, LiveInv, EntriesOnce
<1>5. CASE CheckAndSafePoint
  <2>1. UNCHANGED <<program, finalizers, handles, arena, collections, waiting>> /\ at' = "finalizers" /\ needsFull' = FALSE
    <3>1. ~Collect
      BY <1>1, <1>5 DEF Collect, TypeOK
    <3> QED BY <1>5, <3>1 DEF CheckAndSafePoint
  <2>2. TypeOK' /\ Held' \subseteq allocated
    BY Zenon, <1>1, <1>2, <2>1 DEF TypeOK, program, finalizers, handles, arena, Held
  <2> QED BY <1>4, <2>1, <2>2 DEF program, finalizers, handles, arena
<1>6. CASE Yield \/ GCCollect \/ WaitForPendingFinalizers
  <2>1. /\ UNCHANGED <<program, finalizers, handles, arena, collections>>
        /\ at' \in {"check", "run"} /\ needsFull' \in BOOLEAN /\ waiting' \in BOOLEAN
    BY Zenon, <1>1, <1>6 DEF Yield, GCCollect, WaitForPendingFinalizers, TypeOK
  <2>2. TypeOK' /\ Held' \subseteq allocated
    BY <1>1, <1>2, <2>1 DEF TypeOK, program, finalizers, handles, arena, Held
  <2> QED BY <1>4, <2>1, <2>2 DEF program, finalizers, handles, arena
<1>7. ASSUME UNCHANGED <<field, suppressed, queue, pending, handles, arena, loop>>,
             roots' \subseteq allocated, finalizing' \in {finalizing, Null}
      PROVE  IInv'
  <2>1. finalizing \in allocated \cup {Null}
    BY <1>1, <1>2 DEF TypeOK, Held
  <2>2. Held' \subseteq allocated
    BY <1>7, <2>1 DEF Held
  <2>3. TypeOK'
    BY <1>1, <1>2, <1>7 DEF TypeOK, handles, arena, loop, Maybe
  <2> QED BY <1>4, <1>7, <2>2, <2>3 DEF handles, arena
<1>8. ASSUME NEW v \in allocated \cup {Null}, Hold(v) PROVE IInv'
  BY <1>2, <1>7, <1>8 DEF Hold, finalizers, Held
<1>9. CASE \E o \in Object : Load(o) \/ Release(o)
  <2>1. PICK o \in Object : Load(o) \/ Release(o)
    BY <1>9
  <2>2. CASE Load(o)
    <3>1. field[o] \in allocated \cup {Null}
      BY <1>1, <1>2, <2>2 DEF Load, LiveInv
    <3> QED BY <1>8, <2>2, <3>1 DEF Load
  <2>3. CASE Release(o)
    BY <1>2, <1>7, <2>3 DEF Release, finalizers, Held
  <2> QED BY <2>1, <2>2, <2>3
<1>10. CASE FinalizerReturns
  BY <1>2, <1>7, <1>10 DEF FinalizerReturns, program, Held
<1>11. CASE \E h \in 1..MaxHandles : HandleGet(h)
  BY <1>1, <1>8, <1>11 DEF HandleGet, LiveInv
<1>12. CASE \E o \in Object : SuppressFinalize(o)
  <2>1. /\ UNCHANGED <<roots, field, finalizers, handles, arena, loop>> /\ suppressed' \subseteq Object
    BY <1>1, <1>12 DEF SuppressFinalize, TypeOK
  <2>2. TypeOK' /\ Held' \subseteq allocated
    BY <1>1, <1>2, <2>1 DEF TypeOK, finalizers, handles, arena, loop, Held
  <2> QED BY <1>4, <2>1, <2>2 DEF finalizers, handles, arena
<1>13. CASE ProcessPendingFinalizers
  <2>1. UNCHANGED <<program, queue, handles, arena, needsFull, waiting, collections>> /\ at' = "run"
    BY <1>13 DEF ProcessPendingFinalizers
  <2>2. \/ UNCHANGED <<pending, finalizing>>
        \/ \E o \in Queued(pending) : pending' = [pending EXCEPT ![o] = @ - 1] /\ finalizing' = o
    BY <1>13 DEF ProcessPendingFinalizers
  <2>3. /\ pending' \in [Object -> Nat] /\ finalizing' \in allocated \cup {Null}
        /\ \A o \in Object : pending'[o] \in {0, 1} /\ (pending'[o] > 0 => pending[o] > 0)
    <3>1. CASE UNCHANGED <<pending, finalizing>>
      BY <1>1, <1>2, <1>3, <3>1 DEF TypeOK, Held
    <3>2. ASSUME NEW o \in Queued(pending), pending' = [pending EXCEPT ![o] = @ - 1], finalizing' = o
          PROVE  /\ pending' \in [Object -> Nat] /\ finalizing' \in allocated \cup {Null}
                 /\ \A p \in Object : pending'[p] \in {0, 1} /\ (pending'[p] > 0 => pending[p] > 0)
      <4>1. o \in Object /\ pending[o] = 1 /\ o \in allocated
        BY <1>2, <1>3 DEF Queued
      <4>2. \A p \in Object : pending'[p] = IF p = o THEN 0 ELSE pending[p]
        BY <1>1, <3>2, <4>1 DEF TypeOK
      <4>3. pending' \in [Object -> Nat]
        BY <1>1, <3>2, <4>1 DEF TypeOK
      <4> QED BY <1>3, <3>2, <4>1, <4>2, <4>3
    <3> QED BY <2>2, <3>1, <3>2
  <2>4. TypeOK'
    BY <1>1, <1>2, <2>1, <2>3 DEF TypeOK, program, handles, arena, Maybe
  <2>5. Kept' \subseteq allocated
    BY <1>2, <2>1, <2>3 DEF Kept, Held, Queued, program, handles
  <2>6. EntriesOnce'
    BY <1>3, <2>1, <2>3 DEF EntriesOnce
  <2> QED BY <1>1, <2>1, <2>4, <2>5, <2>6 DEF IInv, LiveInv, program, handles, arena
<1>14. CASE \E o \in Object : \E v \in Maybe : New(o, v)
  <2>1. PICK o \in Object : \E v \in Maybe : New(o, v)
    BY <1>14
  <2>2. PICK v \in Maybe : New(o, v)
    BY <2>1
  <2>3. /\ UNCHANGED <<suppressed, pending, finalizing, handles, freed, loop>>
        /\ allocated' = allocated \cup {o} /\ registry' = registry \cup {o} /\ roots' = roots \cup {o}
        /\ o \notin allocated \cup freed /\ v \in allocated \cup {Null}
    BY <1>2, <2>2 DEF New
  <2>4. \A p \in Object : field'[p] = IF p = o THEN v ELSE field[p]
    BY <1>1, <2>2 DEF New, TypeOK
  <2>5. queue[o] = 0
    BY <1>2, <1>3, <2>3 DEF Queued
  <2>6. /\ queue' \in [Object -> Nat]
        /\ \A p \in Object : queue'[p] \in {0, 1} /\ (queue'[p] > 0 => queue[p] > 0 \/ p = o)
    BY <1>1, <1>3, <2>2, <2>5 DEF New, TypeOK
  <2>7. TypeOK'
    <3>1. field' \in [Object -> Maybe]
      BY <1>1, <2>2 DEF New, TypeOK
    <3> QED BY <1>1, <2>3, <2>6, <3>1 DEF TypeOK, handles, loop
  <2>8. Kept' \subseteq allocated'
    BY <1>2, <2>3, <2>6 DEF Kept, Held, Queued, handles
  <2>9. EntriesOnce'
    BY <1>3, <2>3, <2>6 DEF EntriesOnce
  <2>10. \A p \in allocated' : field'[p] \in allocated' \cup {Null}
    BY <1>1, <1>2, <2>3, <2>4 DEF LiveInv
  <2> QED BY <1>1, <2>3, <2>7, <2>8, <2>9, <2>10 DEF IInv, LiveInv, handles
<1>15. CASE \E o \in Object : ReRegisterForFinalize(o)
  <2>1. PICK o \in Object : ReRegisterForFinalize(o)
    BY <1>15
  <2>2. /\ UNCHANGED <<roots, field, pending, finalizing, handles, arena, loop>>
        /\ o \in allocated /\ suppressed' \subseteq Object
    BY <1>1, <1>2, <2>1 DEF ReRegisterForFinalize, TypeOK
  <2>3. /\ queue' \in [Object -> Nat]
        /\ \A p \in Object : queue'[p] \in {0, 1} /\ (queue'[p] > 0 => queue[p] > 0 \/ p = o)
    BY <1>1, <1>3, <2>1 DEF ReRegisterForFinalize, TypeOK
  <2>4. TypeOK'
    BY <1>1, <2>2, <2>3 DEF TypeOK, handles, arena, loop
  <2>5. Kept' \subseteq allocated
    BY <1>2, <2>2, <2>3 DEF Kept, Held, Queued, handles
  <2>6. EntriesOnce'
    BY <1>3, <2>2, <2>3 DEF EntriesOnce
  <2> QED BY <1>1, <2>2, <2>4, <2>5, <2>6 DEF IInv, LiveInv, handles, arena
<1>16. ASSUME UNCHANGED <<program, finalizers, arena, loop>>, pinned' \subseteq allocated,
              NEW h \in 1..MaxHandles, NEW e \in Entries, gchandles' = [gchandles EXCEPT ![h] = e],
              e.target \in allocated \cup {Null}, e.kind = "free" => e.target = Null
       PROVE  IInv'
  <2>1. gchandles \in [1..MaxHandles -> Entries]
    BY <1>1 DEF TypeOK, Entries
  <2>2. gchandles' \in [1..MaxHandles -> Entries] /\ \A i \in 1..MaxHandles : gchandles'[i] = IF i = h THEN e ELSE gchandles[i]
    BY <1>16, <2>1
  <2>3. TypeOK'
    BY <1>1, <1>2, <1>16, <2>2 DEF TypeOK, Entries, program, finalizers, arena, loop
  <2>4. Kept' \subseteq allocated
    BY <1>2, <1>16 DEF Kept, Held, Queued, program, finalizers
  <2>5. /\ \A i \in 1..MaxHandles : gchandles'[i].target \in allocated \cup {Null}
        /\ \A i \in 1..MaxHandles : gchandles'[i].kind = "free" => gchandles'[i].target = Null
    BY <1>1, <1>16, <2>2 DEF LiveInv
  <2> QED BY <1>1, <1>16, <2>3, <2>4, <2>5 DEF IInv, LiveInv, EntriesOnce, program, finalizers, arena
<1>17. CASE \E o \in Object, kind \in Kinds : HandleAlloc(o, kind)
  <2>1. PICK o \in Object, kind \in Kinds : HandleAlloc(o, kind)
    BY <1>17
  <2> DEFINE empty == {h \in 1..MaxHandles : gchandles[h] = Free}
  <2>2. First(empty) \in 1..MaxHandles
    BY <2>1, FirstIsOne DEF HandleAlloc
  <2>3. /\ UNCHANGED <<program, finalizers, arena, loop>> /\ o \in allocated /\ pinned' \subseteq allocated
        /\ gchandles' = [gchandles EXCEPT ![First(empty)] = [target |-> o, kind |-> kind]]
    BY <1>2, <2>1 DEF HandleAlloc
  <2>4. [target |-> o, kind |-> kind] \in Entries /\ kind # "free"
    BY KindAssumption DEF Entries, Maybe
  <2> HIDE DEF empty
  <2> QED BY Zenon, <1>16, <2>2, <2>3, <2>4
<1>18. CASE \E h \in 1..MaxHandles : HandleFree(h)
  <2>1. PICK h \in 1..MaxHandles : HandleFree(h)
    BY <1>18
  <2>2. /\ UNCHANGED <<program, finalizers, arena, loop>> /\ pinned' \subseteq allocated
        /\ gchandles' = [gchandles EXCEPT ![h] = Free]
    BY <1>2, <2>1 DEF HandleFree
  <2>3. Free \in Entries /\ Free.target = Null
    BY DEF Free, Entries, Maybe
  <2> QED BY Zenon, <1>16, <2>2, <2>3
<1>19. CASE \E h \in 1..MaxHandles, v \in Maybe : HandleSet(h, v)
  <2>1. PICK h \in 1..MaxHandles, v \in Maybe : HandleSet(h, v)
    BY <1>19
  <2>2. v \in allocated \cup {Null}
    BY <1>2, <2>1 DEF HandleSet
  <2>3. /\ UNCHANGED <<program, finalizers, arena, loop>> /\ pinned' \subseteq allocated
        /\ gchandles' = [gchandles EXCEPT ![h].target = v] /\ gchandles[h] # Free
    BY <1>2, <2>1, <2>2 DEF HandleSet
  <2>4. gchandles \in [1..MaxHandles -> Entries] /\ gchandles[h] \in Entries
    BY SMTT(30), <1>1 DEF TypeOK, Entries
  <2>5. gchandles[h].kind = "free" => gchandles[h] = Free
    BY <1>1, <2>4 DEF LiveInv, Free, Entries
  <2> DEFINE e == [target |-> v, kind |-> gchandles[h].kind]
  <2>6. e \in Entries /\ e.target = v /\ e.kind # "free"
    BY <2>3, <2>4, <2>5 DEF Entries
  <2>7. gchandles' = [gchandles EXCEPT ![h] = e]
    <3>1. [gchandles[h] EXCEPT !.target = v] = e
      BY <2>4 DEF Entries
    <3>2. gchandles' = [gchandles EXCEPT ![h] = [gchandles[h] EXCEPT !.target = v]]
      BY <2>3
    <3> QED BY Zenon, <3>1, <3>2
  <2> HIDE DEF e
  <2> QED BY Zenon, <1>16, <2>2, <2>3, <2>6, <2>7
<1> QED
  BY <1>5, <1>6, <1>9, <1>10, <1>11, <1>12, <1>13, <1>14, <1>15, <1>17, <1>18, <1>19 DEF Next, Loop, Program

(* Every step keeps the invariant. *)
LEMMA StepIInv == IInv /\ [Next]_vars => IInv'
<1>1. ASSUME IInv, Next PROVE IInv'
  <2>1. CASE CheckAndSafePoint /\ collections' # collections
    <3>1. /\ Collect /\ collections < MaxCollections
          /\ at' = "finalizers" /\ needsFull' = FALSE /\ waiting' = waiting
      BY <2>1 DEF CheckAndSafePoint
    <3>2. waiting' \in BOOLEAN
      BY <1>1, <3>1 DEF IInv, TypeOK
    <3> QED BY Zenon, <1>1, <3>1, <3>2, CollectIInv
  <2>2. CASE ~(CheckAndSafePoint /\ collections' # collections)
    BY <1>1, <2>2, ProgramIInv
  <2> QED BY <2>1, <2>2
<1>2. ASSUME IInv, UNCHANGED vars PROVE IInv'
  BY <1>2 DEF IInv, TypeOK, LiveInv, EntriesOnce, Kept, Held, Queued,
              vars, program, finalizers, handles, arena, loop
<1> QED BY <1>1, <1>2

-----------------------------------------------------------------------------
(* What holds of every behaviour *)

(* The reference tables of HeapManager (pinned_objects, the two finalization queues, the
   handle table), the program's references and the fields of live objects never lead to
   a swept object, object_registry knows exactly the allocated ones, and an object has
   at most one entry in each queue. *)
THEOREM TablesAreSound == Spec => []TablesSound
<1>1. IInv => TablesSound
  <2> SUFFICES ASSUME IInv PROVE TablesSound
    OBVIOUS
  <2>1. HandleTargets(Kinds) \subseteq allocated \cup {Null}
    BY DEF IInv, LiveInv, HandleTargets
  <2>2. Null \notin freed
    BY ObjectAssumption DEF IInv, TypeOK
  <2>3. NothingDangles
    BY <2>1, <2>2 DEF IInv, LiveInv, Kept, NothingDangles
  <2> QED BY <2>3 DEF IInv, TablesSound
<1> QED BY <1>1, InitIInv, StepIInv, PTL DEF Spec

(* zero_out_handles clears the handles of the objects that die and no others: a Weak one
   when only finalization still reaches its object, a WeakTrackResurrection one when the
   object is swept. *)
THEOREM HandlesAreClearedOnDeath == Spec => HandlesClearedOnDeath
<1> DEFINE Cleared ==
        collections' # collections =>
            \A h \in 1..MaxHandles :
                LET old == gchandles[h] IN
                gchandles'[h].target =
                    CASE old.kind = "Weak" /\ old.target \notin Reachable -> Null
                      [] old.kind = "WeakTrackResurrection" /\ old.target \in freed' -> Null
                      [] OTHER -> old.target
<1>1. IInv /\ [Next]_vars => [Cleared]_vars
  <2> SUFFICES ASSUME IInv, Next, collections' # collections, NEW h \in 1..MaxHandles
               PROVE  gchandles'[h].target =
                        CASE gchandles[h].kind = "Weak" /\ gchandles[h].target \notin Reachable -> Null
                          [] gchandles[h].kind = "WeakTrackResurrection" /\ gchandles[h].target \in freed' -> Null
                          [] OTHER -> gchandles[h].target
    OBVIOUS
  <2>1. Collect
    BY Zenon DEF Next, Loop, Program, CheckAndSafePoint, ProcessPendingFinalizers, Yield, New, Load, Hold, Release,
           FinalizerReturns, SuppressFinalize, ReRegisterForFinalize, GCCollect, WaitForPendingFinalizers,
           HandleAlloc, HandleFree, HandleGet, HandleSet, loop
  <2>2. gchandles'[h].target = IF Zeroed(gchandles[h]) THEN Null ELSE gchandles[h].target
    BY <2>1, Zeroing
  <2>3. gchandles[h].target \in allocated \cup {Null} /\ allocated \cap freed = {} /\ Null \notin allocated \cup freed
    BY ObjectAssumption DEF IInv, TypeOK, LiveInv
  <2>4. freed' = freed \cup (allocated \ Survivors) /\ Survivors \subseteq allocated
    BY <2>1, SurvivorsFacts DEF Collect
  <2>5. gchandles[h].target # Null => (gchandles[h].target \in freed' <=> gchandles[h].target \notin Survivors)
    BY <2>3, <2>4
  <2> QED BY <2>2, <2>3, <2>4, <2>5 DEF Zeroed
<1>2. Spec => [][Cleared]_vars
  BY <1>1, InitIInv, StepIInv, PTL DEF Spec
<1> QED BY <1>2 DEF HandlesClearedOnDeath
=============================================================================
