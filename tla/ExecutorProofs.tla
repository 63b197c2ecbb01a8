--------------------------- MODULE ExecutorProofs ---------------------------
(* Proofs about what the executor runs: a collection over all arenas
   (CrossArenaGC), and the batches of instructions between two safe points
   (Interpreter). *)
EXTENDS Interpreter, CrossArenaGC, TLAPS

-----------------------------------------------------------------------------
(***************************************************************************)
(* For every heap, every assignment of objects to arenas and every order   *)
(* in which the arenas answer: marking is complete when finalization       *)
(* starts, no sweep frees an object a root or a pending finalizer reaches, *)
(* and everything else of the participating arenas is freed.               *)
(*                                                                         *)
(* The argument: during marking, a reference out of a marked object leads  *)
(* to a marked object, to a recorded reference, or to one that its owner   *)
(* has been sent and has not yet installed (EdgeInv).  A round with        *)
(* nothing recorded and nothing outstanding therefore leaves the marked    *)
(* set closed.                                                             *)
(***************************************************************************)

(* A closure contains what it starts from. *)
LEMMA ClosureContains ==
    ASSUME NEW r \in [Objects -> SUBSET Objects], NEW S \in SUBSET Objects,
           NEW T \in SUBSET Objects
    PROVE  S \subseteq Closure(r, S, T) /\ Closure(r, S, T) \subseteq Objects
  BY DEF Closure

(* A closure is closed under the references inside T. *)
LEMMA ClosureClosed ==
    ASSUME NEW r \in [Objects -> SUBSET Objects], NEW S \in SUBSET Objects,
           NEW T \in SUBSET Objects
    PROVE  \A o \in Closure(r, S, T) \cap T : r[o] \cap T \subseteq Closure(r, S, T)
  BY DEF Closure

(* A closure is contained in every closed set that contains its start. *)
LEMMA ClosureLeast ==
    ASSUME NEW r \in [Objects -> SUBSET Objects], NEW S \in SUBSET Objects,
           NEW T \in SUBSET Objects, NEW C \in SUBSET Objects,
           S \subseteq C, \A p \in C \cap T : r[p] \cap T \subseteq C
    PROVE  Closure(r, S, T) \subseteq C
  BY DEF Closure

(* A closure that starts inside T stays inside T. *)
LEMMA ClosureInside ==
    ASSUME NEW r \in [Objects -> SUBSET Objects], NEW S \in SUBSET Objects,
           NEW T \in SUBSET Objects, S \subseteq T
    PROVE  Closure(r, S, T) \subseteq T
  BY ClosureLeast

(* A closure grows with its start and with the references it may follow. *)
LEMMA ClosureMonotone ==
    ASSUME NEW r \in [Objects -> SUBSET Objects],
           NEW S \in SUBSET Objects, NEW S2 \in SUBSET Objects, S \subseteq S2,
           NEW T \in SUBSET Objects, NEW T2 \in SUBSET Objects, T \subseteq T2
    PROVE  Closure(r, S, T) \subseteq Closure(r, S2, T2)
<1>1. \A p \in Closure(r, S2, T2) \cap T : r[p] \cap T \subseteq Closure(r, S2, T2)
  BY ClosureClosed
<1>2. S \subseteq Closure(r, S2, T2) /\ Closure(r, S2, T2) \in SUBSET Objects
  BY ClosureContains
<1> QED BY <1>1, <1>2, ClosureLeast

(* The closure of a union adds nothing to the union of the closures. *)
LEMMA ClosureUnion ==
    ASSUME NEW r \in [Objects -> SUBSET Objects],
           NEW S \in SUBSET Objects, NEW S2 \in SUBSET Objects, NEW T \in SUBSET Objects
    PROVE  Closure(r, S \cup S2, T) \subseteq Closure(r, S, T) \cup Closure(r, S2, T)
<1> DEFINE C == Closure(r, S, T) \cup Closure(r, S2, T)
<1>1. C \in SUBSET Objects /\ S \cup S2 \subseteq C
  BY ClosureContains
<1>2. \A p \in C \cap T : r[p] \cap T \subseteq C
  BY ClosureClosed
<1> HIDE DEF C
<1>3. Closure(r, S \cup S2, T) \subseteq C
  BY <1>1, <1>2, ClosureLeast
<1> QED BY Zenon, <1>3 DEF C

-----------------------------------------------------------------------------
(* The inductive invariant *)

(* Sent to its owner, which has not yet installed it. *)
Outstanding(o) == phase = "MarkObjects" /\ o \in objs /\ Owner[o] \in todo

(* Seen by the marking so far: marked, or on its way to being marked. *)
Noticed(o) == o \in marked \/ o \in found \/ Outstanding(o)

Marking == phase \in {"MarkAll", "MarkObjects"}

(* Only references into participating arenas are recorded and sent. *)
SentInv ==
    /\ found \subseteq Present /\ objs \subseteq Present
    /\ phase = "MarkAll" => dispatched = {}
    /\ \A o \in dispatched : o \in marked \/ Outstanding(o)

(* The roots of an arena that has answered MarkAll have been noticed. *)
RootInv ==
    \A a \in registered : phase # "MarkAll" \/ a \notin todo =>
        \A o \in roots[a] \cap Present : Noticed(o)

(* What a marked object references has been noticed. *)
EdgeInv == \A o \in marked \cap Present : \A p \in refs[o] \cap Present : Noticed(p)

(* After marking nothing is on its way. *)
FixedPointInv == ~Marking => found = {}

(* Sweeping frees unmarked objects only, and nothing is freed before it. *)
FreedInv == freed \cap marked = {} /\ (phase \notin {"Sweep", "Done"} => freed = {})

(* What a pending finalizer reaches is marked; there is none before Finalize. *)
PendingInv == Closure(refs, pending, Objects) \subseteq marked /\ (Marking => pending = {})

(* The marking follows nothing but what is reachable. *)
PreciseInv ==
    /\ marked \subseteq RootReach \cup Closure(refs, pending, Objects)
    /\ found \cup objs \subseteq RootReach
    /\ \A a \in registered : phase # "MarkAll" \/ a \notin todo =>
         crossRoots \cap Local(a) \subseteq RootReach

(* An arena that has swept has freed all its unmarked objects. *)
SweptInv ==
    \A a \in registered : phase = "Done" \/ (phase = "Sweep" /\ a \notin todo) =>
        Local(a) \ marked \subseteq freed

CollectionInv ==
    /\ TypeOK /\ SentInv /\ RootInv /\ EdgeInv /\ FixedPointInv /\ FreedInv
    /\ PendingInv /\ PreciseInv /\ SweptInv

-----------------------------------------------------------------------------

USE OwnerAssumption

(* The set of what the roots reach is closed. *)
LEMMA RootReachClosed ==
    ASSUME TypeOK
    PROVE  /\ RootReach \in SUBSET Objects
           /\ \A a \in registered : roots[a] \cap Present \subseteq RootReach
           /\ \A o \in RootReach \cap Present : refs[o] \cap Present \subseteq RootReach
<1> DEFINE S == (UNION {roots[a] : a \in registered}) \cap Present
<1>1. S \in SUBSET Objects /\ Present \in SUBSET Objects /\ refs \in [Objects -> SUBSET Objects]
  BY DEF TypeOK, Present
<1>2. S \subseteq RootReach /\ RootReach \subseteq Objects
  BY <1>1, ClosureContains DEF RootReach
<1>3. \A o \in RootReach \cap Present : refs[o] \cap Present \subseteq RootReach
  BY Zenon, <1>1, ClosureClosed DEF RootReach
<1>4. \A a \in registered : roots[a] \cap Present \subseteq S
  OBVIOUS
<1> HIDE DEF S
<1> QED BY <1>2, <1>3, <1>4

(* What tracing one arena adds. *)
LEMMA TraceAdds ==
    ASSUME TypeOK, NEW a \in registered, NEW extra \in SUBSET Local(a), Trace(a, extra)
    PROVE  /\ marked \subseteq marked' /\ marked' \subseteq marked \cup Local(a)
           /\ extra \subseteq marked'
           /\ found \subseteq found' /\ found' \subseteq found \cup Present
           /\ roots[a] \cap Present \subseteq marked' \cup found'
           /\ \A o \in marked' \ marked : refs[o] \cap Present \subseteq marked' \cup found'
           /\ marked' \in SUBSET Objects /\ found' \in SUBSET Objects
<1> DEFINE own == Local(a)
           start == (roots[a] \cap own) \cup extra
           reach == Closure(refs, start, own)
           foreign == (roots[a] \cup UNION {refs[o] : o \in reach \ marked}) \ own
<1>1. refs \in [Objects -> SUBSET Objects] /\ start \in SUBSET Objects /\ own \in SUBSET Objects
      /\ start \subseteq own
  BY DEF TypeOK, Local
<1>2. start \subseteq reach /\ reach \subseteq own
  BY <1>1, ClosureContains, ClosureInside
<1>3. \A o \in reach \cap own : refs[o] \cap own \subseteq reach
  BY <1>1, ClosureClosed
<1>4. marked' = marked \cup reach /\ found' = found \cup {o \in foreign : Owner[o] \in registered}
  BY DEF Trace
<1> HIDE DEF reach
<1>5. foreign \in SUBSET Objects
  <2>1. \A o \in reach : refs[o] \in SUBSET Objects
    BY <1>1, <1>2
  <2>2. roots[a] \in SUBSET Objects
    BY DEF TypeOK
  <2> QED BY <2>1, <2>2
<1>6. \A o \in marked' \ marked : refs[o] \cap Present \subseteq marked' \cup found'
  BY <1>1, <1>2, <1>3, <1>4 DEF Present, TypeOK
<1>7. roots[a] \cap Present \subseteq marked' \cup found'
  BY <1>1, <1>2, <1>4 DEF Present, TypeOK
<1>8. found' \subseteq found \cup Present
  BY <1>4, <1>5 DEF Present
<1> QED BY <1>1, <1>2, <1>4, <1>5, <1>6, <1>7, <1>8 DEF TypeOK

(* Tracing an arena adds nothing that the roots do not reach. *)
LEMMA TraceIsPrecise ==
    ASSUME TypeOK, NEW a \in registered, NEW extra \in SUBSET Local(a), Trace(a, extra),
           extra \subseteq RootReach, found \subseteq RootReach
    PROVE  marked' \subseteq marked \cup RootReach /\ found' \subseteq RootReach
<1> DEFINE own == Local(a)
           start == (roots[a] \cap own) \cup extra
           reach == Closure(refs, start, own)
           foreign == (roots[a] \cup UNION {refs[o] : o \in reach \ marked}) \ own
<1>1. refs \in [Objects -> SUBSET Objects] /\ start \in SUBSET Objects /\ own \in SUBSET Objects
      /\ start \subseteq own /\ own \subseteq Present
  BY DEF TypeOK, Local, Present
<1>2. start \subseteq RootReach /\ RootReach \in SUBSET Objects
  BY <1>1, RootReachClosed
<1>3. \A o \in RootReach \cap own : refs[o] \cap own \subseteq RootReach
  BY <1>1, RootReachClosed
<1>4. reach \subseteq RootReach
  BY <1>1, <1>2, <1>3, ClosureLeast
<1>5. reach \subseteq own
  BY <1>1, ClosureInside
<1>6. marked' = marked \cup reach /\ found' = found \cup {o \in foreign : Owner[o] \in registered}
  BY DEF Trace
<1> HIDE DEF reach
<1>7. {o \in foreign : Owner[o] \in registered} \subseteq RootReach
  <2> SUFFICES ASSUME NEW p \in foreign, Owner[p] \in registered PROVE p \in RootReach
    OBVIOUS
  <2>1. p \in Objects /\ p \in Present
    BY <1>1, <1>5 DEF TypeOK, Present
  <2>2. CASE p \in roots[a]
    BY <2>1, <2>2, RootReachClosed
  <2>3. CASE \E o \in reach : p \in refs[o]
    BY <2>1, <2>3, <1>1, <1>4, <1>5, RootReachClosed
  <2> QED BY <2>2, <2>3
<1> QED BY <1>4, <1>6, <1>7

-----------------------------------------------------------------------------
(* Each step preserves the invariant *)

(* No heap is marked, recorded or freed when a collection starts. *)
LEMMA InitInv == Init => CollectionInv
<1> SUFFICES ASSUME Init PROVE CollectionInv
  OBVIOUS
<1>1. TypeOK
  BY DEF Init, TypeOK, SmallSubsets
<1>2. Closure(refs, {}, Objects) \subseteq {}
  <2>1. refs \in [Objects -> SUBSET Objects]
    BY <1>1 DEF TypeOK
  <2> QED BY ONLY <2>1, ClosureLeast
<1> QED
  BY <1>1, <1>2 DEF Init, CollectionInv, SentInv, RootInv, EdgeInv, FixedPointInv, FreedInv, PendingInv,
     PreciseInv, SweptInv, Marking, Noticed

(* An arena that traces notices its own roots and the references of what it marks. *)
LEMMA TracePreserves ==
    ASSUME CollectionInv, NEW a \in todo, NEW extra \in SUBSET Local(a), Trace(a, extra),
           Marking, todo' = todo \ {a}, extra \subseteq RootReach,
           phase = "MarkObjects" => objs \cap Local(a) \subseteq extra,
           crossRoots' \in SUBSET Objects,
           \A b \in registered \ {a} : crossRoots' \cap Local(b) = crossRoots \cap Local(b),
           crossRoots' \cap Local(a) \subseteq RootReach,
           UNCHANGED <<heap, queue, pending, phase, objs, dispatched, freed>>
    PROVE  CollectionInv'
<1>1. TypeOK /\ a \in registered
  BY DEF CollectionInv, TypeOK
<1> DEFINE Added == /\ marked \subseteq marked' /\ marked' \subseteq marked \cup Local(a)
                    /\ extra \subseteq marked'
                    /\ found \subseteq found' /\ found' \subseteq found \cup Present
                    /\ roots[a] \cap Present \subseteq marked' \cup found'
                    /\ \A o \in marked' \ marked :
                         refs[o] \cap Present \subseteq marked' \cup found'
                    /\ marked' \in SUBSET Objects /\ found' \in SUBSET Objects
<1>2. Added
  BY <1>1, TraceAdds
<1>3. Present' = Present /\ RootReach' = RootReach /\ phase' = phase
  BY DEF Present, RootReach, heap
<1>4. \A o \in Objects : Noticed(o) => Noticed(o)'
  BY <1>2 DEF Noticed, Outstanding, Local
<1>5. TypeOK'
  BY <1>1, <1>2 DEF TypeOK, heap
<1>6. SentInv'
  BY <1>1, <1>2, <1>3 DEF CollectionInv, SentInv, Outstanding, Local, Present, TypeOK, heap
<1>7. RootInv'
  <2> SUFFICES ASSUME NEW b \in registered, phase # "MarkAll" \/ b \notin todo \ {a},
                      NEW o \in roots[b], o \in Present
               PROVE  Noticed(o)'
    BY <1>3 DEF RootInv, heap
  <2>1. CASE b = a
    BY <2>1, <1>2 DEF Noticed
  <2>2. CASE b # a
    BY <2>2, <1>4 DEF CollectionInv, RootInv, Present
  <2> QED BY <2>1, <2>2
<1>8. EdgeInv'
  <2> SUFFICES ASSUME NEW o \in marked', o \in Present, NEW p \in refs[o], p \in Present
               PROVE  Noticed(p)'
    BY <1>3 DEF EdgeInv, heap
  <2>1. CASE o \in marked
    BY <2>1, <1>4 DEF CollectionInv, EdgeInv, Present
  <2>2. CASE o \notin marked
    BY <2>2, <1>2 DEF Noticed
  <2> QED BY <2>1, <2>2
<1>9. FixedPointInv' /\ FreedInv' /\ SweptInv'
  BY <1>2, <1>3 DEF CollectionInv, FixedPointInv, FreedInv, SweptInv, Marking
<1>10. PendingInv'
  <2>1. Closure(refs', pending', Objects) = Closure(refs, pending, Objects)
    BY DEF heap
  <2> QED BY <2>1, <1>2, <1>3 DEF CollectionInv, PendingInv, Marking
<1>11. PreciseInv'
  <2>1. marked' \subseteq marked \cup RootReach /\ found' \subseteq RootReach
    BY <1>1, TraceIsPrecise DEF CollectionInv, PreciseInv
  <2>2. Closure(refs', pending', Objects) = Closure(refs, pending, Objects)
    BY DEF heap
  <2> QED BY <2>1, <2>2, <1>3 DEF CollectionInv, PreciseInv, heap
<1> QED BY <1>5, <1>6, <1>7, <1>8, <1>9, <1>10, <1>11 DEF CollectionInv

(* MarkAll notices the roots of the arena that answers it. *)
LEMMA MarkAllPreserves ==
    ASSUME CollectionInv, NEW a \in Arenas, MarkAll(a) PROVE CollectionInv'
<1>1. a \in todo /\ {} \in SUBSET Local(a) /\ Trace(a, {}) /\ Marking /\ todo' = todo \ {a}
      /\ phase # "MarkObjects"
      /\ UNCHANGED <<heap, queue, pending, phase, objs, dispatched, freed>>
  BY DEF MarkAll, Marking
<1>2. crossRoots' = crossRoots \ Local(a)
  BY DEF MarkAll
<1>3. \A b \in registered \ {a} : crossRoots' \cap Local(b) = crossRoots \cap Local(b)
  BY <1>2 DEF Local
<1>4. crossRoots' \cap Local(a) \subseteq RootReach /\ crossRoots' \in SUBSET Objects
  BY <1>2 DEF CollectionInv, TypeOK
<1> QED BY <1>1, <1>3, <1>4, TracePreserves

(* MarkObjects marks what the arena has been sent. *)
LEMMA MarkObjectsPreserves ==
    ASSUME CollectionInv, NEW a \in Arenas, MarkObjects(a) PROVE CollectionInv'
<1> DEFINE extra == (crossRoots \cup objs) \cap Local(a)
<1>1. a \in todo /\ extra \in SUBSET Local(a) /\ Trace(a, extra) /\ Marking
      /\ todo' = todo \ {a} /\ phase = "MarkObjects" /\ objs \cap Local(a) \subseteq extra
      /\ UNCHANGED <<heap, queue, pending, phase, objs, dispatched, freed>>
  BY DEF MarkObjects, Marking
<1>2. crossRoots' = crossRoots \cup (objs \cap Local(a))
  BY DEF MarkObjects
<1>3. \A b \in registered \ {a} : crossRoots' \cap Local(b) = crossRoots \cap Local(b)
  BY <1>2 DEF Local
<1>4. a \in registered /\ crossRoots' \in SUBSET Objects
  BY <1>1, <1>2 DEF CollectionInv, TypeOK
<1>5. extra \subseteq RootReach /\ crossRoots' \cap Local(a) \subseteq RootReach
  BY <1>1, <1>2, <1>4 DEF CollectionInv, PreciseInv
<1> HIDE DEF extra
<1> QED BY <1>1, <1>3, <1>4, <1>5, TracePreserves

(* A round ends: what was recorded is sent, or marking is complete. *)
LEMMA NextRoundPreserves ==
    ASSUME CollectionInv, NextRound PROVE CollectionInv'
<1>1. TypeOK /\ todo = {} /\ Marking /\ found' = {}
  BY DEF CollectionInv, NextRound, Marking
<1>2. Present' = Present /\ RootReach' = RootReach /\ marked' = marked /\ freed' = freed
      /\ refs' = refs /\ roots' = roots /\ registered' = registered /\ pending' = pending
      /\ crossRoots' = crossRoots
      /\ Closure(refs', pending', Objects) = Closure(refs, pending, Objects)
  BY DEF NextRound, heap, Present, RootReach
<1>3. \A o \in Objects : Noticed(o) => o \in marked \/ o \in Fresh
  BY <1>1 DEF CollectionInv, SentInv, Noticed, Outstanding, Fresh
<1>4. CASE Fresh # {}
  <2>1. phase' = "MarkObjects" /\ objs' = Fresh /\ dispatched' = dispatched \cup Fresh
        /\ todo' = {Owner[o] : o \in Fresh}
    BY <1>4 DEF NextRound
  <2>2. Fresh \in SUBSET Objects /\ Fresh \subseteq Present
    BY <1>1 DEF CollectionInv, SentInv, Fresh, TypeOK
  <2>3. \A o \in Fresh : Outstanding(o)'
    BY <2>1 DEF Outstanding
  <2>4. TypeOK'
    <3>1. todo' \subseteq registered
      BY <2>1, <2>2 DEF Present
    <3> QED BY <3>1, <2>1, <2>2, <1>1, <1>2 DEF TypeOK, NextRound
  <2>5. SentInv'
    BY <2>1, <2>2, <2>3, <1>1, <1>2 DEF CollectionInv, SentInv, Outstanding
  <2>6. RootInv' /\ EdgeInv'
    BY <1>1, <1>2, <1>3, <2>3 DEF CollectionInv, RootInv, EdgeInv, Noticed, Present
  <2>7. FixedPointInv' /\ FreedInv' /\ PendingInv' /\ SweptInv'
    BY <1>1, <1>2, <2>1 DEF CollectionInv, FixedPointInv, FreedInv, PendingInv, SweptInv, Marking
  <2>8. PreciseInv'
    BY <1>1, <1>2, <2>1 DEF CollectionInv, PreciseInv, Fresh, Local
  <2> QED BY <2>4, <2>5, <2>6, <2>7, <2>8 DEF CollectionInv
<1>5. CASE Fresh = {}
  <2>1. phase' = "Finalize" /\ objs' = objs /\ dispatched' = dispatched /\ todo' = registered
    BY <1>5 DEF NextRound
  <2>2. TypeOK'
    BY <2>1, <1>1, <1>2 DEF TypeOK, NextRound
  <2>3. SentInv'
    BY <2>1, <1>1, <1>2 DEF CollectionInv, SentInv, Outstanding
  <2>4. RootInv' /\ EdgeInv'
    BY <1>1, <1>2, <1>3, <1>5 DEF CollectionInv, RootInv, EdgeInv, Noticed, Present
  <2>5. FixedPointInv' /\ FreedInv' /\ PendingInv' /\ SweptInv'
    BY <1>1, <1>2, <2>1 DEF CollectionInv, FixedPointInv, FreedInv, PendingInv, SweptInv, Marking
  <2>6. PreciseInv'
    BY <1>1, <1>2, <2>1 DEF CollectionInv, PreciseInv, Local
  <2> QED BY <2>2, <2>3, <2>4, <2>5, <2>6 DEF CollectionInv
<1> QED BY <1>4, <1>5

(* Resurrection keeps the marked set closed and covers what pending objects reach. *)
LEMMA FinalizePreserves ==
    ASSUME CollectionInv, NEW a \in Arenas, Finalize(a) PROVE CollectionInv'
<1> DEFINE dead == (queue \cap Local(a)) \ marked
           reach == Closure(refs, dead, Objects)
<1>1. TypeOK /\ phase = "Finalize" /\ a \in todo /\ found = {}
  BY DEF CollectionInv, Finalize, FixedPointInv, Marking
<1>2. /\ queue' = queue \ dead /\ pending' = pending \cup dead
      /\ marked' = marked \cup reach /\ todo' = todo \ {a}
      /\ refs' = refs /\ roots' = roots /\ registered' = registered /\ phase' = phase
      /\ objs' = objs /\ crossRoots' = crossRoots /\ found' = found /\ dispatched' = dispatched
      /\ freed' = freed
  BY DEF Finalize, heap
<1>3. refs \in [Objects -> SUBSET Objects] /\ dead \in SUBSET Objects /\ pending \in SUBSET Objects
      /\ Objects \in SUBSET Objects
  BY <1>1 DEF TypeOK
<1>4. dead \subseteq reach /\ reach \in SUBSET Objects
  BY <1>3, ClosureContains
<1>5. \A o \in reach : refs[o] \subseteq reach
  BY Zenon, <1>3, <1>4, ClosureClosed
<1>6. Closure(refs, pending \cup dead, Objects) \subseteq Closure(refs, pending, Objects) \cup reach
  BY <1>3, ClosureUnion
<1>7. /\ Closure(refs, pending, Objects) \subseteq Closure(refs, pending \cup dead, Objects)
      /\ reach \subseteq Closure(refs, pending \cup dead, Objects)
  BY <1>3, ClosureMonotone
<1> HIDE DEF reach, dead
<1>8. Present' = Present /\ RootReach' = RootReach
  BY <1>2 DEF Present, RootReach
<1>9. TypeOK'
  BY <1>1, <1>2, <1>3, <1>4 DEF TypeOK
<1>10. SentInv' /\ FixedPointInv' /\ SweptInv' /\ RootInv'
  BY <1>1, <1>2, <1>8 DEF CollectionInv, SentInv, FixedPointInv, SweptInv, RootInv, Outstanding, Noticed,
     Marking
<1>11. EdgeInv'
  BY <1>1, <1>2, <1>5, <1>8 DEF CollectionInv, EdgeInv, Outstanding, Noticed
<1>12. FreedInv' /\ PendingInv'
  BY <1>1, <1>2, <1>6 DEF CollectionInv, FreedInv, PendingInv, Marking
<1>13. PreciseInv'
  BY <1>1, <1>2, <1>7, <1>8 DEF CollectionInv, PreciseInv, Local
<1> QED BY <1>9, <1>10, <1>11, <1>12, <1>13 DEF CollectionInv

(* Sweeping frees exactly the unmarked objects of one arena. *)
LEMMA SweepPreserves ==
    ASSUME CollectionInv, NEW a \in Arenas, Sweep(a) PROVE CollectionInv'
<1>1. TypeOK /\ phase = "Sweep" /\ a \in todo
  BY DEF CollectionInv, Sweep
<1>2. /\ freed' = freed \cup (Local(a) \ marked) /\ todo' = todo \ {a}
      /\ refs' = refs /\ roots' = roots /\ registered' = registered /\ phase' = phase
      /\ objs' = objs /\ crossRoots' = crossRoots /\ found' = found /\ dispatched' = dispatched
      /\ queue' = queue /\ pending' = pending /\ marked' = marked
  BY DEF Sweep, heap
<1>3. Present' = Present /\ RootReach' = RootReach
      /\ Closure(refs', pending', Objects) = Closure(refs, pending, Objects)
  BY <1>2 DEF Present, RootReach
<1>4. TypeOK'
  BY <1>1, <1>2 DEF TypeOK, Local
<1>5. SentInv' /\ FixedPointInv' /\ RootInv' /\ EdgeInv'
  BY <1>1, <1>2, <1>3 DEF CollectionInv, SentInv, FixedPointInv, RootInv, EdgeInv, Outstanding, Noticed,
     Marking
<1>6. FreedInv' /\ PendingInv' /\ PreciseInv'
  BY <1>1, <1>2, <1>3 DEF CollectionInv, FreedInv, PendingInv, PreciseInv, Marking, Local
<1>7. SweptInv'
  BY <1>1, <1>2 DEF CollectionInv, SweptInv, Local
<1> QED BY <1>4, <1>5, <1>6, <1>7 DEF CollectionInv

(* Going on to the next command changes no heap. *)
LEMMA NextCommandPreserves ==
    ASSUME CollectionInv, NextCommand PROVE CollectionInv'
<1>1. TypeOK /\ phase \in {"Finalize", "Sweep"} /\ todo = {}
  BY DEF CollectionInv, NextCommand
<1>2. /\ phase' \in {"Sweep", "Done"} /\ (phase = "Finalize" => phase' = "Sweep" /\ todo' = registered)
      /\ (phase = "Sweep" => phase' = "Done" /\ todo' = {})
      /\ refs' = refs /\ roots' = roots /\ registered' = registered /\ freed' = freed
      /\ objs' = objs /\ crossRoots' = crossRoots /\ found' = found /\ dispatched' = dispatched
      /\ queue' = queue /\ pending' = pending /\ marked' = marked
  BY <1>1 DEF NextCommand, heap
<1>3. Present' = Present /\ RootReach' = RootReach
      /\ Closure(refs', pending', Objects) = Closure(refs, pending, Objects)
  BY <1>2 DEF Present, RootReach
<1>4. TypeOK'
  BY <1>1, <1>2 DEF TypeOK
<1>5. SentInv' /\ FixedPointInv' /\ RootInv' /\ EdgeInv'
  BY <1>1, <1>2, <1>3 DEF CollectionInv, SentInv, FixedPointInv, RootInv, EdgeInv, Outstanding, Noticed,
     Marking
<1>6. FreedInv' /\ PendingInv' /\ PreciseInv'
  BY <1>1, <1>2, <1>3 DEF CollectionInv, FreedInv, PendingInv, PreciseInv, Marking, Local
<1>7. SweptInv'
  BY <1>1, <1>2 DEF CollectionInv, SweptInv, Local, TypeOK
<1> QED BY <1>4, <1>5, <1>6, <1>7 DEF CollectionInv

-----------------------------------------------------------------------------
(* The theorems *)

(* The inductive invariant holds throughout every collection. *)
THEOREM Invariance == Spec => []CollectionInv
<1>1. CollectionInv /\ [Next]_vars => CollectionInv'
  <2> SUFFICES ASSUME CollectionInv, [Next]_vars PROVE CollectionInv'
    OBVIOUS
  <2>1. CASE \E a \in Arenas : MarkAll(a) \/ MarkObjects(a) \/ Finalize(a) \/ Sweep(a)
    BY <2>1, MarkAllPreserves, MarkObjectsPreserves, FinalizePreserves, SweepPreserves
  <2>2. CASE NextRound
    BY <2>2, NextRoundPreserves
  <2>3. CASE NextCommand
    BY <2>3, NextCommandPreserves
  <2>4. CASE UNCHANGED vars
    BY <2>4 DEF vars, heap, CollectionInv, TypeOK, SentInv, RootInv, EdgeInv, FixedPointInv, FreedInv,
       PendingInv, PreciseInv, SweptInv, Outstanding, Noticed, Marking, Present, RootReach
  <2> QED BY <2>1, <2>2, <2>3, <2>4 DEF Next
<1> QED BY <1>1, InitInv, PTL DEF Spec

(* The variables keep their types. *)
THEOREM TypeCorrect == Spec => []TypeOK
<1>1. CollectionInv => TypeOK
  BY DEF CollectionInv
<1> QED BY <1>1, Invariance, PTL

(* MarkingComplete holds however paths weave between arenas: the fixed-point loop
   of collect_all_arenas ends only when the marked set is closed. *)
THEOREM MarkingIsComplete == Spec => []MarkingComplete
<1>1. CollectionInv => MarkingComplete
  BY DEF CollectionInv, MarkingComplete, RootInv, EdgeInv, FixedPointInv, Noticed, Outstanding, Marking,
     TypeOK
<1> QED BY <1>1, Invariance, PTL

(* NothingReachableFreed: no order of the arenas' commands frees an object that a
   root or a pending finalizer can reach. *)
THEOREM SweepIsSafe == Spec => []NothingReachableFreed
<1>1. CollectionInv => NothingReachableFreed
  <2> SUFFICES ASSUME CollectionInv PROVE NothingReachableFreed
    OBVIOUS
  <2>1. CASE phase \notin {"Sweep", "Done"}
    BY <2>1 DEF CollectionInv, FreedInv, NothingReachableFreed
  <2>2. CASE phase \in {"Sweep", "Done"}
    <3> DEFINE S == (UNION {roots[a] : a \in registered}) \cap Present
    <3>1. refs \in [Objects -> SUBSET Objects] /\ S \in SUBSET Objects
          /\ Present \in SUBSET Objects /\ marked \in SUBSET Objects
      BY DEF CollectionInv, TypeOK, Present
    <3>2. S \subseteq marked /\ \A o \in marked \cap Present : refs[o] \cap Present \subseteq marked
      BY <2>2 DEF CollectionInv, RootInv, EdgeInv, FixedPointInv, Noticed, Outstanding, Marking
    <3>3. RootReach \subseteq marked
      BY <3>1, <3>2, ClosureLeast DEF RootReach
    <3> QED BY <3>3 DEF CollectionInv, PendingInv, FreedInv, NothingReachableFreed, Reachable
  <2> QED BY <2>1, <2>2
<1> QED BY <1>1, Invariance, PTL

(* GarbageFreed: a finished collection has freed all that nothing reaches. *)
THEOREM SweepIsExact == Spec => []GarbageFreed
<1>1. CollectionInv => GarbageFreed
  BY DEF CollectionInv, PreciseInv, SweptInv, GarbageFreed, Reachable, Present, Local, TypeOK
<1> QED BY <1>1, Invariance, PTL

-----------------------------------------------------------------------------
(* For every program, however often it is stopped, collected, interrupted by
   finalizers or aborted: nothing that it holds is swept, its run ends in order,
   and a stop of the world is seen in time. *)

-----------------------------------------------------------------------------
(* The inductive invariant. *)

Places == {"top", "safe point", "finalizers", "engine", "batch", "done"}

(* The instructions that work in turns. *)
Looping == {"convert", "cpblk", "memmove", "fill", "equals", "substring"}

(* A copy that is retained, of an instruction of the program's frame. *)
Retained == [op : {"substring"}, source : Nat, done : Int, ip : Nat, height : Nat, frames : {1}]

(* A stack of objects none of which has been swept. *)
Clean(s, gone) == s \in Seq(Nat) /\ \A k \in 1..Len(s) : s[k] \notin gone

TypeInv ==
    /\ program \in Programs /\ at \in Places
    /\ ip \in Nat /\ 1 <= ip /\ ip <= Returned
    /\ executed \in Nat /\ sincePoll \in Nat /\ finalizer \in Nat /\ due \in Nat /\ late \in Nat

(* Local variables of an instruction exist inside a batch only, and are those of
   the instruction that ip is at. *)
WorkInv ==
    \/ work = NoWork
    \/ /\ work \in [op : Looping, done : Int]
       /\ at = "batch" /\ finalizer = 0
       /\ ip <= Len(code) /\ code[ip].op = work.op

(* A copy is retained outside of batches only, in a build without multithreading;
   no frame has been pushed since, and the caller's frame is as it was. *)
SubstringInv ==
    \/ substring = NoWork
    \/ /\ substring \in Retained
       /\ ~mt /\ work = NoWork /\ finalizer = 0
       /\ at \in {"top", "safe point", "finalizers", "engine"}
       /\ ip <= Len(code) /\ code[ip].op = "substring"
       /\ substring.ip = ip /\ substring.height = Len(stack)
       /\ substring.source \notin swept

(* What has been swept was made by an instruction before this one. *)
LiveInv == Clean(stack, swept) /\ swept \subseteq 1..(ip - 1)

(* Since the stop was raised, no more has been run than since the last poll, and
   inside a batch the next poll is still to come. *)
LateInv ==
    /\ stop => mt
    /\ ~stop => late = 0
    /\ at = "batch" => late <= sincePoll /\ sincePoll < PollInterval
    /\ late <= PollInterval

EndInv ==
    /\ outcome # "error"
    /\ at # "done" => outcome = "running"
    /\ at = "done" => substring = NoWork /\ work = NoWork
    /\ outcome = "exited" => ip = Returned /\ due = 0 /\ finalizer = 0

LoopInv == TypeInv /\ WorkInv /\ SubstringInv /\ LiveInv /\ LateInv /\ EndInv

-----------------------------------------------------------------------------
(* Lemmas about the operators. *)

(* The flag is polled after a positive number of instructions. *)
LEMMA PollPositive == PollInterval \in Nat /\ PollInterval > 0
<1>1. PollInterval \in Nat \ {0}
    BY SizeAssumption
<1> QED BY <1>1

(* What ProgramAssumption says of the program that runs. *)
LEMMA CodeFacts ==
    ASSUME TypeInv
    PROVE  /\ mt \in BOOLEAN /\ Len(code) \in Nat /\ Len(code) > 0 /\ DOMAIN code = 1..Len(code)
           /\ Returned = Len(code) + 1
           /\ \A k \in 1..Len(code) : code[k].op \in Looping => code[k].size \in Nat
BY ProgramAssumption DEF TypeInv, mt, code, Returned, Looping

(* Popping operands (Drop) leaves a clean stack. *)
LEMMA DropClean ==
    ASSUME NEW s, NEW gone, Clean(s, gone), NEW n \in Nat, n <= Len(s)
    PROVE  Clean(Drop(s, n), gone) /\ Len(Drop(s, n)) = Len(s) - n
BY DEF Clean, Drop

(* Pushing an object that has not been swept leaves a clean stack. *)
LEMMA AppendClean ==
    ASSUME NEW s, NEW gone, Clean(s, gone), NEW k \in Nat, k \notin gone
    PROVE  Clean(Append(s, k), gone)
BY DEF Clean

(* The result of a frame, if there is one, is not swept. *)
LEMMA ResultClean ==
    ASSUME NEW s, NEW gone, Clean(s, gone)
    PROVE  Clean(Result(s), gone)
<1>1. CASE s = <<>>
    BY <1>1 DEF Result
<1>2. CASE s # <<>>
    <2>1. s \in Seq(Nat) /\ Len(s) \in 1..Len(s) /\ s[Len(s)] \in Nat /\ s[Len(s)] \notin gone
        BY <1>2 DEF Clean
    <2>2. Result(s) = <<s[Len(s)]>>
        BY <1>2 DEF Result
    <2>3. <<s[Len(s)]>> \in Seq(Nat) /\ Len(<<s[Len(s)]>>) = 1 /\ <<s[Len(s)]>>[1] = s[Len(s)]
        BY <2>1
    <2> QED BY <2>1, <2>2, <2>3 DEF Clean
<1> QED BY <1>1, <1>2

(* An instruction takes at most two operands, and what it makes is not swept. *)
LEMMA TakesNat ==
    ASSUME NEW i
    PROVE  Takes(i) \in Nat
BY DEF Takes

(* Completing an instruction at ip leaves a clean stack. *)
LEMMA CompletedClean ==
    ASSUME NEW s, NEW i, NEW gone, Clean(s, gone), NEW k \in Nat, gone \subseteq 1..(k - 1)
    PROVE  Clean(Completed(s, i, k), gone) /\ Clean(Append(s, k), gone)
<1>1. k \notin gone
    OBVIOUS
<1> QED BY <1>1, AppendClean DEF Completed

-----------------------------------------------------------------------------
(* The initial state. *)

(* A program starts at its first instruction with nothing made. *)
LEMMA InitLoopInv == CodeInit => LoopInv
<1> SUFFICES ASSUME CodeInit PROVE LoopInv
    OBVIOUS
<1>0. program \in Programs /\ Len(program.code) \in Nat \ {0}
    BY ProgramAssumption DEF CodeInit
<1>1. TypeInv
    BY <1>0 DEF CodeInit, TypeInv, Places, Returned, code
<1>2. LiveInv
    BY DEF CodeInit, LiveInv, Clean
<1>3. WorkInv /\ SubstringInv /\ LateInv /\ EndInv
    BY PollPositive DEF CodeInit, WorkInv, SubstringInv, LateInv, EndInv
<1> QED BY <1>1, <1>2, <1>3 DEF LoopInv

-----------------------------------------------------------------------------
(* The loop of the executor, and the rest of the runtime. *)

(* A collection sweeps nothing that is on the stack or the source of a retained
   copy, and only what instructions before this one have made. *)
LEMMA CollectLive ==
    ASSUME LoopInv, Collect, UNCHANGED <<program, ip, stack, substring>>
    PROVE  /\ LiveInv' /\ due' \in Nat
           /\ substring # NoWork => substring.source \notin swept'
<1>1. Made \subseteq 1..(ip - 1)
    BY CodeFacts DEF LoopInv, TypeInv, Made, Smaller
<1>2. swept' \subseteq 1..(ip - 1)
    BY Zenon, <1>1 DEF LoopInv, LiveInv, Collect
<1>3. \A k \in 1..Len(stack) : stack[k] \notin swept'
    BY DEF LoopInv, LiveInv, Clean, Collect, Traced
<1>4. substring # NoWork => substring.source \notin swept'
    BY Zenon DEF LoopInv, SubstringInv, Collect, Traced
<1>5. due' \in Nat
    BY BoundAssumption DEF LoopInv, TypeInv, Collect, Smaller
<1> QED BY <1>2, <1>3, <1>4, <1>5 DEF LoopInv, LiveInv, Clean

(* The loop's own steps (Executor::run) keep the invariant. *)
LEMMA LoopStep == LoopInv /\ Loop => LoopInv'
<1> SUFFICES ASSUME LoopInv, Loop PROVE LoopInv'
    OBVIOUS
<1> USE DEF LoopInv
<1>f. UNCHANGED program /\ UNCHANGED <<ip, stack, work>>
    BY Zenon DEF Loop, Abort, CollectionCheck, SafePoint, Resume, ProcessPendingFinalizers, EnterEngine, execution
<1>c. code' = code /\ mt' = mt /\ Returned' = Returned
    BY <1>f DEF code, mt, Returned
<1>1. CASE Abort
    BY <1>1, <1>f, <1>c DEF Abort, TypeInv, WorkInv, SubstringInv, LiveInv, LateInv, EndInv, Places,
        engine, finalization, world
<1>2. CASE CollectionCheck
    <2>1. /\ LiveInv' /\ due' \in Nat
          /\ substring # NoWork => substring.source \notin swept'
        <3>1. CASE Collect
            BY <3>1, <1>2, CollectLive DEF CollectionCheck, execution
        <3>2. CASE UNCHANGED finalization
            BY Zenon, <3>2, <1>2 DEF CollectionCheck, execution, finalization, LiveInv, TypeInv, SubstringInv
        <3> QED BY Zenon, <3>1, <3>2, <1>2 DEF CollectionCheck
    <2>2. TypeInv' /\ LateInv' /\ WorkInv'
        BY Zenon, <2>1, <1>2, <1>f, <1>c DEF CollectionCheck, TypeInv, WorkInv, LateInv, Places,
            engine, execution
    <2>3. SubstringInv' /\ EndInv'
        BY Zenon, <2>1, <1>2, <1>f, <1>c DEF CollectionCheck, SubstringInv, EndInv, execution
    <2> QED BY <2>1, <2>2, <2>3
<1>3. CASE SafePoint
    BY Zenon, <1>3, <1>f, <1>c DEF SafePoint, TypeInv, WorkInv, SubstringInv, LiveInv, LateInv, EndInv, Places,
        engine, finalization, world, execution
<1>4. CASE Resume
    <2>1. /\ LiveInv' /\ due' \in Nat
          /\ substring # NoWork => substring.source \notin swept'
        BY Zenon, <1>4, CollectLive DEF Resume, execution
    <2>2. TypeInv' /\ WorkInv'
        BY Zenon, <2>1, <1>4, <1>f, <1>c DEF Resume, TypeInv, WorkInv, Places, engine, execution
    <2>4. LateInv'
        <3>1. ~stop' /\ late' = 0 /\ at' = "finalizers"
            BY <1>4 DEF Resume
        <3> QED BY <3>1, PollPositive DEF LateInv
    <2>3. SubstringInv' /\ EndInv'
        BY Zenon, <2>1, <1>4, <1>f, <1>c DEF Resume, SubstringInv, EndInv, execution
    <2> QED BY <2>1, <2>2, <2>3, <2>4
<1>5. CASE ProcessPendingFinalizers
    <2>1. TypeInv' /\ LateInv' /\ WorkInv' /\ LiveInv'
        BY <1>5, <1>f, <1>c DEF ProcessPendingFinalizers, TypeInv, WorkInv, LateInv, LiveInv, Places,
            engine, execution, world
    <2>2. SubstringInv' /\ EndInv'
        BY <1>5, <1>f, <1>c DEF ProcessPendingFinalizers, SubstringInv, EndInv, execution
    <2> QED BY <2>1, <2>2
<1>6. CASE EnterEngine
    <2>0. /\ at = "engine" /\ at' \in {"top", "batch"}
          /\ (executed' = executed \/ executed' = 0) /\ (sincePoll' = sincePoll \/ sincePoll' = 0)
          /\ UNCHANGED <<finalizer, due, swept, late>>
        BY <1>6 DEF EnterEngine, engine, finalization
    <2>1. TypeInv' /\ WorkInv' /\ LiveInv'
        <3>1. TypeInv'
            <4>1. executed' \in Nat /\ sincePoll' \in Nat
                BY <2>0 DEF TypeInv
            <4>2. at' \in Places
                BY <2>0 DEF Places
            <4> QED BY <2>0, <4>1, <4>2, <1>f, <1>c DEF TypeInv
        <3>2. WorkInv'
            BY <2>0, <1>f, <1>c DEF WorkInv
        <3>3. LiveInv'
            BY <2>0, <1>f, <1>c DEF LiveInv
        <3> QED BY <3>1, <3>2, <3>3
    <2>3. LateInv'
        <3>1. stop' = stop /\ late' = late /\ late \in Nat
            BY <1>6 DEF EnterEngine, world, TypeInv
        <3>2. at' = "top" \/ (at' = "batch" /\ ~stop /\ sincePoll' = 0)
            BY <1>6 DEF EnterEngine
        <3> QED BY <3>1, <3>2, <1>c, PollPositive DEF LateInv
    <2>2. SubstringInv' /\ EndInv'
        BY <1>6, <1>f, <1>c DEF EnterEngine, SubstringInv, EndInv, execution, finalization
    <2> QED BY <2>1, <2>2, <2>3
<1> QED BY <1>1, <1>2, <1>3, <1>4, <1>5, <1>6 DEF Loop

(* Aborts, stops of the world and the ends of other threads keep the invariant. *)
LEMMA RuntimeStep == LoopInv /\ (RequestAbort \/ RaiseStop \/ OtherThreadEnds) => LoopInv'
<1> SUFFICES ASSUME LoopInv, RequestAbort \/ RaiseStop \/ OtherThreadEnds PROVE LoopInv'
    OBVIOUS
<1> USE DEF LoopInv
<1>f. UNCHANGED <<program, at, execution, engine, finalizer, finalization, outcome>>
    BY DEF RequestAbort, RaiseStop, OtherThreadEnds
<1>c. code' = code /\ mt' = mt /\ Returned' = Returned
    BY <1>f DEF code, mt, Returned
<1>1. WorkInv' /\ SubstringInv' /\ LiveInv' /\ EndInv'
    BY Zenon, <1>f, <1>c DEF WorkInv, SubstringInv, LiveInv, EndInv, execution, finalization
<1>2. TypeInv' /\ LateInv'
    BY <1>f, <1>c, PollPositive DEF TypeInv, LateInv, execution, finalization, engine,
        RequestAbort, RaiseStop, OtherThreadEnds
<1> QED BY <1>1, <1>2

-----------------------------------------------------------------------------
(* Instructions. *)

(* How an instruction, or a turn of one, leaves the batch's counters: it counts
   as run, it gives up, or it goes on while the world is not to stop. *)
Turned ==
    \/ ContinueBatch
    \/ at' = "top" /\ UNCHANGED engine /\ (UNCHANGED late \/ Counted)
    \/ UNCHANGED <<at, engine>> /\ (UNCHANGED late \/ (Counted /\ ~stop))

(* A step inside a batch, of the program's own frame, that keeps to its part of
   the state and pushes only what has not been swept. *)
Handled ==
    /\ at = "batch" /\ finalizer = 0 /\ ip <= Len(code)
    /\ UNCHANGED <<outcome, substring, Others>>
    /\ Clean(stack', swept) /\ (ip' = ip \/ ip' = ip + 1)

(* The counters stay in their bounds whatever becomes of an instruction. *)
LEMMA TurnedLate ==
    ASSUME LoopInv, at = "batch", Turned, UNCHANGED <<stop, program>>
    PROVE  /\ at' \in {"top", "batch"} /\ executed' \in Nat /\ sincePoll' \in Nat /\ late' \in Nat
           /\ LateInv'
<1>1. /\ late \in Nat /\ sincePoll \in Nat /\ executed \in Nat
      /\ late <= sincePoll /\ sincePoll < PollInterval /\ late + 1 <= PollInterval
      /\ stop' = stop /\ mt' = mt /\ (stop => mt) /\ (~stop => late = 0)
    BY PollPositive DEF LoopInv, TypeInv, LateInv, mt
<1>2. CASE ContinueBatch
    <2>1. late' = IF stop THEN late + 1 ELSE 0
        BY <1>2 DEF ContinueBatch, Counted
    <2>2. /\ executed' = executed + 1 /\ at' \in {"top", "batch"}
          /\ \/ sincePoll + 1 >= PollInterval /\ sincePoll' = 0 /\ (at' = "batch" => ~stop)
             \/ sincePoll + 1 < PollInterval /\ sincePoll' = sincePoll + 1
        BY <1>1, <1>2, PollPositive DEF ContinueBatch
    <2> QED BY <1>1, <2>1, <2>2, PollPositive DEF LateInv
<1>3. CASE at' = "top" /\ UNCHANGED engine /\ (UNCHANGED late \/ Counted)
    <2>1. late' \in {late, late + 1, 0} /\ (~stop => late' = 0)
        BY <1>1, <1>3 DEF Counted
    <2>2. executed' = executed /\ sincePoll' = sincePoll
        BY <1>3 DEF engine
    <2> QED BY <1>1, <1>3, <2>1, <2>2, PollPositive DEF LateInv
<1>4. CASE UNCHANGED <<at, engine>> /\ (UNCHANGED late \/ (Counted /\ ~stop))
    <2>1. late' \in {late, 0} /\ (~stop => late' = 0)
        BY <1>1, <1>4 DEF Counted
    <2>2. executed' = executed /\ sincePoll' = sincePoll /\ at' = at
        BY <1>4 DEF engine
    <2> QED BY <1>1, <1>4, <2>1, <2>2, PollPositive DEF LateInv
<1> QED BY <1>2, <1>3, <1>4 DEF Turned

(* Such a step keeps the invariant when it leaves the local variables of an
   instruction as they may be. *)
LEMMA HandledStep ==
    ASSUME LoopInv, Handled, Turned, WorkInv'
    PROVE  LoopInv'
<1>1. UNCHANGED <<outcome, substring, program, finalizer, due, swept, stop>>
    BY DEF Handled, Others, finalization, world
<1>c. code' = code /\ mt' = mt /\ Returned' = Returned
    BY <1>1 DEF code, mt, Returned
<1>2. /\ at' \in {"top", "batch"} /\ executed' \in Nat /\ sincePoll' \in Nat /\ late' \in Nat
      /\ LateInv'
    BY <1>1, TurnedLate DEF Handled
<1>3. ip \in Nat /\ Len(code) \in Nat /\ Returned = Len(code) + 1
    BY CodeFacts DEF LoopInv, TypeInv
<1>h. (ip' = ip \/ ip' = ip + 1) /\ ip <= Len(code) /\ Clean(stack', swept)
    BY DEF Handled
<1>4. TypeInv'
    <2>1. program' \in Programs /\ at' \in Places
        BY Zenon, <1>1, <1>2 DEF LoopInv, TypeInv, Places
    <2>2. ip' \in Nat /\ 1 <= ip'
        BY <1>3, <1>h DEF LoopInv, TypeInv
    <2>3. ip' <= Returned'
        BY <1>3, <1>c, <1>h
    <2>4. finalizer' \in Nat /\ due' \in Nat
        BY <1>1 DEF LoopInv, TypeInv
    <2> QED BY <1>2, <2>1, <2>2, <2>3, <2>4 DEF TypeInv
<1>5. substring = NoWork /\ outcome = "running"
    BY DEF LoopInv, SubstringInv, EndInv, Handled
<1>6. SubstringInv' /\ EndInv'
    BY <1>1, <1>2, <1>5 DEF SubstringInv, EndInv
<1>7. LiveInv'
    <2>1. swept' = swept
        BY <1>1
    <2>2. Clean(stack', swept')
        BY <2>1, <1>h
    <2>3. swept' \subseteq 1..(ip' - 1)
        <3>1. swept \subseteq 1..(ip - 1)
            BY DEF LoopInv, LiveInv
        <3> QED BY <2>1, <3>1, <1>3, <1>h
    <2> QED BY <2>2, <2>3 DEF LiveInv
<1> QED BY <1>2, <1>4, <1>6, <1>7 DEF LoopInv

(* Where an instruction starts: its operands are there and clean, and only those
   that work in turns have local variables. *)
LEMMA ReadyFacts ==
    ASSUME LoopInv, NEW op, Ready(op)
    PROVE  /\ at = "batch" /\ finalizer = 0 /\ ip \in Nat /\ ip <= Len(code) /\ Instruction.op = op
           /\ swept \subseteq 1..(ip - 1) /\ ip \notin swept /\ Clean(stack, swept)
           /\ Clean(Drop(stack, Takes(Instruction)), swept)
           /\ op \notin Looping => work = NoWork
<1>1. at = "batch" /\ finalizer = 0 /\ ip \in DOMAIN code /\ Instruction.op = op
      /\ Takes(Instruction) <= Len(stack)
    <2>1. Len(stack) \in Nat
        BY DEF LoopInv, LiveInv, Clean
    <2> QED BY <2>1, TakesNat DEF Ready, Executes
<1>2. ip \in Nat /\ ip <= Len(code)
    BY <1>1, CodeFacts DEF LoopInv, TypeInv
<1>3. Clean(stack, swept) /\ swept \subseteq 1..(ip - 1) /\ ip \notin swept
    BY <1>2 DEF LoopInv, LiveInv
<1>4. Clean(Drop(stack, Takes(Instruction)), swept)
    BY <1>1, <1>3, TakesNat, DropClean
<1>5. op \notin Looping => work = NoWork
    BY <1>1 DEF LoopInv, WorkInv, Instruction
<1> QED BY <1>1, <1>2, <1>3, <1>4, <1>5

(* Instructions that finish in one step or give up before they begin. *)
LEMMA PlainStep == LoopInv /\ (Ldstr \/ NewArr \/ Join \/ Stsfld \/ GCCollect) => LoopInv'
<1> SUFFICES ASSUME LoopInv, Ldstr \/ NewArr \/ Join \/ Stsfld \/ GCCollect PROVE LoopInv'
    OBVIOUS
<1>1. CASE Ldstr
    <2>1. Ready("ldstr")
        BY <1>1 DEF Ldstr
    <2>2. Clean(Append(stack, ip), swept) /\ work = NoWork
        BY <2>1, ReadyFacts, AppendClean DEF Looping
    <2>3. Handled
        BY <1>1, <2>1, <2>2, ReadyFacts DEF Ldstr, Handled
    <2>4. Turned /\ WorkInv'
        BY <1>1, <2>2 DEF Ldstr, Turned, WorkInv
    <2> QED BY <2>3, <2>4, HandledStep
<1>2. CASE NewArr
    <2>1. Ready("newarr") /\ Takes(Instruction) = 1
        BY <1>2, ReadyFacts DEF NewArr, Takes
    <2>2. /\ Clean(Drop(stack, 1), swept) /\ Clean(Append(Drop(stack, 1), ip), swept)
          /\ work = NoWork
        BY <2>1, ReadyFacts, AppendClean DEF Looping
    <2>3. CASE stack' = Drop(stack, 1) /\ Yield /\ UNCHANGED late
        <3>1. Handled
            BY <1>2, <2>1, <2>2, <2>3, ReadyFacts DEF NewArr, Handled, Yield
        <3>2. Turned /\ WorkInv'
            BY <2>3 DEF Yield, Turned, WorkInv
        <3> QED BY <3>1, <3>2, HandledStep
    <2>4. CASE stack' = Append(Drop(stack, 1), ip) /\ ip' = ip + 1 /\ ContinueBatch /\ UNCHANGED work
        <3>1. Handled
            BY <1>2, <2>1, <2>2, <2>4, ReadyFacts DEF NewArr, Handled
        <3>2. Turned /\ WorkInv'
            BY <2>2, <2>4 DEF Turned, WorkInv
        <3> QED BY <3>1, <3>2, HandledStep
    <2> QED BY <1>2, <2>3, <2>4 DEF NewArr
<1>3. CASE Join \/ Stsfld
    <2>1. \E op \in {"join", "stsfld"} : Ready(op)
        BY <1>3 DEF Join, Stsfld
    <2>2. PICK op \in {"join", "stsfld"} : Ready(op)
        BY <2>1
    <2>3. Takes(Instruction) = 1
        BY <2>2, ReadyFacts DEF Takes
    <2>4. /\ Clean(Drop(stack, 1), swept) /\ Clean(stack, swept) /\ work = NoWork
          /\ at = "batch" /\ finalizer = 0 /\ ip <= Len(code)
        BY <2>2, <2>3, ReadyFacts DEF Looping
    <2>5. CASE stack' = Drop(stack, 1) /\ ip' = ip + 1 /\ ContinueBatch /\ UNCHANGED work
        <3>1. Handled
            BY <1>3, <2>4, <2>5 DEF Join, Stsfld, Handled
        <3>2. Turned /\ WorkInv'
            BY <2>4, <2>5 DEF Turned, WorkInv
        <3> QED BY <3>1, <3>2, HandledStep
    <2>6. CASE Yield /\ UNCHANGED <<stack, late>>
        <3>1. Handled
            BY <1>3, <2>4, <2>6 DEF Join, Stsfld, Handled, Yield
        <3>2. Turned /\ WorkInv'
            BY <2>6 DEF Yield, Turned, WorkInv
        <3> QED BY <3>1, <3>2, HandledStep
    <2> QED BY <1>3, <2>5, <2>6 DEF Join, Stsfld
<1>4. CASE GCCollect
    <2>1. Ready("collect")
        BY <1>4 DEF GCCollect
    <2>2. Clean(stack, swept) /\ work = NoWork
        BY <2>1, ReadyFacts DEF Looping
    <2>3. Handled
        BY <1>4, <2>1, <2>2, ReadyFacts DEF GCCollect, Handled
    <2>4. Turned /\ WorkInv'
        BY <1>4, <2>2 DEF GCCollect, Turned, WorkInv
    <2> QED BY <2>3, <2>4, HandledStep
<1> QED BY <1>1, <1>2, <1>3, <1>4

(* What is added up while a loop goes on stays an integer. *)
LEMMA IntSum == (\A a, b \in Int : a + b \in Int) /\ (\A a \in Nat : a \in Int)
OBVIOUS

(* A turn is a number of cells. *)
LEMMA ChunkInt ==
    ASSUME LoopInv, ip <= Len(code), Instruction.op \in Looping, NEW done \in Int
    PROVE  NextChunk(done) \in Int /\ Instruction.size \in Nat
<1>1. Chunk \in Nat
    BY SizeAssumption
<1>2. ip \in 1..Len(code)
    BY CodeFacts DEF LoopInv, TypeInv
<1>3. Instruction.size \in Nat
    BY <1>2, CodeFacts DEF LoopInv, Instruction
<1> QED BY <1>1, <1>3 DEF NextChunk, Smaller

(* Popping the operands keeps the invariant. *)
LEMMA PopStep == LoopInv /\ PopOperands => LoopInv'
<1> SUFFICES ASSUME LoopInv, PopOperands PROVE LoopInv'
    OBVIOUS
<1>1. /\ Clean(Drop(stack, Takes(Instruction)), swept) /\ at = "batch" /\ finalizer = 0 /\ ip <= Len(code)
      /\ Instruction.op \in Looping
    <2>1. Ready(Instruction.op)
        BY DEF PopOperands, Ready, Executes
    <2> QED BY <2>1, ReadyFacts DEF PopOperands, Looping
<1>2. Handled
    BY <1>1 DEF PopOperands, Handled
<1>3. Turned
    BY DEF PopOperands, Turned
<1>4. WorkInv'
    <2>1. work' = [op |-> Instruction.op, done |-> 0] /\ UNCHANGED <<at, ip, program, finalizer>>
        BY DEF PopOperands, Others
    <2>2. work' \in [op : Looping, done : Int] /\ work'.op = Instruction.op
        BY <1>1, <2>1
    <2> QED BY <1>1, <2>1, <2>2 DEF WorkInv, Instruction, code
<1> QED BY <1>2, <1>3, <1>4, HandledStep

(* A turn of an instruction that has popped its operands. *)
LEMMA PoppedTurnStep ==
    ASSUME LoopInv, NEW op \in Looping, Popped(op), NEW n \in Int, PoppedTurn(n)
    PROVE  LoopInv'
<1>1. /\ work \in [op : Looping, done : Int] /\ at = "batch" /\ finalizer = 0
      /\ ip <= Len(code) /\ Instruction.op = work.op
    <2>1. work # NoWork
        BY DEF Popped, NoWork, Looping
    <2> QED BY <2>1 DEF LoopInv, WorkInv, Instruction
<1>2. Clean(stack, swept) /\ ip \in Nat /\ swept \subseteq 1..(ip - 1)
    BY DEF LoopInv, LiveInv, TypeInv
<1>3. UNCHANGED <<outcome, substring, Others>>
    BY DEF PoppedTurn
<1>4. CASE Counted /\ UNCHANGED stack /\ stop /\ Yield
    <2>1. Handled
        BY <1>1, <1>2, <1>3, <1>4 DEF Handled, Yield
    <2>2. Turned /\ WorkInv'
        BY <1>4 DEF Yield, Turned, WorkInv
    <2> QED BY <2>1, <2>2, HandledStep
<1>5. CASE /\ Counted /\ UNCHANGED stack /\ ~stop
           /\ work' = [work EXCEPT !.done = work.done + n] /\ UNCHANGED <<at, ip, engine>>
    <2>1. Handled
        BY <1>1, <1>2, <1>3, <1>5 DEF Handled
    <2>2. Turned
        BY <1>5 DEF Turned
    <2>3. work' \in [op : Looping, done : Int] /\ work'.op = work.op
        BY <1>1, <1>5
    <2>4. WorkInv'
        BY <1>1, <1>3, <1>5, <2>3 DEF WorkInv, Instruction, code, Others
    <2> QED BY <2>1, <2>2, <2>4, HandledStep
<1>6. CASE stack' = Completed(stack, Instruction, ip) /\ ip' = ip + 1 /\ work' = NoWork /\ ContinueBatch
    <2>1. Handled
        BY Zenon, <1>1, <1>2, <1>3, <1>6, CompletedClean DEF Handled
    <2>2. Turned /\ WorkInv'
        BY <1>6 DEF Turned, WorkInv
    <2> QED BY <2>1, <2>2, HandledStep
<1> QED BY <1>4, <1>5, <1>6 DEF PoppedTurn

(* The instructions that have popped their operands keep the invariant. *)
LEMMA PoppedStep == LoopInv /\ (Convert \/ Cpblk \/ Memmove \/ Fill) => LoopInv'
<1> SUFFICES ASSUME LoopInv, Convert \/ Cpblk \/ Memmove \/ Fill PROVE LoopInv'
    OBVIOUS
<1>1. PICK op \in {"convert", "cpblk", "memmove", "fill"} : Popped(op)
    <2>1. CASE Convert
        BY Zenon, <2>1 DEF Convert
    <2>2. CASE Cpblk
        BY Zenon, <2>2 DEF Cpblk
    <2>3. CASE Memmove
        BY Zenon, <2>3 DEF Memmove
    <2>4. CASE Fill
        BY Zenon, <2>4 DEF Fill
    <2> QED BY Zenon, <2>1, <2>2, <2>3, <2>4
<1>2. /\ work \in [op : Looping, done : Int] /\ ip <= Len(code) /\ Instruction.op = work.op
      /\ op \in Looping
    <2>1. work # NoWork
        BY <1>1 DEF Popped, NoWork
    <2> QED BY <1>1, <2>1 DEF LoopInv, WorkInv, Instruction, Looping
<1>3. NextChunk(work.done) \in Int /\ Instruction.size \in Nat
    BY <1>2, ChunkInt
<1>4. \E n \in Int : PoppedTurn(n)
    <2>1. CASE Convert
        BY Zenon, <1>3, <2>1 DEF Convert
    <2>2. CASE Cpblk
        BY Zenon, <1>3, <2>2 DEF Cpblk
    <2>3. CASE Memmove
        <3>1. Instruction.size \in Int
            BY Zenon, <1>3, IntSum
        <3>2. (IF Instruction.src = Instruction.dst THEN Instruction.size ELSE NextChunk(work.done)) \in Int
            BY Zenon, <3>1, <1>3
        <3> QED BY Zenon, <3>2, <2>3 DEF Memmove
    <2>4. CASE Fill
        BY Zenon, <1>3, <2>4 DEF Fill
    <2> QED BY Zenon, <2>1, <2>2, <2>3, <2>4
<1> QED BY <1>1, <1>2, <1>4, PoppedTurnStep

(* A turn of an instruction that has only looked at its operands. *)
LEMMA PeekedStep == LoopInv /\ (Equals \/ Substring) => LoopInv'
<1> SUFFICES ASSUME LoopInv, Equals \/ Substring PROVE LoopInv'
    OBVIOUS
<1>1. PICK op \in {"equals", "substring"} : Ready(op)
    BY DEF Equals, Substring
<1>2. PeekedTurn
    BY DEF Equals, Substring
<1>3. /\ at = "batch" /\ finalizer = 0 /\ ip \in Nat /\ ip <= Len(code) /\ Instruction.op = op
      /\ swept \subseteq 1..(ip - 1) /\ Clean(stack, swept)
      /\ Clean(Drop(stack, Takes(Instruction)), swept) /\ op \in Looping
    BY <1>1, ReadyFacts DEF Looping
<1>4. UNCHANGED <<outcome, substring, Others>>
    BY <1>2 DEF PeekedTurn
<1> DEFINE before == IF work = NoWork THEN 0 ELSE work.done
           done == before + NextChunk(before)
<1>5. before \in Int /\ done \in Int
    <2>1. before \in Int
        BY DEF LoopInv, WorkInv
    <2> HIDE DEF before
    <2>2. NextChunk(before) \in Int
        BY <2>1, <1>3, ChunkInt
    <2> QED BY <2>1, <2>2
<1>6. CASE Counted /\ Yield /\ UNCHANGED stack
    <2>1. Handled
        BY <1>3, <1>4, <1>6 DEF Handled, Yield
    <2>2. Turned /\ WorkInv'
        BY <1>6 DEF Yield, Turned, WorkInv
    <2> QED BY <2>1, <2>2, HandledStep
<1>7. CASE /\ ~stop /\ Counted
           /\ work' = [op |-> Instruction.op, done |-> done] /\ UNCHANGED <<at, ip, stack, engine>>
    <2>1. Handled
        BY <1>3, <1>4, <1>7 DEF Handled
    <2>2. Turned
        BY <1>7 DEF Turned
    <2>3. work' \in [op : Looping, done : Int] /\ work'.op = Instruction.op
        <3>1. Instruction.op \in Looping /\ done \in Int
            BY Zenon, <1>3, <1>5
        <3>2. work' = [op |-> Instruction.op, done |-> done]
            BY Zenon, <1>7
        <3> DEFINE o == Instruction.op
        <3> HIDE DEF done, o
        <3>3. o \in Looping /\ work' = [op |-> o, done |-> done]
            BY Zenon, <3>1, <3>2 DEF o
        <3>4. work' \in [op : Looping, done : Int] /\ work'.op = o
            BY <3>1, <3>3
        <3> QED BY Zenon, <3>4 DEF o
    <2>4. WorkInv'
        BY Zenon, <1>3, <1>4, <1>7, <2>3 DEF WorkInv, Instruction, code, Others
    <2> QED BY <2>1, <2>2, <2>4, HandledStep
<1>8. CASE /\ stack' = Completed(Drop(stack, Takes(Instruction)), Instruction, ip)
           /\ ip' = ip + 1 /\ work' = NoWork /\ ContinueBatch
    <2>1. Handled
        BY Zenon, <1>3, <1>4, <1>8, CompletedClean DEF Handled
    <2>2. Turned /\ WorkInv'
        BY <1>8 DEF Turned, WorkInv
    <2> QED BY <2>1, <2>2, HandledStep
<1> QED BY Zenon, <1>2, <1>6, <1>7, <1>8 DEF PeekedTurn

-----------------------------------------------------------------------------
(* The retained copy, returns and finalizers. *)

(* A turn of a retained copy leaves the copy for the same frame, or its result. *)
LEMMA AdvanceFacts ==
    ASSUME LoopInv, finalizer = 0, ip <= Len(code), Instruction.op = "substring", ~mt,
           NEW s, Clean(s, swept),
           NEW copy \in Retained, copy.ip = ip, copy.height = Len(s), copy.source \notin swept,
           AdvanceNativeSubstring(s, copy)
    PROVE  \/ /\ substring' \in Retained /\ stack' = s /\ ip' = ip
              /\ substring'.ip = ip /\ substring'.height = Len(s) /\ substring'.source \notin swept
           \/ /\ substring' = NoWork /\ Clean(stack', swept) /\ ip' = ip + 1
<1> DEFINE done == copy.done + Smaller(Chunk, Instruction.size - copy.done)
<1>1. copy.done \in Int
    BY DEF Retained
<1>2. done \in Int
    <2>1. NextChunk(copy.done) \in Int
        BY SMTT(30), <1>1, ChunkInt DEF Looping
    <2> QED BY Zenon, <1>1, <2>1, IntSum DEF NextChunk
<1> HIDE DEF done
<1>3. CASE substring' = [copy EXCEPT !.done = done] /\ stack' = s /\ ip' = ip
    BY <1>2, <1>3 DEF Retained
<1>4. CASE substring' = NoWork /\ stack' = Append(s, ip) /\ ip' = ip + 1
    <2>1. ip \in Nat /\ ip \notin swept
        BY DEF LoopInv, TypeInv, LiveInv
    <2> QED BY <1>4, <2>1, AppendClean
<1> QED BY <1>3, <1>4 DEF AdvanceNativeSubstring, done

(* After a turn of a copy the executor is at the top of its loop, and the
   invariant holds. *)
LEMMA AdvancedStep ==
    ASSUME LoopInv, at # "done", finalizer = 0, ip <= Len(code), Instruction.op = "substring", ~mt,
           at' = "top", work = NoWork, UNCHANGED <<work, engine, outcome, Others>>, Counted,
           \/ /\ substring' \in Retained /\ Clean(stack', swept) /\ ip' = ip
              /\ substring'.ip = ip /\ substring'.height = Len(stack') /\ substring'.source \notin swept
           \/ /\ substring' = NoWork /\ Clean(stack', swept) /\ ip' = ip + 1
    PROVE  LoopInv'
<1>1. UNCHANGED <<program, finalizer, due, swept, executed, sincePoll>> /\ stop' = stop
    BY DEF Others, finalization, world, engine
<1>c. code' = code /\ mt' = mt /\ Returned' = Returned
    BY <1>1 DEF code, mt, Returned
<1>2. ip \in Nat /\ Len(code) \in Nat /\ Returned = Len(code) + 1
    BY CodeFacts DEF LoopInv, TypeInv
<1>3. ~stop /\ late' = 0
    BY DEF LoopInv, LateInv, Counted
<1>4. TypeInv'
    <2>1. ip' \in Nat /\ 1 <= ip' /\ ip' <= Returned'
        BY <1>2, <1>c DEF LoopInv, TypeInv
    <2> QED BY Zenon, <1>1, <1>3, <2>1 DEF LoopInv, TypeInv, Places
<1>5. WorkInv'
    BY DEF WorkInv
<1>6. SubstringInv'
    BY <1>1, <1>c DEF SubstringInv, Instruction
<1>7. LiveInv'
    <2>1. swept \subseteq 1..(ip - 1)
        BY DEF LoopInv, LiveInv
    <2>2. swept' \subseteq 1..(ip' - 1)
        BY <1>1, <1>2, <2>1
    <2> QED BY <1>1, <2>2 DEF LiveInv
<1>8. LateInv'
    BY <1>1, <1>3, PollPositive DEF LateInv
<1>9. EndInv'
    BY <1>1, <1>c DEF LoopInv, EndInv
<1> QED BY <1>4, <1>5, <1>6, <1>7, <1>8, <1>9 DEF LoopInv

(* What offer_substring_continuation retains is a copy: its fields are the ones
   it was given. *)
LEMMA CopyRetained ==
    ASSUME NEW source \in Nat, NEW pc \in Nat, NEW height \in Nat
    PROVE  LET copy == [op |-> "substring", source |-> source, done |-> 0,
                        ip |-> pc, height |-> height, frames |-> 1]
           IN  copy \in Retained /\ copy.ip = pc /\ copy.height = height /\ copy.source = source
BY DEF Retained

(* Retaining a copy, and going on with it, keep the invariant: the check of
   resume_native_substring never fails. *)
LEMMA RetainedStep == LoopInv /\ (OfferSubstringContinuation \/ ResumeNativeSubstring) => LoopInv'
<1> SUFFICES ASSUME LoopInv, OfferSubstringContinuation \/ ResumeNativeSubstring PROVE LoopInv'
    OBVIOUS
<1>1. CASE OfferSubstringContinuation
    <2>1. Ready("substring") /\ work = NoWork /\ ~mt /\ at' = "top" /\ Counted
          /\ UNCHANGED <<work, engine, outcome, Others>>
        BY Zenon, <1>1 DEF OfferSubstringContinuation
    <2>2. /\ at = "batch" /\ finalizer = 0 /\ ip \in Nat /\ ip <= Len(code)
          /\ Instruction.op = "substring" /\ Clean(stack, swept) /\ Takes(Instruction) = 1
          /\ Clean(Drop(stack, 1), swept)
        <3>1. Instruction.op = "substring" /\ Takes(Instruction) = 1
            BY <2>1, ReadyFacts DEF Takes
        <3> QED BY <2>1, <3>1, ReadyFacts
    <2>3. stack[Len(stack)] \in Nat /\ stack[Len(stack)] \notin swept
        <3>1. Len(stack) >= 1 /\ Len(stack) \in Nat
            BY <2>1, <2>2 DEF Ready, Clean
        <3> QED BY <3>1, <2>2 DEF Clean
    <2> DEFINE s == Drop(stack, 1)
               copy == [op |-> "substring", source |-> stack[Len(stack)], done |-> 0,
                        ip |-> ip, height |-> Len(s), frames |-> 1]
    <2>4. Len(s) \in Nat
        BY <2>2 DEF Clean
    <2>5. copy \in Retained /\ copy.ip = ip /\ copy.height = Len(s) /\ copy.source \notin swept
        BY Zenon, <2>2, <2>3, <2>4, CopyRetained
    <2>6. AdvanceNativeSubstring(s, copy) /\ Clean(s, swept)
        BY Zenon, <1>1, <2>2 DEF OfferSubstringContinuation
    <2> HIDE DEF s, copy
    <2>7. \/ /\ substring' \in Retained /\ stack' = s /\ ip' = ip
             /\ substring'.ip = ip /\ substring'.height = Len(s) /\ substring'.source \notin swept
          \/ /\ substring' = NoWork /\ Clean(stack', swept) /\ ip' = ip + 1
        BY Zenon, <2>1, <2>2, <2>5, <2>6, AdvanceFacts
    <2> QED BY <2>1, <2>2, <2>6, <2>7, AdvancedStep
<1>2. CASE ResumeNativeSubstring
    <2>1. /\ at = "engine" /\ substring \in Retained /\ ~mt /\ work = NoWork /\ finalizer = 0
          /\ ip <= Len(code) /\ Instruction.op = "substring" /\ substring.frames = 1
          /\ substring.ip = ip /\ substring.height = Len(stack) /\ substring.source \notin swept
        <3>1. at = "engine" /\ substring # NoWork
            BY Zenon, <1>2 DEF ResumeNativeSubstring
        <3>2. /\ substring \in Retained /\ ~mt /\ work = NoWork /\ finalizer = 0
              /\ ip <= Len(code) /\ Instruction.op = "substring"
              /\ substring.ip = ip /\ substring.height = Len(stack) /\ substring.source \notin swept
            BY Zenon, <3>1 DEF LoopInv, SubstringInv, Instruction
        <3>3. substring.frames = 1
            BY <3>2 DEF Retained
        <3> QED BY Zenon, <3>1, <3>2, <3>3
    <2>2. /\ AdvanceNativeSubstring(stack, substring) /\ at' = "top" /\ Counted
          /\ UNCHANGED <<work, engine, outcome, Others>>
        BY <1>2, <2>1 DEF ResumeNativeSubstring
    <2>3. Clean(stack, swept)
        BY DEF LoopInv, LiveInv
    <2>4. \/ /\ substring' \in Retained /\ stack' = stack /\ ip' = ip
             /\ substring'.ip = ip /\ substring'.height = Len(stack) /\ substring'.source \notin swept
          \/ /\ substring' = NoWork /\ Clean(stack', swept) /\ ip' = ip + 1
        BY <2>1, <2>2, <2>3, AdvanceFacts
    <2> QED BY <2>1, <2>2, <2>3, <2>4, AdvancedStep
<1> QED BY <1>1, <1>2

(* The end of the program's frame, or of a finalizer above it: the run is over
   once nothing is left to finalize. *)
LEMMA ReturnStep ==
    ASSUME LoopInv, at = "batch", work = NoWork, ReturnFromEntry, Counted,
           UNCHANGED <<program, engine, finalization, world>>,
           finalizer' = 0, ip' = Returned, Clean(stack', swept)
    PROVE  LoopInv'
<1>1. UNCHANGED <<program, due, swept, executed, sincePoll>> /\ stop' = stop
    BY DEF finalization, world, engine
<1>c. code' = code /\ mt' = mt /\ Returned' = Returned
    BY <1>1 DEF code, mt, Returned
<1>2. ip \in Nat /\ ip <= Returned /\ Returned \in Nat /\ 1 <= Returned /\ due \in Nat
    BY CodeFacts DEF LoopInv, TypeInv
<1>3. late' \in Nat /\ late' <= PollInterval /\ (~stop => late' = 0)
    BY PollPositive DEF LoopInv, TypeInv, LateInv, Counted
<1>4. substring = NoWork /\ outcome = "running"
    BY DEF LoopInv, SubstringInv, EndInv
<1>5. \/ at' = "top" /\ outcome' = "running" /\ substring' = NoWork /\ work' = NoWork
      \/ at' = "done" /\ outcome' = "exited" /\ substring' = NoWork /\ work' = NoWork /\ due' = 0
    BY <1>1, <1>2, <1>4 DEF ReturnFromEntry, Done
<1>6. TypeInv'
    <2>1. ip' \in Nat /\ 1 <= ip' /\ ip' <= Returned'
        BY <1>2, <1>c
    <2>2. at' \in Places
        BY Zenon, <1>5 DEF Places
    <2> QED BY <1>1, <1>3, <2>1, <2>2 DEF LoopInv, TypeInv
<1>7. WorkInv' /\ SubstringInv'
    BY Zenon, <1>5 DEF WorkInv, SubstringInv
<1>8. LiveInv'
    <2>1. swept \subseteq 1..(ip - 1)
        BY DEF LoopInv, LiveInv
    <2>2. swept' \subseteq 1..(ip' - 1)
        BY <1>1, <1>2, <2>1
    <2> QED BY <1>1, <2>2 DEF LiveInv
<1>9. LateInv'
    BY <1>1, <1>c, <1>3, <1>5 DEF LoopInv, LateInv
<1>10. EndInv'
    BY <1>5, <1>c DEF EndInv
<1> QED BY <1>6, <1>7, <1>8, <1>9, <1>10 DEF LoopInv

(* ret, and the steps of a finalizer, keep the invariant. *)
LEMMA FrameStep == LoopInv /\ (RetInstruction \/ FinalizerStep) => LoopInv'
<1> SUFFICES ASSUME LoopInv, RetInstruction \/ FinalizerStep PROVE LoopInv'
    OBVIOUS
<1>1. CASE RetInstruction
    <2>1. Ready("ret")
        BY <1>1 DEF RetInstruction
    <2>2. at = "batch" /\ finalizer = 0 /\ Clean(stack, swept) /\ work = NoWork
        BY <2>1, ReadyFacts DEF Looping
    <2>3. /\ ReturnFromEntry /\ Counted /\ UNCHANGED <<program, engine, finalization, world>>
          /\ finalizer' = 0 /\ ip' = Returned
        BY <1>1, <2>2 DEF RetInstruction, Others
    <2>4. Clean(stack', swept)
        BY <1>1, <2>2, ResultClean DEF RetInstruction
    <2> QED BY <2>2, <2>3, <2>4, ReturnStep
<1>2. CASE FinalizerStep
    <2>1. /\ at = "batch" /\ finalizer \in Nat /\ finalizer > 0 /\ finalizer' = finalizer - 1
          /\ UNCHANGED <<program, ip, stack, memory, finalization, world>>
        BY <1>2 DEF FinalizerStep, LoopInv, TypeInv
    <2>2. work = NoWork /\ Clean(stack, swept)
        BY <2>1 DEF LoopInv, WorkInv, LiveInv
    <2>3. CASE finalizer' = 0 /\ ip = Returned
        <3>1. Counted /\ ReturnFromEntry /\ UNCHANGED engine
            BY Zenon, <1>2, <2>3 DEF FinalizerStep
        <3>2. Clean(stack', swept) /\ ip' = Returned
            BY <2>1, <2>2, <2>3
        <3> QED BY <2>1, <2>2, <2>3, <3>1, <3>2, ReturnStep
    <2>4. CASE ~(finalizer' = 0 /\ ip = Returned)
        <3>1. ContinueBatch /\ UNCHANGED <<outcome, substring, work>>
            BY <1>2, <2>4 DEF FinalizerStep
        <3>2. UNCHANGED <<program, due, swept, ip, stack>> /\ stop' = stop
            BY <2>1 DEF finalization, world
        <3>c. code' = code /\ mt' = mt /\ Returned' = Returned
            BY <3>2 DEF code, mt, Returned
        <3>3. /\ at' \in {"top", "batch"} /\ executed' \in Nat /\ sincePoll' \in Nat /\ late' \in Nat
              /\ LateInv'
            BY <2>1, <3>1, <3>2, TurnedLate DEF Turned
        <3>4. finalizer' \in Nat
            BY <2>1
        <3>5. TypeInv'
            BY Zenon, <3>2, <3>c, <3>3, <3>4 DEF LoopInv, TypeInv, Places
        <3>6. substring = NoWork /\ outcome = "running"
            BY <2>1 DEF LoopInv, SubstringInv, EndInv
        <3>7. WorkInv' /\ SubstringInv' /\ EndInv'
            <4>1. work' = NoWork /\ substring' = NoWork /\ outcome' = "running" /\ at' # "done"
                BY <2>2, <3>1, <3>3, <3>6
            <4>2. WorkInv' /\ SubstringInv'
                BY Zenon, <4>1 DEF WorkInv, SubstringInv
            <4>3. EndInv'
                BY <4>1 DEF EndInv
            <4> QED BY Zenon, <4>2, <4>3
        <3>8. LiveInv'
            BY <3>2 DEF LoopInv, LiveInv
        <3> QED BY <3>3, <3>5, <3>7, <3>8 DEF LoopInv
    <2> QED BY <2>3, <2>4
<1> QED BY <1>1, <1>2

-----------------------------------------------------------------------------
(* The theorems. *)

(* Every step keeps the invariant. *)
LEMMA NextLoopInv == LoopInv /\ [CodeNext]_codeVars => LoopInv'
<1> SUFFICES ASSUME LoopInv, [CodeNext]_codeVars PROVE LoopInv'
    OBVIOUS
<1>1. CASE Execute
    BY <1>1, PlainStep, PopStep, PoppedStep, PeekedStep, RetainedStep, FrameStep DEF Execute
<1>2. CASE UNCHANGED codeVars
    <2>1. /\ UNCHANGED <<program, at, ip, stack, work, substring, executed, sincePoll, finalizer>>
          /\ UNCHANGED <<due, swept, late, outcome>> /\ stop' = stop
        BY <1>2 DEF codeVars, execution, engine, finalization, world
    <2>c. code' = code /\ mt' = mt /\ Returned' = Returned
        BY <2>1 DEF code, mt, Returned
    <2>2. TypeInv' /\ WorkInv' /\ SubstringInv' /\ LiveInv' /\ EndInv'
        BY Zenon, <2>1, <2>c DEF LoopInv, TypeInv, WorkInv, SubstringInv, LiveInv, EndInv
    <2>3. LateInv'
        BY <2>1, <2>c DEF LoopInv, LateInv
    <2> QED BY <2>2, <2>3 DEF LoopInv
<1> QED BY <1>1, <1>2, LoopStep, RuntimeStep DEF CodeNext

(* The invariant holds in every state of every run. *)
LEMMA InvariantHolds == CodeSpec => []LoopInv
BY InitLoopInv, NextLoopInv, PTL DEF CodeSpec

(* Whatever program runs and wherever collections come in between, those of this
   executor and those of a thread that has stopped it, no object that is on the
   evaluation stack or the source of a retained Substring is ever swept
   (collection_check, perform_full_gc, CallState::substring). *)
THEOREM OperandsStayLive == CodeSpec => []OperandsLive
<1>1. LoopInv => OperandsLive
    BY Zenon DEF LoopInv, LiveInv, Clean, SubstringInv, OperandsLive
<1> QED BY <1>1, InvariantHolds, PTL

(* However a run is stopped, finalized and aborted, resume_native_substring never
   finds the caller's frame changed; the run is reported as exited only after the
   program has returned and every finalizer due has run; and no copy is retained
   when it is over (Executor::run, complete_entrypoint_return). *)
THEOREM RunsEndInOrder == CodeSpec => []EndsInOrder
<1>1. LoopInv => EndsInOrder
    BY DEF LoopInv, EndInv, EndsInOrder
<1> QED BY <1>1, InvariantHolds, PTL

(* A thread that is to stop runs at most DOTNET_SAFE_POINT_POLL_INTERVAL more
   instructions or chunks of one, whatever its program, the size of its batches
   and of its copies (ExecutionEngine::run, the chunked intrinsics). *)
THEOREM StopsAreSeenInTime == CodeSpec => []StopSeenInTime
<1>1. LoopInv => StopSeenInTime
    BY DEF LoopInv, LateInv, StopSeenInTime
<1> QED BY <1>1, InvariantHolds, PTL
=============================================================================
