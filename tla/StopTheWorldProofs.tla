------------------------ MODULE StopTheWorldProofs ------------------------
(***************************************************************************)
(* Proofs about StopTheWorld for every number of threads, collections and  *)
(* rounds: its type invariant, the safe-point counter, the coordinator's   *)
(* assertions, and that a marked thread stays parked for the session.      *)
(***************************************************************************)
EXTENDS StopTheWorld, FiniteSetTheorems, TLAPS

c == collectionLock

(* Who holds a lock, and where the holder can be. *)
LockInv ==
    /\ \A t \in Threads : pc[t] \in SessionAt => collectionLock = t
    /\ \A t \in Threads : pc[t] \in GuardAt \cup {"count"} => gcCoordination = t
    /\ collectionLock # None => pc[c] \in SessionAt \cup ParkedAt \cup {"leaving"}
    /\ stwInProgress <=> collectionLock # None

(* An arena is registered from the end of Executor::new to Executor::drop. *)
ArenaInv ==
    \A t \in Threads : t \in arenas <=> pc[t] \notin {"unborn", "registered", "dropped", "exited"}

(* A pending command is the open session's, and the session has not passed its
   arena yet. *)
CommandInv ==
    /\ \A a \in Threads : cmd[a] # NoCommand =>
         /\ a \in arenas /\ collectionLock # None /\ a # c
         /\ pc[c] \in CollectingAt \cup {"finish"}
         /\ cmd[a] = phase
         /\ pc[c] = "dispatch" => a \notin todo
         /\ pc[c] = "finish" => c \in panicked
    /\ collectionLock # None /\ pc[c] = "dispatch" => c \notin todo
    /\ collectionLock # None /\ pc[c] \in {"own", "await"} => todo = {}
    /\ \A t \in Threads : pc[t] \in {"executing", "executed"} => cmd[t] # NoCommand /\ stopRequested
    /\ \A t \in Threads : pc[t] = "executed" /\ cmd[t] = "MarkAll" => t \in marked

(* How far the session's marking has come. *)
MarkInv ==
    collectionLock # None =>
        /\ marked # {} => pc[c] \in CollectingAt \cup {"finish"}
        /\ \A a \in cohort \cup marked : pc[a] \notin {"unborn", "registered"}
        /\ pc[c] \in CollectingAt => phase # NoCommand
        /\ pc[c] \notin CollectingAt \cup {"finish"} => phase = NoCommand
        /\ pc[c] \in CollectingAt => \A a \in (cohort \cap arenas) \ panicked :
             \/ a \in marked
             \/ /\ phase = "MarkAll"
                /\ \/ cmd[a] = "MarkAll"
                   \/ pc[c] = "dispatch" /\ a \in todo
                   \/ a = c /\ pc[c] \in {"dispatch", "own"}

IInv ==
    /\ TypeOK
    /\ CounterCoversParked
    /\ LockInv
    /\ ArenaInv
    /\ CommandInv
    /\ MarkInv
    /\ MarkedBeforeSweep
    /\ MarkedThreadsStayParked

-----------------------------------------------------------------------------
(* Helpers *)

USE NoneIsNoThread, FaultyAreThreads, BoundsAreNat
USE DEF NoCommand, Commands, Places, ParkedAt, GuardAt, SessionAt, CollectingAt, Goto, c

(* The threads inside safe_point are finitely many, before and after a step. *)
LEMMA CountedFinite == /\ IsFiniteSet(Counted) /\ Cardinality(Counted) \in Nat
                       /\ IsFiniteSet(Counted') /\ Cardinality(Counted') \in Nat
  <1>1. Counted \subseteq Threads /\ Counted' \subseteq Threads
    BY DEF Counted
  <1> QED BY <1>1, ThreadsFinite, FS_Subset, FS_CardinalityType

(* A thread inside safe_point keeps threads_at_safepoint above zero. *)
LEMMA CounterPositive ==
  ASSUME TypeOK, CounterCoversParked, NEW t \in Counted
  PROVE  atSafepoint > 0
  <1>1. Cardinality(Counted) # 0
    BY CountedFinite, FS_EmptySet
  <1> QED BY <1>1, CountedFinite DEF CounterCoversParked, TypeOK

(* A step that lets nobody in and leaves the counter alone keeps it sufficient. *)
LEMMA CounterKept ==
  ASSUME TypeOK, CounterCoversParked, Counted' \subseteq Counted, atSafepoint' = atSafepoint
  PROVE  CounterCoversParked'
  <1>1. Cardinality(Counted') <= Cardinality(Counted)
    BY CountedFinite, FS_Subset
  <1> QED BY <1>1, CountedFinite DEF CounterCoversParked, TypeOK

(* One thread in, one up. *)
LEMMA CounterRaised ==
  ASSUME TypeOK, CounterCoversParked, NEW t \in Threads,
         Counted' \subseteq Counted \cup {t}, atSafepoint' = atSafepoint + 1
  PROVE  CounterCoversParked'
  <1>1. /\ IsFiniteSet(Counted \cup {t})
        /\ Cardinality(Counted \cup {t}) \in Nat
        /\ Cardinality(Counted \cup {t}) <= Cardinality(Counted) + 1
    <2>1. /\ IsFiniteSet(Counted \cup {t})
          /\ \/ Cardinality(Counted \cup {t}) = Cardinality(Counted)
             \/ Cardinality(Counted \cup {t}) = Cardinality(Counted) + 1
      BY SMTT(30), CountedFinite, FS_AddElement
    <2> QED BY <2>1, CountedFinite
  <1>2. Cardinality(Counted') <= Cardinality(Counted \cup {t})
    BY <1>1, FS_Subset
  <1> QED BY <1>1, <1>2, CountedFinite DEF CounterCoversParked, TypeOK

(* One thread out, one down. *)
LEMMA CounterLowered ==
  ASSUME TypeOK, CounterCoversParked, NEW t \in Counted,
         Counted' \subseteq Counted \ {t}, atSafepoint' = atSafepoint - 1
  PROVE  CounterCoversParked'
  <1>1. /\ IsFiniteSet(Counted \ {t})
        /\ Cardinality(Counted \ {t}) = Cardinality(Counted) - 1
    BY CountedFinite, FS_RemoveElement
  <1>2. Cardinality(Counted') <= Cardinality(Counted \ {t})
    BY <1>1, FS_Subset
  <1> QED BY <1>1, <1>2, CountedFinite, CounterPositive DEF CounterCoversParked, TypeOK

-----------------------------------------------------------------------------
(* The inductive invariant *)

(* It holds of an empty ThreadManager and an idle GCCoordinator. *)
LEMMA InitInv == Init => IInv
  <1> SUFFICES ASSUME Init PROVE IInv
    OBVIOUS
  <1>1. Counted = {}
    BY DEF Init, Counted
  <1>2. CounterCoversParked
    BY <1>1, FS_EmptySet DEF Init, CounterCoversParked
  <1>3. TypeOK
    <2>1. cmd \in [Threads -> Commands \cup {NoCommand}] /\ pc \in [Threads -> Places]
      BY DEF Init
    <2>2. rounds \in 0..MaxRounds /\ collections \in 0..MaxCollections /\ atSafepoint \in Nat
      BY DEF Init
    <2> QED BY Zenon, <2>1, <2>2 DEF Init, TypeOK
  <1>4. LockInv /\ ArenaInv /\ CommandInv
    BY DEF Init, LockInv, ArenaInv, CommandInv
  <1>5. MarkInv /\ MarkedBeforeSweep /\ MarkedThreadsStayParked
    BY DEF Init, MarkInv, MarkedBeforeSweep, MarkedThreadsStayParked
  <1> QED BY <1>2, <1>3, <1>4, <1>5 DEF IInv

(* RegisterThread preserves it. *)
LEMMA RegisterThreadPreserves ==
  ASSUME IInv, NEW t \in Threads, RegisterThread(t)
  PROVE  IInv'
  <1>2. TypeOK'
    BY DEF IInv, TypeOK, RegisterThread, shared, session
  <1>3. CounterCoversParked'
    <2>1. Counted' \subseteq Counted /\ atSafepoint' = atSafepoint
      BY DEF IInv, TypeOK, Counted, RegisterThread, shared, session
    <2> QED BY <2>1, CounterKept DEF IInv
  <1>4. LockInv'
    BY DEF IInv, TypeOK, LockInv, CommandInv, RegisterThread, shared, session
  <1>5. ArenaInv'
    BY DEF IInv, TypeOK, LockInv, ArenaInv, CommandInv, RegisterThread, shared, session
  <1>6. CommandInv'
    BY DEF IInv, TypeOK, LockInv, ArenaInv, CommandInv, MarkInv, RegisterThread, shared, session
  <1>7. MarkInv'
    BY DEF IInv, TypeOK, LockInv, ArenaInv, CommandInv, MarkInv, RegisterThread, shared, session
  <1>8. MarkedBeforeSweep'
    BY DEF IInv, TypeOK, LockInv, ArenaInv, CommandInv, MarkInv, MarkedBeforeSweep, RegisterThread, shared, session
  <1>9. MarkedThreadsStayParked'
    BY DEF IInv, TypeOK, LockInv, ArenaInv, CommandInv, MarkInv, MarkedThreadsStayParked, RegisterThread, shared, session
  <1> QED BY <1>2, <1>3, <1>4, <1>5, <1>6, <1>7, <1>8, <1>9 DEF IInv

(* RegisterArena preserves it. *)
LEMMA RegisterArenaPreserves ==
  ASSUME IInv, NEW t \in Threads, RegisterArena(t)
  PROVE  IInv'
  <1>2. TypeOK'
    BY DEF IInv, TypeOK, RegisterArena, shared, session
  <1>3. CounterCoversParked'
    <2>1. Counted' \subseteq Counted /\ atSafepoint' = atSafepoint
      BY DEF IInv, TypeOK, Counted, RegisterArena, shared, session
    <2> QED BY <2>1, CounterKept DEF IInv
  <1>4. LockInv'
    BY DEF IInv, TypeOK, LockInv, CommandInv, RegisterArena, shared, session
  <1>5. ArenaInv'
    BY DEF IInv, TypeOK, LockInv, ArenaInv, CommandInv, RegisterArena, shared, session
  <1>6. CommandInv'
    BY DEF IInv, TypeOK, LockInv, ArenaInv, CommandInv, MarkInv, RegisterArena, shared, session
  <1>7. MarkInv'
    BY DEF IInv, TypeOK, LockInv, ArenaInv, CommandInv, MarkInv, RegisterArena, shared, session
  <1>8. MarkedBeforeSweep'
    BY DEF IInv, TypeOK, LockInv, ArenaInv, CommandInv, MarkInv, MarkedBeforeSweep, RegisterArena, shared, session
  <1>9. MarkedThreadsStayParked'
    BY DEF IInv, TypeOK, LockInv, ArenaInv, CommandInv, MarkInv, MarkedThreadsStayParked, RegisterArena, shared, session
  <1> QED BY <1>2, <1>3, <1>4, <1>5, <1>6, <1>7, <1>8, <1>9 DEF IInv

(* ExitRun preserves it. *)
LEMMA ExitRunPreserves ==
  ASSUME IInv, NEW t \in Threads, ExitRun(t)
  PROVE  IInv'
  <1>2. TypeOK'
    BY DEF IInv, TypeOK, ExitRun, shared, session
  <1>3. CounterCoversParked'
    <2>1. Counted' \subseteq Counted /\ atSafepoint' = atSafepoint
      BY DEF IInv, TypeOK, Counted, ExitRun, shared, session
    <2> QED BY <2>1, CounterKept DEF IInv
  <1>4. LockInv'
    BY DEF IInv, TypeOK, LockInv, CommandInv, ExitRun, shared, session
  <1>5. ArenaInv'
    BY DEF IInv, TypeOK, LockInv, ArenaInv, CommandInv, ExitRun, shared, session
  <1>6. CommandInv'
    BY DEF IInv, TypeOK, LockInv, ArenaInv, CommandInv, MarkInv, ExitRun, shared, session
  <1>7. MarkInv'
    BY DEF IInv, TypeOK, LockInv, ArenaInv, CommandInv, MarkInv, ExitRun, shared, session
  <1>8. MarkedBeforeSweep'
    BY DEF IInv, TypeOK, LockInv, ArenaInv, CommandInv, MarkInv, MarkedBeforeSweep, ExitRun, shared, session
  <1>9. MarkedThreadsStayParked'
    BY DEF IInv, TypeOK, LockInv, ArenaInv, CommandInv, MarkInv, MarkedThreadsStayParked, ExitRun, shared, session
  <1> QED BY <1>2, <1>3, <1>4, <1>5, <1>6, <1>7, <1>8, <1>9 DEF IInv

(* UnregisterArena preserves it. *)
LEMMA UnregisterArenaPreserves ==
  ASSUME IInv, NEW t \in Threads, UnregisterArena(t)
  PROVE  IInv'
  <1>2. TypeOK'
    BY DEF IInv, TypeOK, UnregisterArena, shared, session
  <1>3. CounterCoversParked'
    <2>1. Counted' \subseteq Counted /\ atSafepoint' = atSafepoint
      BY DEF IInv, TypeOK, Counted, UnregisterArena, shared, session
    <2> QED BY <2>1, CounterKept DEF IInv
  <1>4. LockInv'
    BY DEF IInv, TypeOK, LockInv, CommandInv, UnregisterArena, shared, session
  <1>5. ArenaInv'
    BY DEF IInv, TypeOK, LockInv, ArenaInv, CommandInv, UnregisterArena, shared, session
  <1>6. CommandInv'
    BY DEF IInv, TypeOK, LockInv, ArenaInv, CommandInv, MarkInv, UnregisterArena, shared, session
  <1>7. MarkInv'
    BY DEF IInv, TypeOK, LockInv, ArenaInv, CommandInv, MarkInv, UnregisterArena, shared, session
  <1>8. MarkedBeforeSweep'
    BY DEF IInv, TypeOK, LockInv, ArenaInv, CommandInv, MarkInv, MarkedBeforeSweep, UnregisterArena, shared, session
  <1>9. MarkedThreadsStayParked'
    BY DEF IInv, TypeOK, LockInv, ArenaInv, CommandInv, MarkInv, MarkedThreadsStayParked, UnregisterArena, shared, session
  <1> QED BY <1>2, <1>3, <1>4, <1>5, <1>6, <1>7, <1>8, <1>9 DEF IInv

(* UnregisterThread preserves it. *)
LEMMA UnregisterThreadPreserves ==
  ASSUME IInv, NEW t \in Threads, UnregisterThread(t)
  PROVE  IInv'
  <1>2. TypeOK'
    BY DEF IInv, TypeOK, UnregisterThread, shared, session
  <1>3. CounterCoversParked'
    <2>1. Counted' \subseteq Counted /\ atSafepoint' = atSafepoint
      BY DEF IInv, TypeOK, Counted, UnregisterThread, shared, session
    <2> QED BY <2>1, CounterKept DEF IInv
  <1>4. LockInv'
    BY DEF IInv, TypeOK, LockInv, CommandInv, UnregisterThread, shared, session
  <1>5. ArenaInv'
    BY DEF IInv, TypeOK, LockInv, ArenaInv, CommandInv, UnregisterThread, shared, session
  <1>6. CommandInv'
    BY DEF IInv, TypeOK, LockInv, ArenaInv, CommandInv, MarkInv, UnregisterThread, shared, session
  <1>7. MarkInv'
    BY DEF IInv, TypeOK, LockInv, ArenaInv, CommandInv, MarkInv, UnregisterThread, shared, session
  <1>8. MarkedBeforeSweep'
    BY DEF IInv, TypeOK, LockInv, ArenaInv, CommandInv, MarkInv, MarkedBeforeSweep, UnregisterThread, shared, session
  <1>9. MarkedThreadsStayParked'
    BY DEF IInv, TypeOK, LockInv, ArenaInv, CommandInv, MarkInv, MarkedThreadsStayParked, UnregisterThread, shared, session
  <1> QED BY <1>2, <1>3, <1>4, <1>5, <1>6, <1>7, <1>8, <1>9 DEF IInv

(* BeginCollection preserves it. *)
LEMMA BeginCollectionPreserves ==
  ASSUME IInv, NEW t \in Threads, BeginCollection(t)
  PROVE  IInv'
  <1>2. TypeOK'
    <2>1. collections' \in 0..MaxCollections
      BY DEF IInv, TypeOK, BeginCollection
    <2>2. CASE collectionLock # None
      BY <2>1, <2>2 DEF IInv, TypeOK, BeginCollection, shared, session
    <2>3. CASE collectionLock = None
      BY <2>1, <2>3 DEF IInv, TypeOK, BeginCollection, shared, session
    <2> QED BY <2>2, <2>3
  <1>3. CounterCoversParked'
    <2>1. Counted' \subseteq Counted /\ atSafepoint' = atSafepoint
      BY DEF IInv, TypeOK, Counted, BeginCollection, shared, session
    <2> QED BY <2>1, CounterKept DEF IInv
  <1>4. LockInv'
    BY DEF IInv, TypeOK, LockInv, CommandInv, BeginCollection, shared, session
  <1>5. ArenaInv'
    BY DEF IInv, TypeOK, LockInv, ArenaInv, CommandInv, BeginCollection, shared, session
  <1>6. CommandInv'
    BY DEF IInv, TypeOK, LockInv, ArenaInv, CommandInv, MarkInv, BeginCollection, shared, session
  <1>7. MarkInv'
    BY DEF IInv, TypeOK, LockInv, ArenaInv, CommandInv, MarkInv, BeginCollection, shared, session
  <1>8. MarkedBeforeSweep'
    BY DEF IInv, TypeOK, LockInv, ArenaInv, CommandInv, MarkInv, MarkedBeforeSweep, BeginCollection, shared, session
  <1>9. MarkedThreadsStayParked'
    BY DEF IInv, TypeOK, LockInv, ArenaInv, CommandInv, MarkInv, MarkedThreadsStayParked, BeginCollection, shared, session
  <1> QED BY <1>2, <1>3, <1>4, <1>5, <1>6, <1>7, <1>8, <1>9 DEF IInv

(* NoCollection preserves it. *)
LEMMA NoCollectionPreserves ==
  ASSUME IInv, NEW t \in Threads, NoCollection(t)
  PROVE  IInv'
  <1>2. TypeOK'
    BY DEF IInv, TypeOK, NoCollection, shared, session
  <1>3. CounterCoversParked'
    <2>1. Counted' \subseteq Counted /\ atSafepoint' = atSafepoint
      BY DEF IInv, TypeOK, Counted, NoCollection, shared, session
    <2> QED BY <2>1, CounterKept DEF IInv
  <1>4. LockInv'
    BY DEF IInv, TypeOK, LockInv, CommandInv, NoCollection, shared, session
  <1>5. ArenaInv'
    BY DEF IInv, TypeOK, LockInv, ArenaInv, CommandInv, NoCollection, shared, session
  <1>6. CommandInv'
    BY DEF IInv, TypeOK, LockInv, ArenaInv, CommandInv, MarkInv, NoCollection, shared, session
  <1>7. MarkInv'
    BY DEF IInv, TypeOK, LockInv, ArenaInv, CommandInv, MarkInv, NoCollection, shared, session
  <1>8. MarkedBeforeSweep'
    BY DEF IInv, TypeOK, LockInv, ArenaInv, CommandInv, MarkInv, MarkedBeforeSweep, NoCollection, shared, session
  <1>9. MarkedThreadsStayParked'
    BY DEF IInv, TypeOK, LockInv, ArenaInv, CommandInv, MarkInv, MarkedThreadsStayParked, NoCollection, shared, session
  <1> QED BY <1>2, <1>3, <1>4, <1>5, <1>6, <1>7, <1>8, <1>9 DEF IInv

(* Poll preserves it. *)
LEMMA PollPreserves ==
  ASSUME IInv, NEW t \in Threads, Poll(t)
  PROVE  IInv'
  <1>2. TypeOK'
    BY DEF IInv, TypeOK, Poll, shared, session
  <1>3. CounterCoversParked'
    <2>1. CASE stopRequested
      <3>1. Counted' \subseteq Counted \cup {t} /\ atSafepoint' = atSafepoint + 1
        BY <2>1 DEF IInv, TypeOK, Counted, Poll, shared, session
      <3> QED BY <3>1, CounterRaised DEF IInv
    <2>2. CASE ~(stopRequested)
      <3>1. Counted' \subseteq Counted /\ atSafepoint' = atSafepoint
        BY <2>2 DEF IInv, TypeOK, Counted, Poll, shared, session
      <3> QED BY <3>1, CounterKept DEF IInv
    <2> QED BY <2>1, <2>2
  <1>4. LockInv'
    BY DEF IInv, TypeOK, LockInv, CommandInv, Poll, shared, session
  <1>5. ArenaInv'
    BY DEF IInv, TypeOK, LockInv, ArenaInv, CommandInv, Poll, shared, session
  <1>6. CommandInv'
    BY DEF IInv, TypeOK, LockInv, ArenaInv, CommandInv, MarkInv, Poll, shared, session
  <1>7. MarkInv'
    BY DEF IInv, TypeOK, LockInv, ArenaInv, CommandInv, MarkInv, Poll, shared, session
  <1>8. MarkedBeforeSweep'
    BY DEF IInv, TypeOK, LockInv, ArenaInv, CommandInv, MarkInv, MarkedBeforeSweep, Poll, shared, session
  <1>9. MarkedThreadsStayParked'
    BY DEF IInv, TypeOK, LockInv, ArenaInv, CommandInv, MarkInv, MarkedThreadsStayParked, Poll, shared, session
  <1> QED BY <1>2, <1>3, <1>4, <1>5, <1>6, <1>7, <1>8, <1>9 DEF IInv

(* EnterBatch preserves it. *)
LEMMA EnterBatchPreserves ==
  ASSUME IInv, NEW t \in Threads, EnterBatch(t)
  PROVE  IInv'
  <1>2. TypeOK'
    BY DEF IInv, TypeOK, EnterBatch, shared, session
  <1>3. CounterCoversParked'
    <2>1. Counted' \subseteq Counted /\ atSafepoint' = atSafepoint
      BY DEF IInv, TypeOK, Counted, EnterBatch, shared, session
    <2> QED BY <2>1, CounterKept DEF IInv
  <1>4. LockInv'
    BY DEF IInv, TypeOK, LockInv, CommandInv, EnterBatch, shared, session
  <1>5. ArenaInv'
    BY DEF IInv, TypeOK, LockInv, ArenaInv, CommandInv, EnterBatch, shared, session
  <1>6. CommandInv'
    BY DEF IInv, TypeOK, LockInv, ArenaInv, CommandInv, MarkInv, EnterBatch, shared, session
  <1>7. MarkInv'
    BY DEF IInv, TypeOK, LockInv, ArenaInv, CommandInv, MarkInv, EnterBatch, shared, session
  <1>8. MarkedBeforeSweep'
    BY DEF IInv, TypeOK, LockInv, ArenaInv, CommandInv, MarkInv, MarkedBeforeSweep, EnterBatch, shared, session
  <1>9. MarkedThreadsStayParked'
    BY DEF IInv, TypeOK, LockInv, ArenaInv, CommandInv, MarkInv, MarkedThreadsStayParked, EnterBatch, shared, session
  <1> QED BY <1>2, <1>3, <1>4, <1>5, <1>6, <1>7, <1>8, <1>9 DEF IInv

(* LeaveBatch preserves it. *)
LEMMA LeaveBatchPreserves ==
  ASSUME IInv, NEW t \in Threads, LeaveBatch(t)
  PROVE  IInv'
  <1>2. TypeOK'
    BY DEF IInv, TypeOK, LeaveBatch, shared, session
  <1>3. CounterCoversParked'
    <2>1. Counted' \subseteq Counted /\ atSafepoint' = atSafepoint
      BY DEF IInv, TypeOK, Counted, LeaveBatch, shared, session
    <2> QED BY <2>1, CounterKept DEF IInv
  <1>4. LockInv'
    BY DEF IInv, TypeOK, LockInv, CommandInv, LeaveBatch, shared, session
  <1>5. ArenaInv'
    BY DEF IInv, TypeOK, LockInv, ArenaInv, CommandInv, LeaveBatch, shared, session
  <1>6. CommandInv'
    BY DEF IInv, TypeOK, LockInv, ArenaInv, CommandInv, MarkInv, LeaveBatch, shared, session
  <1>7. MarkInv'
    BY DEF IInv, TypeOK, LockInv, ArenaInv, CommandInv, MarkInv, LeaveBatch, shared, session
  <1>8. MarkedBeforeSweep'
    BY DEF IInv, TypeOK, LockInv, ArenaInv, CommandInv, MarkInv, MarkedBeforeSweep, LeaveBatch, shared, session
  <1>9. MarkedThreadsStayParked'
    BY DEF IInv, TypeOK, LockInv, ArenaInv, CommandInv, MarkInv, MarkedThreadsStayParked, LeaveBatch, shared, session
  <1> QED BY <1>2, <1>3, <1>4, <1>5, <1>6, <1>7, <1>8, <1>9 DEF IInv

(* CheckCommand preserves it. *)
LEMMA CheckCommandPreserves ==
  ASSUME IInv, NEW t \in Threads, CheckCommand(t)
  PROVE  IInv'
  <1>2. TypeOK'
    BY DEF IInv, TypeOK, CheckCommand, shared, session
  <1>3. CounterCoversParked'
    <2>1. Counted' \subseteq Counted /\ atSafepoint' = atSafepoint
      BY DEF IInv, TypeOK, Counted, CheckCommand, shared, session
    <2> QED BY <2>1, CounterKept DEF IInv
  <1>4. LockInv'
    BY DEF IInv, TypeOK, LockInv, CommandInv, CheckCommand, shared, session
  <1>5. ArenaInv'
    BY DEF IInv, TypeOK, LockInv, ArenaInv, CommandInv, CheckCommand, shared, session
  <1>6. CommandInv'
    BY DEF IInv, TypeOK, LockInv, ArenaInv, CommandInv, MarkInv, CheckCommand, shared, session
  <1>7. MarkInv'
    BY DEF IInv, TypeOK, LockInv, ArenaInv, CommandInv, MarkInv, CheckCommand, shared, session
  <1>8. MarkedBeforeSweep'
    BY DEF IInv, TypeOK, LockInv, ArenaInv, CommandInv, MarkInv, MarkedBeforeSweep, CheckCommand, shared, session
  <1>9. MarkedThreadsStayParked'
    BY DEF IInv, TypeOK, LockInv, ArenaInv, CommandInv, MarkInv, MarkedThreadsStayParked, CheckCommand, shared, session
  <1> QED BY <1>2, <1>3, <1>4, <1>5, <1>6, <1>7, <1>8, <1>9 DEF IInv

(* WaitForSignal preserves it. *)
LEMMA WaitForSignalPreserves ==
  ASSUME IInv, NEW t \in Threads, WaitForSignal(t)
  PROVE  IInv'
  <1>2. TypeOK'
    BY DEF IInv, TypeOK, WaitForSignal, shared, session
  <1>3. CounterCoversParked'
    <2>1. Counted' \subseteq Counted /\ atSafepoint' = atSafepoint
      BY DEF IInv, TypeOK, Counted, WaitForSignal, shared, session
    <2> QED BY <2>1, CounterKept DEF IInv
  <1>4. LockInv'
    BY DEF IInv, TypeOK, LockInv, CommandInv, WaitForSignal, shared, session
  <1>5. ArenaInv'
    BY DEF IInv, TypeOK, LockInv, ArenaInv, CommandInv, WaitForSignal, shared, session
  <1>6. CommandInv'
    BY DEF IInv, TypeOK, LockInv, ArenaInv, CommandInv, MarkInv, WaitForSignal, shared, session
  <1>7. MarkInv'
    BY DEF IInv, TypeOK, LockInv, ArenaInv, CommandInv, MarkInv, WaitForSignal, shared, session
  <1>8. MarkedBeforeSweep'
    BY DEF IInv, TypeOK, LockInv, ArenaInv, CommandInv, MarkInv, MarkedBeforeSweep, WaitForSignal, shared, session
  <1>9. MarkedThreadsStayParked'
    BY DEF IInv, TypeOK, LockInv, ArenaInv, CommandInv, MarkInv, MarkedThreadsStayParked, WaitForSignal, shared, session
  <1> QED BY <1>2, <1>3, <1>4, <1>5, <1>6, <1>7, <1>8, <1>9 DEF IInv

(* ExecuteCommand preserves it. *)
LEMMA ExecuteCommandPreserves ==
  ASSUME IInv, NEW t \in Threads, ExecuteCommand(t)
  PROVE  IInv'
  <1>2. TypeOK'
    BY DEF IInv, TypeOK, ExecuteCommand, RunCommand, shared, session
  <1>3. CounterCoversParked'
    <2>1. Counted' \subseteq Counted /\ atSafepoint' = atSafepoint
      BY DEF IInv, TypeOK, Counted, ExecuteCommand, RunCommand, shared, session
    <2> QED BY <2>1, CounterKept DEF IInv
  <1>4. LockInv'
    BY DEF IInv, TypeOK, LockInv, CommandInv, ExecuteCommand, RunCommand, shared, session
  <1>5. ArenaInv'
    BY DEF IInv, TypeOK, LockInv, ArenaInv, CommandInv, ExecuteCommand, RunCommand, shared, session
  <1>6. CommandInv'
    BY DEF IInv, TypeOK, LockInv, ArenaInv, CommandInv, MarkInv, ExecuteCommand, RunCommand, shared, session
  <1>7. MarkInv'
    BY DEF IInv, TypeOK, LockInv, ArenaInv, CommandInv, MarkInv, ExecuteCommand, RunCommand, shared, session
  <1>8. MarkedBeforeSweep'
    BY DEF IInv, TypeOK, LockInv, ArenaInv, CommandInv, MarkInv, MarkedBeforeSweep, ExecuteCommand, RunCommand, shared, session
  <1>9. MarkedThreadsStayParked'
    BY DEF IInv, TypeOK, LockInv, ArenaInv, CommandInv, MarkInv, MarkedThreadsStayParked, ExecuteCommand, RunCommand, shared, session
  <1> QED BY <1>2, <1>3, <1>4, <1>5, <1>6, <1>7, <1>8, <1>9 DEF IInv

(* CommandFinished preserves it. *)
LEMMA CommandFinishedPreserves ==
  ASSUME IInv, NEW t \in Threads, CommandFinished(t)
  PROVE  IInv'
  <1>2. TypeOK'
    BY DEF IInv, TypeOK, CommandFinished, shared, session
  <1>3. CounterCoversParked'
    <2>1. Counted' \subseteq Counted /\ atSafepoint' = atSafepoint
      BY DEF IInv, TypeOK, Counted, CommandFinished, shared, session
    <2> QED BY <2>1, CounterKept DEF IInv
  <1>4. LockInv'
    BY DEF IInv, TypeOK, LockInv, CommandInv, CommandFinished, shared, session
  <1>5. ArenaInv'
    BY DEF IInv, TypeOK, LockInv, ArenaInv, CommandInv, CommandFinished, shared, session
  <1>6. CommandInv'
    BY DEF IInv, TypeOK, LockInv, ArenaInv, CommandInv, MarkInv, CommandFinished, shared, session
  <1>7. MarkInv'
    BY DEF IInv, TypeOK, LockInv, ArenaInv, CommandInv, MarkInv, CommandFinished, shared, session
  <1>8. MarkedBeforeSweep'
    BY DEF IInv, TypeOK, LockInv, ArenaInv, CommandInv, MarkInv, MarkedBeforeSweep, CommandFinished, shared, session
  <1>9. MarkedThreadsStayParked'
    BY DEF IInv, TypeOK, LockInv, ArenaInv, CommandInv, MarkInv, MarkedThreadsStayParked, CommandFinished, shared, session
  <1> QED BY <1>2, <1>3, <1>4, <1>5, <1>6, <1>7, <1>8, <1>9 DEF IInv

(* CommandPanics preserves it. *)
LEMMA CommandPanicsPreserves ==
  ASSUME IInv, NEW t \in Threads, CommandPanics(t)
  PROVE  IInv'
  <1>2. TypeOK'
    BY DEF IInv, TypeOK, CommandPanics, shared, session
  <1>3. CounterCoversParked'
    <2>1. Counted' \subseteq Counted /\ atSafepoint' = atSafepoint
      BY DEF IInv, TypeOK, Counted, CommandPanics, shared, session
    <2> QED BY <2>1, CounterKept DEF IInv
  <1>4. LockInv'
    BY DEF IInv, TypeOK, LockInv, CommandInv, CommandPanics, shared, session
  <1>5. ArenaInv'
    BY DEF IInv, TypeOK, LockInv, ArenaInv, CommandInv, CommandPanics, shared, session
  <1>6. CommandInv'
    BY DEF IInv, TypeOK, LockInv, ArenaInv, CommandInv, MarkInv, CommandPanics, shared, session
  <1>7. MarkInv'
    BY DEF IInv, TypeOK, LockInv, ArenaInv, CommandInv, MarkInv, CommandPanics, shared, session
  <1>8. MarkedBeforeSweep'
    BY DEF IInv, TypeOK, LockInv, ArenaInv, CommandInv, MarkInv, MarkedBeforeSweep, CommandPanics, shared, session
  <1>9. MarkedThreadsStayParked'
    BY DEF IInv, TypeOK, LockInv, ArenaInv, CommandInv, MarkInv, MarkedThreadsStayParked, CommandPanics, shared, session
  <1> QED BY <1>2, <1>3, <1>4, <1>5, <1>6, <1>7, <1>8, <1>9 DEF IInv

(* LeaveSafePoint preserves it. *)
LEMMA LeaveSafePointPreserves ==
  ASSUME IInv, NEW t \in Threads, LeaveSafePoint(t)
  PROVE  IInv'
  <1>1. t \in Counted /\ atSafepoint > 0
    BY CounterPositive DEF IInv, Counted, LeaveSafePoint
  <1>2. TypeOK'
    BY <1>1 DEF IInv, TypeOK, LeaveSafePoint, shared, session
  <1>3. CounterCoversParked'
    <2>1. Counted' \subseteq Counted \ {t}
      BY DEF IInv, TypeOK, Counted, LeaveSafePoint, shared, session
    <2>2. atSafepoint' = atSafepoint - 1
      BY DEF LeaveSafePoint
    <2> QED BY <1>1, <2>1, <2>2, CounterLowered DEF IInv
  <1>4. LockInv'
    BY DEF IInv, TypeOK, LockInv, CommandInv, LeaveSafePoint, shared, session
  <1>5. ArenaInv'
    BY DEF IInv, TypeOK, LockInv, ArenaInv, CommandInv, LeaveSafePoint, shared, session
  <1>6. CommandInv'
    BY DEF IInv, TypeOK, LockInv, ArenaInv, CommandInv, MarkInv, LeaveSafePoint, shared, session
  <1>7. MarkInv'
    BY DEF IInv, TypeOK, LockInv, ArenaInv, CommandInv, MarkInv, LeaveSafePoint, shared, session
  <1>8. MarkedBeforeSweep'
    BY DEF IInv, TypeOK, LockInv, ArenaInv, CommandInv, MarkInv, MarkedBeforeSweep, LeaveSafePoint, shared, session
  <1>9. MarkedThreadsStayParked'
    BY DEF IInv, TypeOK, LockInv, ArenaInv, CommandInv, MarkInv, MarkedThreadsStayParked, LeaveSafePoint, shared, session
  <1> QED BY <1>2, <1>3, <1>4, <1>5, <1>6, <1>7, <1>8, <1>9 DEF IInv

(* RequestStop preserves it. *)
LEMMA RequestStopPreserves ==
  ASSUME IInv, NEW t \in Threads, RequestStop(t)
  PROVE  IInv'
  <1>2. TypeOK'
    BY DEF IInv, TypeOK, RequestStop, shared, session
  <1>3. CounterCoversParked'
    <2>1. Counted' \subseteq Counted /\ atSafepoint' = atSafepoint
      BY DEF IInv, TypeOK, Counted, RequestStop, shared, session
    <2> QED BY <2>1, CounterKept DEF IInv
  <1>4. LockInv'
    BY DEF IInv, TypeOK, LockInv, CommandInv, RequestStop, shared, session
  <1>5. ArenaInv'
    BY DEF IInv, TypeOK, LockInv, ArenaInv, CommandInv, RequestStop, shared, session
  <1>6. CommandInv'
    BY DEF IInv, TypeOK, LockInv, ArenaInv, CommandInv, MarkInv, RequestStop, shared, session
  <1>7. MarkInv'
    BY DEF IInv, TypeOK, LockInv, ArenaInv, CommandInv, MarkInv, RequestStop, shared, session
  <1>8. MarkedBeforeSweep'
    BY DEF IInv, TypeOK, LockInv, ArenaInv, CommandInv, MarkInv, MarkedBeforeSweep, RequestStop, shared, session
  <1>9. MarkedThreadsStayParked'
    BY DEF IInv, TypeOK, LockInv, ArenaInv, CommandInv, MarkInv, MarkedThreadsStayParked, RequestStop, shared, session
  <1> QED BY <1>2, <1>3, <1>4, <1>5, <1>6, <1>7, <1>8, <1>9 DEF IInv

(* AcquireCoordination preserves it. *)
LEMMA AcquireCoordinationPreserves ==
  ASSUME IInv, NEW t \in Threads, AcquireCoordination(t)
  PROVE  IInv'
  <1>2. TypeOK'
    BY DEF IInv, TypeOK, AcquireCoordination, shared, session
  <1>3. CounterCoversParked'
    <2>1. CASE gcCoordination # None
      <3>1. Counted' \subseteq Counted \cup {t} /\ atSafepoint' = atSafepoint + 1
        BY <2>1 DEF IInv, TypeOK, Counted, AcquireCoordination, shared, session
      <3> QED BY <3>1, CounterRaised DEF IInv
    <2>2. CASE ~(gcCoordination # None)
      <3>1. Counted' \subseteq Counted /\ atSafepoint' = atSafepoint
        BY <2>2 DEF IInv, TypeOK, Counted, AcquireCoordination, shared, session
      <3> QED BY <3>1, CounterKept DEF IInv
    <2> QED BY <2>1, <2>2
  <1>4. LockInv'
    BY DEF IInv, TypeOK, LockInv, CommandInv, AcquireCoordination, shared, session
  <1>5. ArenaInv'
    BY DEF IInv, TypeOK, LockInv, ArenaInv, CommandInv, AcquireCoordination, shared, session
  <1>6. CommandInv'
    BY DEF IInv, TypeOK, LockInv, ArenaInv, CommandInv, MarkInv, AcquireCoordination, shared, session
  <1>7. MarkInv'
    BY DEF IInv, TypeOK, LockInv, ArenaInv, CommandInv, MarkInv, AcquireCoordination, shared, session
  <1>8. MarkedBeforeSweep'
    BY DEF IInv, TypeOK, LockInv, ArenaInv, CommandInv, MarkInv, MarkedBeforeSweep, AcquireCoordination, shared, session
  <1>9. MarkedThreadsStayParked'
    BY DEF IInv, TypeOK, LockInv, ArenaInv, CommandInv, MarkInv, MarkedThreadsStayParked, AcquireCoordination, shared, session
  <1> QED BY <1>2, <1>3, <1>4, <1>5, <1>6, <1>7, <1>8, <1>9 DEF IInv

(* CountStopped preserves it. *)
LEMMA CountStoppedPreserves ==
  ASSUME IInv, NEW t \in Threads, CountStopped(t)
  PROVE  IInv'
  <1>2. TypeOK'
    BY DEF IInv, TypeOK, CountStopped, shared, session
  <1>3. CounterCoversParked'
    <2>1. Counted' \subseteq Counted /\ atSafepoint' = atSafepoint
      BY DEF IInv, TypeOK, Counted, CountStopped, shared, session
    <2> QED BY <2>1, CounterKept DEF IInv
  <1>4. LockInv'
    BY DEF IInv, TypeOK, LockInv, CommandInv, CountStopped, shared, session
  <1>5. ArenaInv'
    BY DEF IInv, TypeOK, LockInv, ArenaInv, CommandInv, CountStopped, shared, session
  <1>6. CommandInv'
    BY DEF IInv, TypeOK, LockInv, ArenaInv, CommandInv, MarkInv, CountStopped, shared, session
  <1>7. MarkInv'
    BY DEF IInv, TypeOK, LockInv, ArenaInv, CommandInv, MarkInv, CountStopped, shared, session
  <1>8. MarkedBeforeSweep'
    BY DEF IInv, TypeOK, LockInv, ArenaInv, CommandInv, MarkInv, MarkedBeforeSweep, CountStopped, shared, session
  <1>9. MarkedThreadsStayParked'
    BY DEF IInv, TypeOK, LockInv, ArenaInv, CommandInv, MarkInv, MarkedThreadsStayParked, CountStopped, shared, session
  <1> QED BY <1>2, <1>3, <1>4, <1>5, <1>6, <1>7, <1>8, <1>9 DEF IInv

(* Dispatch preserves it. *)
LEMMA DispatchPreserves ==
  ASSUME IInv, NEW t \in Threads, Dispatch(t)
  PROVE  IInv'
  <1>2. TypeOK'
    BY DEF IInv, TypeOK, Dispatch, shared, session
  <1>3. CounterCoversParked'
    <2>1. Counted' \subseteq Counted /\ atSafepoint' = atSafepoint
      BY DEF IInv, TypeOK, Counted, Dispatch, shared, session
    <2> QED BY <2>1, CounterKept DEF IInv
  <1>4. LockInv'
    BY DEF IInv, TypeOK, LockInv, CommandInv, Dispatch, shared, session
  <1>5. ArenaInv'
    BY DEF IInv, TypeOK, LockInv, ArenaInv, CommandInv, Dispatch, shared, session
  <1>6. CommandInv'
    BY DEF IInv, TypeOK, LockInv, ArenaInv, CommandInv, MarkInv, Dispatch, shared, session
  <1>7. MarkInv'
    BY DEF IInv, TypeOK, LockInv, ArenaInv, CommandInv, MarkInv, Dispatch, shared, session
  <1>8. MarkedBeforeSweep'
    BY DEF IInv, TypeOK, LockInv, ArenaInv, CommandInv, MarkInv, MarkedBeforeSweep, Dispatch, shared, session
  <1>9. MarkedThreadsStayParked'
    BY DEF IInv, TypeOK, LockInv, ArenaInv, CommandInv, MarkInv, MarkedThreadsStayParked, Dispatch, shared, session
  <1> QED BY <1>2, <1>3, <1>4, <1>5, <1>6, <1>7, <1>8, <1>9 DEF IInv

(* ExecuteOwn preserves it. *)
LEMMA ExecuteOwnPreserves ==
  ASSUME IInv, NEW t \in Threads, ExecuteOwn(t)
  PROVE  IInv'
  <1>2. TypeOK'
    BY DEF IInv, TypeOK, ExecuteOwn, RunCommand, shared, session
  <1>3. CounterCoversParked'
    <2>1. Counted' \subseteq Counted /\ atSafepoint' = atSafepoint
      BY DEF IInv, TypeOK, Counted, ExecuteOwn, RunCommand, shared, session
    <2> QED BY <2>1, CounterKept DEF IInv
  <1>4. LockInv'
    BY DEF IInv, TypeOK, LockInv, CommandInv, ExecuteOwn, RunCommand, shared, session
  <1>5. ArenaInv'
    BY DEF IInv, TypeOK, LockInv, ArenaInv, CommandInv, ExecuteOwn, RunCommand, shared, session
  <1>6. CommandInv'
    BY DEF IInv, TypeOK, LockInv, ArenaInv, CommandInv, MarkInv, ExecuteOwn, RunCommand, shared, session
  <1>7. MarkInv'
    BY DEF IInv, TypeOK, LockInv, ArenaInv, CommandInv, MarkInv, ExecuteOwn, RunCommand, shared, session
  <1>8. MarkedBeforeSweep'
    BY DEF IInv, TypeOK, LockInv, ArenaInv, CommandInv, MarkInv, MarkedBeforeSweep, ExecuteOwn, RunCommand, shared, session
  <1>9. MarkedThreadsStayParked'
    BY DEF IInv, TypeOK, LockInv, ArenaInv, CommandInv, MarkInv, MarkedThreadsStayParked, ExecuteOwn, RunCommand, shared, session
  <1> QED BY <1>2, <1>3, <1>4, <1>5, <1>6, <1>7, <1>8, <1>9 DEF IInv

(* OwnCommandPanics preserves it. *)
LEMMA OwnCommandPanicsPreserves ==
  ASSUME IInv, NEW t \in Threads, OwnCommandPanics(t)
  PROVE  IInv'
  <1>2. TypeOK'
    BY DEF IInv, TypeOK, OwnCommandPanics, shared, session
  <1>3. CounterCoversParked'
    <2>1. Counted' \subseteq Counted /\ atSafepoint' = atSafepoint
      BY DEF IInv, TypeOK, Counted, OwnCommandPanics, shared, session
    <2> QED BY <2>1, CounterKept DEF IInv
  <1>4. LockInv'
    BY DEF IInv, TypeOK, LockInv, CommandInv, OwnCommandPanics, shared, session
  <1>5. ArenaInv'
    BY DEF IInv, TypeOK, LockInv, ArenaInv, CommandInv, OwnCommandPanics, shared, session
  <1>6. CommandInv'
    BY DEF IInv, TypeOK, LockInv, ArenaInv, CommandInv, MarkInv, OwnCommandPanics, shared, session
  <1>7. MarkInv'
    BY DEF IInv, TypeOK, LockInv, ArenaInv, CommandInv, MarkInv, OwnCommandPanics, shared, session
  <1>8. MarkedBeforeSweep'
    BY DEF IInv, TypeOK, LockInv, ArenaInv, CommandInv, MarkInv, MarkedBeforeSweep, OwnCommandPanics, shared, session
  <1>9. MarkedThreadsStayParked'
    BY DEF IInv, TypeOK, LockInv, ArenaInv, CommandInv, MarkInv, MarkedThreadsStayParked, OwnCommandPanics, shared, session
  <1> QED BY <1>2, <1>3, <1>4, <1>5, <1>6, <1>7, <1>8, <1>9 DEF IInv

(* AwaitOthers preserves it. *)
LEMMA AwaitOthersPreserves ==
  ASSUME IInv, NEW t \in Threads, AwaitOthers(t)
  PROVE  IInv'
  <1>2. TypeOK'
    BY DEF IInv, TypeOK, AwaitOthers, OthersDone, shared, session
  <1>3. CounterCoversParked'
    <2>1. Counted' \subseteq Counted /\ atSafepoint' = atSafepoint
      BY DEF IInv, TypeOK, Counted, AwaitOthers, OthersDone, shared, session
    <2> QED BY <2>1, CounterKept DEF IInv
  <1>4. LockInv'
    BY DEF IInv, TypeOK, LockInv, CommandInv, AwaitOthers, OthersDone, shared, session
  <1>5. ArenaInv'
    BY DEF IInv, TypeOK, LockInv, ArenaInv, CommandInv, AwaitOthers, OthersDone, shared, session
  <1>6. CommandInv'
    BY DEF IInv, TypeOK, LockInv, ArenaInv, CommandInv, MarkInv, AwaitOthers, OthersDone, shared, session
  <1>7. MarkInv'
    BY DEF IInv, TypeOK, LockInv, ArenaInv, CommandInv, MarkInv, AwaitOthers, OthersDone, shared, session
  <1>8. MarkedBeforeSweep'
    BY DEF IInv, TypeOK, LockInv, ArenaInv, CommandInv, MarkInv, MarkedBeforeSweep, AwaitOthers, OthersDone, shared, session
  <1>9. MarkedThreadsStayParked'
    BY DEF IInv, TypeOK, LockInv, ArenaInv, CommandInv, MarkInv, MarkedThreadsStayParked, AwaitOthers, OthersDone, shared, session
  <1> QED BY <1>2, <1>3, <1>4, <1>5, <1>6, <1>7, <1>8, <1>9 DEF IInv

(* FinishSession preserves it. *)
LEMMA FinishSessionPreserves ==
  ASSUME IInv, NEW t \in Threads, FinishSession(t)
  PROVE  IInv'
  <1>2. TypeOK'
    BY Zenon DEF IInv, TypeOK, FinishSession, NoPendingCommands, shared, session
  <1>3. CounterCoversParked'
    <2>1. Counted' \subseteq Counted /\ atSafepoint' = atSafepoint
      BY DEF IInv, TypeOK, Counted, FinishSession, NoPendingCommands, shared, session
    <2> QED BY <2>1, CounterKept DEF IInv
  <1>4. LockInv'
    BY DEF IInv, TypeOK, LockInv, CommandInv, FinishSession, NoPendingCommands, shared, session
  <1>5. ArenaInv'
    BY DEF IInv, TypeOK, LockInv, ArenaInv, CommandInv, FinishSession, NoPendingCommands, shared, session
  <1>6. CommandInv'
    BY DEF IInv, TypeOK, LockInv, ArenaInv, CommandInv, MarkInv, FinishSession, NoPendingCommands, shared, session
  <1>7. MarkInv'
    BY DEF IInv, TypeOK, LockInv, ArenaInv, CommandInv, MarkInv, FinishSession, NoPendingCommands, shared, session
  <1>8. MarkedBeforeSweep'
    BY DEF IInv, TypeOK, LockInv, ArenaInv, CommandInv, MarkInv, MarkedBeforeSweep, FinishSession, NoPendingCommands, shared, session
  <1>9. MarkedThreadsStayParked'
    BY DEF IInv, TypeOK, LockInv, ArenaInv, CommandInv, MarkInv, MarkedThreadsStayParked, FinishSession, NoPendingCommands, shared, session
  <1> QED BY <1>2, <1>3, <1>4, <1>5, <1>6, <1>7, <1>8, <1>9 DEF IInv

(* ResumeThreads preserves it. *)
LEMMA ResumeThreadsPreserves ==
  ASSUME IInv, NEW t \in Threads, ResumeThreads(t)
  PROVE  IInv'
  <1>2. TypeOK'
    BY Zenon DEF IInv, TypeOK, ResumeThreads, shared, session
  <1>3. CounterCoversParked'
    <2>1. Counted' \subseteq Counted /\ atSafepoint' = atSafepoint
      BY DEF IInv, TypeOK, Counted, ResumeThreads, shared, session
    <2> QED BY <2>1, CounterKept DEF IInv
  <1>4. LockInv'
    BY DEF IInv, TypeOK, LockInv, CommandInv, ResumeThreads, shared, session
  <1>5. ArenaInv'
    BY DEF IInv, TypeOK, LockInv, ArenaInv, CommandInv, ResumeThreads, shared, session
  <1>6. CommandInv'
    BY DEF IInv, TypeOK, LockInv, ArenaInv, CommandInv, MarkInv, ResumeThreads, shared, session
  <1>7. MarkInv'
    BY DEF IInv, TypeOK, LockInv, ArenaInv, CommandInv, MarkInv, ResumeThreads, shared, session
  <1>8. MarkedBeforeSweep'
    BY DEF IInv, TypeOK, LockInv, ArenaInv, CommandInv, MarkInv, MarkedBeforeSweep, ResumeThreads, shared, session
  <1>9. MarkedThreadsStayParked'
    BY DEF IInv, TypeOK, LockInv, ArenaInv, CommandInv, MarkInv, MarkedThreadsStayParked, ResumeThreads, shared, session
  <1> QED BY <1>2, <1>3, <1>4, <1>5, <1>6, <1>7, <1>8, <1>9 DEF IInv

(* NotifyResume preserves it. *)
LEMMA NotifyResumePreserves ==
  ASSUME IInv, NEW t \in Threads, NotifyResume(t)
  PROVE  IInv'
  <1>2. TypeOK'
    BY DEF IInv, TypeOK, NotifyResume, shared, session
  <1>3. CounterCoversParked'
    <2>1. Counted' \subseteq Counted /\ atSafepoint' = atSafepoint
      BY DEF IInv, TypeOK, Counted, NotifyResume, shared, session
    <2> QED BY <2>1, CounterKept DEF IInv
  <1>4. LockInv'
    BY DEF IInv, TypeOK, LockInv, CommandInv, NotifyResume, shared, session
  <1>5. ArenaInv'
    BY DEF IInv, TypeOK, LockInv, ArenaInv, CommandInv, NotifyResume, shared, session
  <1>6. CommandInv'
    BY DEF IInv, TypeOK, LockInv, ArenaInv, CommandInv, MarkInv, NotifyResume, shared, session
  <1>7. MarkInv'
    BY DEF IInv, TypeOK, LockInv, ArenaInv, CommandInv, MarkInv, NotifyResume, shared, session
  <1>8. MarkedBeforeSweep'
    BY DEF IInv, TypeOK, LockInv, ArenaInv, CommandInv, MarkInv, MarkedBeforeSweep, NotifyResume, shared, session
  <1>9. MarkedThreadsStayParked'
    BY DEF IInv, TypeOK, LockInv, ArenaInv, CommandInv, MarkInv, MarkedThreadsStayParked, NotifyResume, shared, session
  <1> QED BY <1>2, <1>3, <1>4, <1>5, <1>6, <1>7, <1>8, <1>9 DEF IInv

(* ReleaseCoordination preserves it. *)
LEMMA ReleaseCoordinationPreserves ==
  ASSUME IInv, NEW t \in Threads, ReleaseCoordination(t)
  PROVE  IInv'
  <1>2. TypeOK'
    BY DEF IInv, TypeOK, ReleaseCoordination, shared, session
  <1>3. CounterCoversParked'
    <2>1. Counted' \subseteq Counted /\ atSafepoint' = atSafepoint
      BY DEF IInv, TypeOK, Counted, ReleaseCoordination, shared, session
    <2> QED BY <2>1, CounterKept DEF IInv
  <1>4. LockInv'
    BY DEF IInv, TypeOK, LockInv, CommandInv, ReleaseCoordination, shared, session
  <1>5. ArenaInv'
    BY DEF IInv, TypeOK, LockInv, ArenaInv, CommandInv, ReleaseCoordination, shared, session
  <1>6. CommandInv'
    BY DEF IInv, TypeOK, LockInv, ArenaInv, CommandInv, MarkInv, ReleaseCoordination, shared, session
  <1>7. MarkInv'
    BY DEF IInv, TypeOK, LockInv, ArenaInv, CommandInv, MarkInv, ReleaseCoordination, shared, session
  <1>8. MarkedBeforeSweep'
    BY DEF IInv, TypeOK, LockInv, ArenaInv, CommandInv, MarkInv, MarkedBeforeSweep, ReleaseCoordination, shared, session
  <1>9. MarkedThreadsStayParked'
    BY DEF IInv, TypeOK, LockInv, ArenaInv, CommandInv, MarkInv, MarkedThreadsStayParked, ReleaseCoordination, shared, session
  <1> QED BY <1>2, <1>3, <1>4, <1>5, <1>6, <1>7, <1>8, <1>9 DEF IInv

(* Every step of the protocol preserves it. *)
LEMMA NextInv == IInv /\ [Next]_vars => IInv'
  <1> SUFFICES ASSUME IInv, [Next]_vars PROVE IInv'
    OBVIOUS
  <1>1. CASE UNCHANGED vars
    <2>1. TypeOK' /\ CounterCoversParked'
      BY <1>1 DEF vars, shared, session, IInv, TypeOK, CounterCoversParked, Counted
    <2> QED BY <1>1, <2>1 DEF vars, shared, session, IInv, LockInv, ArenaInv, CommandInv, MarkInv,
                              MarkedBeforeSweep, MarkedThreadsStayParked
  <1>2. ASSUME NEW t \in Threads, Progress(t) \/ Choice(t) PROVE IInv'
    BY <1>2, RegisterThreadPreserves, RegisterArenaPreserves, ExitRunPreserves, UnregisterArenaPreserves,
       UnregisterThreadPreserves, BeginCollectionPreserves, NoCollectionPreserves, PollPreserves,
       EnterBatchPreserves, LeaveBatchPreserves, CheckCommandPreserves, WaitForSignalPreserves,
       ExecuteCommandPreserves, CommandFinishedPreserves, CommandPanicsPreserves, LeaveSafePointPreserves,
       RequestStopPreserves, AcquireCoordinationPreserves, CountStoppedPreserves, DispatchPreserves,
       ExecuteOwnPreserves, OwnCommandPanicsPreserves, AwaitOthersPreserves, FinishSessionPreserves,
       ResumeThreadsPreserves, NotifyResumePreserves, ReleaseCoordinationPreserves DEF Progress, Choice
  <1> QED BY <1>1, <1>2 DEF Next

(* Every reachable state satisfies the inductive invariant. *)
THEOREM Invariance == Spec => []IInv
  <1> QED BY InitInv, NextInv, PTL DEF Spec

(* All variables of the protocol keep their types; in particular the safe-point
   counter never wraps below zero. *)
THEOREM TypeCorrect == Spec => []TypeOK
  <1>1. IInv => TypeOK
    BY DEF IInv
  <1> QED BY <1>1, Invariance, PTL

(* threads_at_safepoint is never below the number of threads inside safe_point,
   whatever panics in between. *)
THEOREM CounterIsEnough == Spec => []CounterCoversParked
  <1>1. IInv => CounterCoversParked
    BY DEF IInv
  <1> QED BY <1>1, Invariance, PTL

(* No assertion of GCCoordinator fails on a session that is not unwinding. *)
THEOREM AssertionsHold == Spec => []CoordinatorAssertions
  <1>1. IInv => CoordinatorAssertions
    BY DEF IInv, LockInv, ArenaInv, CommandInv, NoPendingCommands, TypeOK, CoordinatorAssertions
  <1> QED BY <1>1, Invariance, PTL

(* No two arenas are ever at commands of different phases. *)
THEOREM PhaseBarrier == Spec => []PhasesDoNotOverlap
  <1>1. IInv => PhasesDoNotOverlap
    BY DEF IInv, LockInv, CommandInv, TypeOK, PhasesDoNotOverlap
  <1> QED BY <1>1, Invariance, PTL

(* Finalization and sweeping start only after every addressed arena has marked. *)
THEOREM MarkingPrecedesSweeping == Spec => []MarkedBeforeSweep
  <1>1. IInv => MarkedBeforeSweep
    BY DEF IInv
  <1> QED BY <1>1, Invariance, PTL

(* A thread that has marked stays in safe_point until its session ends. *)
THEOREM MarkedStaysParked == Spec => []MarkedThreadsStayParked
  <1>1. IInv => MarkedThreadsStayParked
    BY DEF IInv
  <1> QED BY <1>1, Invariance, PTL

(* Sessions and stop-the-world guards exclude each other. *)
THEOREM Exclusion == Spec => []OneCollector
  <1>1. IInv => OneCollector
    BY DEF IInv, LockInv, OneCollector
  <1> QED BY <1>1, Invariance, PTL

=============================================================================
