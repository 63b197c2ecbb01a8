----------------------------- MODULE LockOrder -----------------------------
(***************************************************************************)
(* The ordered locks of the runtime (dotnet-utils, sync/lock_order.rs) and *)
(* everything the runtime does with them: the coordinator, the thread      *)
(* manager, static initialization and the sync blocks.                     *)
(*                                                                         *)
(* Only locking is modelled.  An operation is the sequence of what it does *)
(* to locks and condition variables, in the order of the code; what the    *)
(* locks protect is left out, so every branch may be taken, a loop may end *)
(* after any turn and a sleeper may wake at any time.                      *)
(***************************************************************************)
EXTENDS Sequences

CONSTANTS
    Workers,   \* the threads, each with an arena of its own
    Nobody     \* no thread holds the lock

VARIABLES
    holder,    \* the thread that has each lock
    rest       \* what each thread has still to do of its operation

lockVars == <<holder, rest>>

-----------------------------------------------------------------------------
(* The levels of lock_order.rs, with one type and one sync block. *)

CollectionLock == <<"GCCoordinator::collection_lock">>
GcCoordination == <<"ThreadManager::gc_coordination">>
ThreadRegistry == <<"ThreadManager::threads">>
CoordinatorArenas == <<"GCCoordinator::arenas">>
ArenaCurrentCommand(t) == <<"ArenaHandle::current_command", t>>
CrossArenaRefs == <<"GCCoordinator::cross_arena_refs">>
StaticInitMutex == <<"StaticStorage::init_mutex">>
StaticWaitGraph == <<"StaticStorageManager::wait_graph">>
SyncBlocks == <<"SyncBlockManager::blocks">>
SyncNextIndex == <<"SyncBlockManager::next_index">>
SyncState == <<"SyncBlock::state">>
BackReference == <<"ThreadManager::coordinator">>   \* a mutex without a level

OrderedLocks ==
    {CollectionLock, GcCoordination, ThreadRegistry, CoordinatorArenas, CrossArenaRefs,
     StaticInitMutex, StaticWaitGraph, SyncBlocks, SyncNextIndex, SyncState, BackReference}
      \cup {ArenaCurrentCommand(t) : t \in Workers}

(* What a thread can do to a lock. *)
Lock(l) == [does |-> "lock", lock |-> l]          \* OrderedMutex::lock, lock_after
TryLock(l) == [does |-> "try_lock", lock |-> l]   \* or give up the whole operation
Spin(l, turn) == [does |-> "spin", lock |-> l, turn |-> turn]   \* try_lock until it succeeds
Unlock(l) == [does |-> "unlock", lock |-> l]      \* the guard is dropped
WaitOn(l) == [does |-> "wait", lock |-> l]          \* Condvar::wait or wait_for
Asleep(l) == [does |-> "asleep", lock |-> l]      \* and has released it

(* Sequences of them. *)
OneOf(branches) == <<[does |-> "branch", to |-> branches]>>
If(branch) == OneOf({branch, <<>>})
While(turn) == <<[does |-> "loop", turn |-> turn]>>
ForSome(S, Turn(_)) == While(OneOf({Turn(a) : a \in S}))
Section(l) == <<Lock(l), Unlock(l)>>
Sleep(l) == <<Lock(l)>> \o While(<<WaitOn(l)>>) \o <<Unlock(l)>>
-----------------------------------------------------------------------------
(* GCCoordinator: the arenas and their commands *)

AssertNoPendingCommands ==
    <<Lock(CoordinatorArenas)>>
      \o ForSome(Workers, LAMBDA a : Section(ArenaCurrentCommand(a)))
      \o <<Unlock(CoordinatorArenas)>>

RegisterArenaLocks == Section(CoordinatorArenas)

(* Mutant: the command is reset before the arena is removed, each under its own lock, the
   outer one still held. *)
UnregisterArenaInverted(t) ==
    <<Lock(ArenaCurrentCommand(t))>> \o Section(CoordinatorArenas) \o <<Unlock(ArenaCurrentCommand(t))>>
UnregisterArenaLocks(t) ==
    <<Lock(CoordinatorArenas)>> \o If(Section(ArenaCurrentCommand(t))) \o <<Unlock(CoordinatorArenas)>>

(* should_collect, when the hint is set; total_allocated, total_gc_allocation and
   arena_gc_pressure_snapshot always *)
ReadArenas == Section(CoordinatorArenas)

(* get_arena's guard is gone at the end of its statement, before the command is locked. *)
GetArena == Section(CoordinatorArenas)
HasCommand(t) == GetArena \o If(Section(ArenaCurrentCommand(t)))
CommandFinished(t) == GetArena \o If(Section(ArenaCurrentCommand(t)))
WaitForCommandOrResume(t) == GetArena \o If(Sleep(ArenaCurrentCommand(t)))
NotifyResume == Section(CoordinatorArenas)
RecordCrossArenaRef == Section(CrossArenaRefs)

-----------------------------------------------------------------------------
(* A collection session, with the collection lock held *)

EnterCollectingState == AssertNoPendingCommands
BeginCollection == <<TryLock(CollectionLock)>> \o EnterCollectingState
FinishCollection ==
    AssertNoPendingCommands \o Section(CoordinatorArenas) \o AssertNoPendingCommands
FinishSession == FinishCollection \o <<Unlock(CollectionLock)>>

(* MarkAll and MarkObjects record what they have found, the others take no lock. *)
ExecuteCommand == While(RecordCrossArenaRef)

SnapshotOtherArenas == Section(CoordinatorArenas)

(* Mutant: the snapshot's guard lives on while the collector waits. *)
WaitOnOtherArenasHolding(t) ==
    <<Lock(CoordinatorArenas)>>
      \o ForSome(Workers \ {t}, LAMBDA a : Sleep(ArenaCurrentCommand(a)))
      \o <<Unlock(CoordinatorArenas)>>
WaitOnOtherArenas(t) ==
    SnapshotOtherArenas \o ForSome(Workers \ {t}, LAMBDA a : Sleep(ArenaCurrentCommand(a)))

EnqueueCommand(a) == Section(ArenaCurrentCommand(a))
SendCommand(t) == SnapshotOtherArenas \o ForSome(Workers \ {t}, EnqueueCommand)
SendCommandAndWait(t) == SendCommand(t) \o ExecuteCommand \o WaitOnOtherArenas(t)

(* One round of the fixed point: dispatch, mark one's own, wait, look for more. *)
MarkRound(t) ==
    Section(CrossArenaRefs)
      \o ForSome(Workers \ {t}, LAMBDA a : GetArena \o If(EnqueueCommand(a)))
      \o If(HasCommand(t) \o ExecuteCommand)
      \o WaitOnOtherArenas(t) \o Section(CrossArenaRefs)
CollectAllArenas(t) ==
    GetArena \o Section(CrossArenaRefs)
      \o SendCommandAndWait(t) \o While(MarkRound(t)) \o If(Section(CrossArenaRefs))
      \o SendCommandAndWait(t) \o SendCommandAndWait(t)

-----------------------------------------------------------------------------
(* ThreadManager *)

RegisterThreadLocks == Section(ThreadRegistry)
UnregisterThreadLocks == Section(ThreadRegistry)
CurrentThreadId == If(Section(ThreadRegistry))     \* unless it is cached

SafePointLocks(t) ==
    Section(ThreadRegistry)
      \o If(While(WaitForCommandOrResume(t) \o ExecuteCommand \o CommandFinished(t))
              \o WaitForCommandOrResume(t))

(* A thread that finds the coordination lock taken may have to park for its holder. *)
AcquireCoordination(t) ==
    <<Spin(GcCoordination, CurrentThreadId \o If(Section(BackReference) \o If(SafePointLocks(t))))>>
RequestStopTheWorld(t) ==
    AcquireCoordination(t)
      \o While(Section(ThreadRegistry) \o If(Section(ThreadRegistry)) \o <<WaitOn(GcCoordination)>>)
      \o Section(ThreadRegistry)

(* StopTheWorldGuard::drop: the lock goes last. *)
ResumeThreads == Section(BackReference) \o If(NotifyResume)
DropStopGuard == ResumeThreads \o <<Unlock(GcCoordination)>>

(* GcCycleGuard::drop: the session is over before the threads are resumed. *)
DropGcCycle == FinishSession \o DropStopGuard

PerformFullGc(t) ==
    BeginCollection \o RequestStopTheWorld(t) \o CollectAllArenas(t) \o DropGcCycle

-----------------------------------------------------------------------------
(* Static initialization and monitors *)

StaticInitLocks ==
    <<Lock(StaticInitMutex)>> \o If(Section(StaticWaitGraph)) \o <<Unlock(StaticInitMutex)>>
MarkInitializedLocks == Section(StaticInitMutex)
WaitForInitLocks ==
    While(If(Section(StaticWaitGraph))
            \o <<Lock(StaticInitMutex)>> \o If(<<WaitOn(StaticInitMutex)>>) \o <<Unlock(StaticInitMutex)>>)
      \o If(Section(StaticWaitGraph)) \o Section(StaticWaitGraph)

GetOrCreateSyncBlock ==
    <<Lock(SyncBlocks)>> \o If(Section(SyncNextIndex)) \o <<Unlock(SyncBlocks)>>
EnterLocks == Sleep(SyncState)
EnterSafeLocks == While(<<Lock(SyncState)>> \o If(<<WaitOn(SyncState)>>) \o <<Unlock(SyncState)>>)
ExitLocks == Section(SyncState)

Operations(t) ==
    {RegisterArenaLocks, UnregisterArenaLocks(t), ReadArenas, RegisterThreadLocks,
     UnregisterThreadLocks, SafePointLocks(t), PerformFullGc(t), StaticInitLocks,
     MarkInitializedLocks, WaitForInitLocks, GetOrCreateSyncBlock, EnterLocks, EnterSafeLocks,
     ExitLocks}

-----------------------------------------------------------------------------
(* Threads *)

LocksInit ==
    /\ holder = [l \in OrderedLocks |-> Nobody]
    /\ rest = [t \in Workers |-> <<>>]

Doing(t, what) == rest[t] # <<>> /\ Head(rest[t]).does = what
Wanted(t) == Head(rest[t]).lock
Proceed(t, before) == rest' = [rest EXCEPT ![t] = before \o Tail(@)]
Hold(t, l) == holder' = [holder EXCEPT ![l] = t]

Start(t) ==
    /\ rest[t] = <<>>
    /\ \E op \in Operations(t) : rest' = [rest EXCEPT ![t] = op]
    /\ UNCHANGED holder

Acquire(t) ==
    /\ Doing(t, "lock") \/ Doing(t, "try_lock") \/ Doing(t, "spin")
    /\ holder[Wanted(t)] = Nobody
    /\ Hold(t, Wanted(t)) /\ Proceed(t, <<>>)

(* begin_collection returns nothing, and perform_full_gc does nothing *)
GiveUp(t) ==
    /\ Doing(t, "try_lock") /\ holder[Wanted(t)] # Nobody
    /\ rest' = [rest EXCEPT ![t] = <<>>]
    /\ UNCHANGED holder

SpinOnce(t) ==
    /\ Doing(t, "spin") /\ holder[Wanted(t)] # Nobody
    /\ Proceed(t, Head(rest[t]).turn \o <<Head(rest[t])>>)
    /\ UNCHANGED holder

Release(t) ==
    /\ Doing(t, "unlock")
    /\ Hold(Nobody, Wanted(t)) /\ Proceed(t, <<>>)

FallAsleep(t) ==
    /\ Doing(t, "wait")
    /\ Hold(Nobody, Wanted(t)) /\ Proceed(t, <<Asleep(Wanted(t))>>)

(* A sleeper takes its lock again before it goes on. *)
WakeUp(t) ==
    /\ Doing(t, "asleep")
    /\ Proceed(t, <<Lock(Wanted(t))>>)
    /\ UNCHANGED holder

Choose(t) ==
    /\ \/ Doing(t, "branch") /\ \E branch \in Head(rest[t]).to : Proceed(t, branch)
       \/ Doing(t, "loop") /\ Proceed(t, <<>>)
       \/ Doing(t, "loop") /\ Proceed(t, Head(rest[t]).turn \o <<Head(rest[t])>>)
    /\ UNCHANGED holder

LocksNext ==
    \E t \in Workers :
        \/ Start(t) \/ Acquire(t) \/ GiveUp(t) \/ SpinOnce(t) \/ Release(t)
        \/ FallAsleep(t) \/ WakeUp(t) \/ Choose(t)

-----------------------------------------------------------------------------
(* Waiting *)

Parked(t) == Doing(t, "asleep") /\ Wanted(t) = ArenaCurrentCommand(t)

(* t can go on only after u has: u holds the lock that t wants, or t sleeps until u is at
   a safe point, or until u has executed its command. *)
WaitsFor(t, u) ==
    \/ Doing(t, "lock") /\ holder[Wanted(t)] = u
    \/ Doing(t, "asleep") /\ Wanted(t) = GcCoordination /\ u # t /\ ~Parked(u)
    \/ Doing(t, "asleep") /\ u # t /\ Wanted(t) = ArenaCurrentCommand(u)

(* No thread waits for itself and no threads wait for one another in a circle: neither over
   locks that they take in different orders, nor because a thread that a collection is
   waiting for needs a lock that the collecting thread has kept (F8.LockOrderRespected).
   The types only look at the lock that is passed to lock_after: lock() is also called with
   other locks held, as enqueue_command_for_arena and resume_threads do. *)
NoCircularWait ==
    \A group \in SUBSET Workers \ {{}} :
        \E t \in group : \A u \in group : ~WaitsFor(t, u)
=============================================================================
