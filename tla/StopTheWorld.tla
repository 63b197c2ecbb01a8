---------------------------- MODULE StopTheWorld ----------------------------
(***************************************************************************)
(* The stop-the-world protocol: dotnet-vm's ThreadManager                  *)
(* (threading/basic.rs), GCCoordinator (gc/coordinator.rs) and the         *)
(* executor loop that drives both (executor.rs).                           *)
(*                                                                         *)
(* Each managed thread owns one arena and is modelled by a program counter *)
(* whose values name the points at which another thread can interfere:     *)
(* every atomic access or lock section that another thread observes is one *)
(* step.  A `current_command' mutex is held across two steps only between  *)
(* a parked thread's flag test and its condvar wait ("checked"), so its    *)
(* holder is read off the program counter.                                 *)
(***************************************************************************)
EXTENDS Naturals, FiniteSets

CONSTANTS
    Threads,         \* managed thread ids; an id is never recycled
    None,            \* no thread holds the lock
    Faulty,          \* threads whose GC command handler may panic
    MaxCollections,  \* bound: collection requests in a behaviour
    MaxRounds        \* bound: MarkObjects rounds of one collection

ASSUME ThreadsFinite == IsFiniteSet(Threads)
ASSUME NoneIsNoThread == None \notin Threads
ASSUME FaultyAreThreads == Faulty \subseteq Threads
ASSUME BoundsAreNat == MaxCollections \in Nat /\ MaxRounds \in Nat

VARIABLES
    threads,         \* ThreadManager::threads, the registered thread ids
    arenas,          \* GCCoordinator::arenas, the registered arenas
    stopRequested,   \* ThreadManager::gc_stop_requested
    atSafepoint,     \* ThreadManager::threads_at_safepoint
    gcCoordination,  \* holder of ThreadManager::gc_coordination
    collectionLock,  \* holder of GCCoordinator::collection_lock
    stwInProgress,   \* GCCoordinator::stw_in_progress
    cmd,             \* ArenaHandle::current_command of each thread's arena
    pc,              \* where each thread is
    phase,           \* the command the open session is at
    todo,            \* arenas it has still to send to, or to wait for
    rounds,          \* MarkObjects rounds of the open session
    marked,          \* arenas that have run MarkAll in the open session
    cohort,          \* arenas the open session addressed its MarkAll to
    panicked,        \* threads whose command handler has panicked
    collections,     \* collection requests so far
    aborted          \* the process died of a panic inside a destructor

shared == <<stopRequested, atSafepoint, gcCoordination, collectionLock, stwInProgress>>
session == <<phase, todo, rounds, marked, cohort>>
vars == <<threads, arenas, shared, cmd, pc, session, panicked, collections, aborted>>

NoCommand == "NoCommand"
Commands == {"MarkAll", "MarkObjects", "Finalize", "Sweep"}

(* Inside ThreadManager::safe_point, counted or about to be uncounted. *)
ParkedAt == {"parked", "checked", "waiting", "executing", "executed"}
(* Inside GCCoordinator::collect_all_arenas. *)
CollectingAt == {"dispatch", "own", "await"}
(* Holding the StopTheWorldGuard. *)
GuardAt == CollectingAt \cup {"finish", "resume", "notify", "unlock"}
(* Holding a CollectionSession. *)
SessionAt == CollectingAt \cup {"request", "acquire", "count", "finish"}
Places == ParkedAt \cup GuardAt \cup SessionAt \cup
          {"unborn", "registered", "loop", "poll", "ready", "step", "leaving",
           "drop", "dropped", "exited"}

Init ==
    /\ threads = {} /\ arenas = {}
    /\ stopRequested = FALSE /\ atSafepoint = 0
    /\ gcCoordination = None /\ collectionLock = None /\ stwInProgress = FALSE
    /\ cmd = [t \in Threads |-> NoCommand]
    /\ pc = [t \in Threads |-> "unborn"]
    /\ phase = NoCommand /\ todo = {} /\ rounds = 0 /\ marked = {} /\ cohort = {}
    /\ panicked = {} /\ collections = 0 /\ aborted = FALSE

Goto(t, place) == pc' = [pc EXCEPT ![t] = place]

-----------------------------------------------------------------------------
(* Executor::new and Executor::drop *)

(* register_thread: the thread is counted by later stop requests from here on. *)
RegisterThread(t) ==
    /\ pc[t] = "unborn"
    /\ threads' = threads \cup {t}
    /\ Goto(t, "registered")
    /\ UNCHANGED <<arenas, shared, cmd, session, panicked, collections, aborted>>

(* GCCoordinator::register_arena, the end of Executor::new. *)
RegisterArena(t) ==
    /\ pc[t] = "registered"
    /\ arenas' = arenas \cup {t}
    /\ Goto(t, "loop")
    /\ UNCHANGED <<threads, shared, cmd, session, panicked, collections, aborted>>

(* run returns, the executor is dropped *)
ExitRun(t) ==
    /\ pc[t] = "loop"
    /\ Goto(t, "drop")
    /\ UNCHANGED <<threads, arenas, shared, cmd, session, panicked, collections, aborted>>

(* Mutant: the arena stays in the coordinator's map, its command unfinished. *)
UnregisterArenaForgotten(t) ==
    /\ pc[t] = "drop"
    /\ Goto(t, "dropped")
    /\ UNCHANGED <<threads, arenas, shared, cmd, session, panicked, collections, aborted>>

(* Executor::drop, first half: unregister_arena drops the arena's command and
   signals its completion, so a collector never waits for a thread that left. *)
UnregisterArena(t) ==
    /\ pc[t] = "drop"
    /\ arenas' = arenas \ {t}
    /\ cmd' = [cmd EXCEPT ![t] = NoCommand]
    /\ Goto(t, "dropped")
    /\ UNCHANGED <<threads, shared, session, panicked, collections, aborted>>

UnregisterThread(t) ==
    /\ pc[t] = "dropped"
    /\ threads' = threads \ {t}
    /\ Goto(t, "exited")
    /\ UNCHANGED <<arenas, shared, cmd, session, panicked, collections, aborted>>

-----------------------------------------------------------------------------
(* Executor::run: collect if asked to, park if asked to, then run a batch *)

NoPendingCommands == \A a \in arenas : cmd[a] = NoCommand

(* begin_collection: a busy collection_lock makes perform_full_gc return at once. *)
BeginCollection(t) ==
    /\ pc[t] = "loop"
    /\ collections < MaxCollections
    /\ collections' = collections + 1
    /\ IF collectionLock # None
         THEN /\ Goto(t, "poll")
              /\ UNCHANGED <<shared, session>>
         ELSE /\ collectionLock' = t
              /\ stwInProgress' = TRUE
              /\ phase' = NoCommand /\ todo' = {} /\ rounds' = 0
              /\ marked' = {} /\ cohort' = {}
              /\ Goto(t, "request")
              /\ UNCHANGED <<stopRequested, atSafepoint, gcCoordination>>
    /\ UNCHANGED <<threads, arenas, cmd, panicked, aborted>>

NoCollection(t) ==
    /\ pc[t] = "loop"
    /\ Goto(t, "poll")
    /\ UNCHANGED <<threads, arenas, shared, cmd, session, panicked, collections, aborted>>

(* The loop's safe-point poll; safe_point marks the thread and counts it. *)
Poll(t) ==
    /\ pc[t] = "poll"
    /\ IF stopRequested
         THEN Goto(t, "parked") /\ atSafepoint' = atSafepoint + 1
         ELSE Goto(t, "ready") /\ UNCHANGED atSafepoint
    /\ UNCHANGED <<threads, arenas, stopRequested, gcCoordination, collectionLock,
                   stwInProgress, cmd, session, panicked, collections, aborted>>

(* ExecutionEngine::run polls once more before its first instruction. *)
EnterBatch(t) ==
    /\ pc[t] = "ready"
    /\ Goto(t, IF stopRequested THEN "loop" ELSE "step")
    /\ UNCHANGED <<threads, arenas, shared, cmd, session, panicked, collections, aborted>>

LeaveBatch(t) ==
    /\ pc[t] = "step"
    /\ Goto(t, "loop")
    /\ UNCHANGED <<threads, arenas, shared, cmd, session, panicked, collections, aborted>>

-----------------------------------------------------------------------------
(* safe_point: wait_for_command_or_resume, run the command, repeat *)

(* One turn of the wait loop under current_command: a vanished arena or a
   cleared flag ends the wait, a command is taken, otherwise the thread is about
   to wait and still holds the mutex. *)
CheckCommand(t) ==
    /\ pc[t] = "parked"
    /\ Goto(t, IF t \notin arenas \/ ~stopRequested THEN "leaving"
               ELSE IF cmd[t] # NoCommand THEN "executing" ELSE "checked")
    /\ UNCHANGED <<threads, arenas, shared, cmd, session, panicked, collections, aborted>>

(* Condvar::wait: release current_command and sleep until notified. *)
WaitForSignal(t) ==
    /\ pc[t] = "checked"
    /\ Goto(t, "waiting")
    /\ UNCHANGED <<threads, arenas, shared, cmd, session, panicked, collections, aborted>>

RunCommand(t, c) == marked' = IF c = "MarkAll" THEN marked \cup {t} ELSE marked

(* execute_gc_command_for_current_thread *)
ExecuteCommand(t) ==
    /\ pc[t] = "executing"
    /\ RunCommand(t, cmd[t])
    /\ Goto(t, "executed")
    /\ UNCHANGED <<threads, arenas, shared, cmd, phase, todo, rounds, cohort, panicked,
                   collections, aborted>>

(* Mutant: safe_point returns after one command. *)
CommandFinishedLeaves(t) ==
    /\ pc[t] = "executed"
    /\ cmd' = [cmd EXCEPT ![t] = NoCommand]
    /\ Goto(t, "leaving")
    /\ UNCHANGED <<threads, arenas, shared, session, panicked, collections, aborted>>

(* Mutant: finishing a command also takes the thread off the counter. *)
CommandFinishedUncounts(t) ==
    /\ pc[t] = "executed"
    /\ cmd' = [cmd EXCEPT ![t] = NoCommand]
    /\ atSafepoint' = atSafepoint - 1
    /\ Goto(t, "parked")
    /\ UNCHANGED <<threads, arenas, stopRequested, gcCoordination, collectionLock, stwInProgress,
                   session, panicked, collections, aborted>>

(* command_finished, then back to waiting. *)
CommandFinished(t) ==
    /\ pc[t] = "executed"
    /\ cmd' = [cmd EXCEPT ![t] = NoCommand]
    /\ Goto(t, "parked")
    /\ UNCHANGED <<threads, arenas, shared, session, panicked, collections, aborted>>

(* A handler that panics: CommandCompletionGuard completes the command, and the
   unwinding leaves safe_point without taking the thread off the counter. *)
CommandPanics(t) ==
    /\ pc[t] = "executing" /\ t \in Faulty
    /\ cmd' = [cmd EXCEPT ![t] = NoCommand]
    /\ panicked' = panicked \cup {t}
    /\ Goto(t, "drop")
    /\ UNCHANGED <<threads, arenas, shared, session, collections, aborted>>

(* safe_point's epilogue: off the counter and back to the caller, which is
   request_stop_the_world's lock loop or the executor loop. *)
LeaveSafePoint(t) ==
    /\ pc[t] = "leaving"
    /\ atSafepoint' = atSafepoint - 1
    /\ Goto(t, IF collectionLock = t THEN "acquire" ELSE "ready")
    /\ UNCHANGED <<threads, arenas, stopRequested, gcCoordination, collectionLock,
                   stwInProgress, cmd, session, panicked, collections, aborted>>

-----------------------------------------------------------------------------
(* request_stop_the_world *)

RequestStop(t) ==
    /\ pc[t] = "request"
    /\ stopRequested' = TRUE
    /\ Goto(t, "acquire")
    /\ UNCHANGED <<threads, arenas, atSafepoint, gcCoordination, collectionLock, stwInProgress,
                   cmd, session, panicked, collections, aborted>>

(* try_lock on gc_coordination; while the previous collector still holds it the
   caller polls safe_point itself and tries again. *)
AcquireCoordination(t) ==
    /\ pc[t] = "acquire"
    /\ \/ /\ gcCoordination = None
          /\ gcCoordination' = t
          /\ Goto(t, "count")
          /\ UNCHANGED atSafepoint
       \/ /\ gcCoordination # None /\ stopRequested
          /\ atSafepoint' = atSafepoint + 1
          /\ Goto(t, "parked")
          /\ UNCHANGED gcCoordination
    /\ UNCHANGED <<threads, arenas, stopRequested, collectionLock, stwInProgress, cmd, session,
                   panicked, collections, aborted>>

(* The counter is compared with the number of other registered threads, again
   every 10 ms until it suffices; collect_all_arenas then opens with MarkAll. *)
CountStopped(t) ==
    /\ pc[t] = "count"
    /\ atSafepoint >= Cardinality(threads \ {t})
    /\ phase' = "MarkAll" /\ todo' = arenas \ {t} /\ cohort' = arenas
    /\ Goto(t, "dispatch")
    /\ UNCHANGED <<threads, arenas, shared, cmd, rounds, marked, panicked, collections, aborted>>

-----------------------------------------------------------------------------
(* collect_all_arenas: each phase is sent, run locally, then awaited *)

(* enqueue_command_for_arena, which signals the arena's thread if it sleeps.  The
   slot of an arena that has left the map is read by nobody. *)
Dispatch(t) ==
    /\ pc[t] = "dispatch"
    /\ \/ \E a \in todo :
            /\ pc[a] # "checked"
            /\ cmd' = IF a \in arenas THEN [cmd EXCEPT ![a] = phase] ELSE cmd
            /\ pc' = IF pc[a] = "waiting" THEN [pc EXCEPT ![a] = "parked"] ELSE pc
            /\ todo' = todo \ {a}
       \/ /\ todo = {}
          /\ Goto(t, "own")
          /\ UNCHANGED <<cmd, todo>>
    /\ UNCHANGED <<threads, arenas, shared, phase, rounds, marked, cohort, panicked, collections,
                   aborted>>

(* Mutant: the collector does not run the commands it sends on its own arena. *)
ExecuteOwnSkipped(t) ==
    /\ pc[t] = "own"
    /\ Goto(t, "await")
    /\ UNCHANGED <<threads, arenas, shared, cmd, session, panicked, collections, aborted>>

ExecuteOwn(t) ==
    /\ pc[t] = "own"
    /\ RunCommand(t, phase)
    /\ Goto(t, "await")
    /\ UNCHANGED <<threads, arenas, shared, cmd, phase, todo, rounds, cohort, panicked,
                   collections, aborted>>

(* A panic in the collector's own handler unwinds into GcCycleGuard's drop. *)
OwnCommandPanics(t) ==
    /\ pc[t] = "own" /\ t \in Faulty
    /\ panicked' = panicked \cup {t}
    /\ Goto(t, "finish")
    /\ UNCHANGED <<threads, arenas, shared, cmd, session, collections, aborted>>

(* wait_on_other_arenas *)
OthersDone(t) == \A a \in arenas \ {t} : cmd[a] = NoCommand

(* The next command: a MarkObjects round for whatever arenas the marking found
   references into, until there are none; then Finalize; then Sweep. *)
AwaitOthers(t) ==
    /\ pc[t] = "await"
    /\ OthersDone(t)
    /\ \/ /\ phase \in {"MarkAll", "MarkObjects"} /\ rounds < MaxRounds
          /\ phase' = "MarkObjects" /\ rounds' = rounds + 1
          /\ todo' \in SUBSET (arenas \ {t})
          /\ Goto(t, "dispatch")
       \/ /\ phase \in {"MarkAll", "MarkObjects", "Finalize"}
          /\ phase' = IF phase = "Finalize" THEN "Sweep" ELSE "Finalize"
          /\ todo' = arenas \ {t}
          /\ Goto(t, "dispatch")
          /\ UNCHANGED rounds
       \/ /\ phase = "Sweep"
          /\ Goto(t, "finish")
          /\ UNCHANGED <<phase, todo, rounds>>
    /\ UNCHANGED <<threads, arenas, shared, cmd, marked, cohort, panicked, collections, aborted>>

-----------------------------------------------------------------------------
(* GcCycleGuard::drop: the session first, then the stop-the-world guard *)

(* Mutant: the collecting state is left set when the session ends. *)
FinishSessionStaysCollecting(t) ==
    /\ pc[t] = "finish"
    /\ collectionLock' = None
    /\ Goto(t, "resume")
    /\ UNCHANGED <<threads, arenas, stopRequested, atSafepoint, gcCoordination, stwInProgress,
                   cmd, session, panicked, collections, aborted>>

(* finish_collection_inner; its assertion fails inside a destructor, and a
   second panic while unwinding ends the process and every thread in it. *)
FinishSession(t) ==
    /\ pc[t] = "finish"
    /\ stwInProgress' = FALSE
    /\ collectionLock' = None
    /\ IF NoPendingCommands
         THEN /\ Goto(t, "resume")
              /\ UNCHANGED <<threads, arenas, cmd, aborted>>
         ELSE /\ aborted' = TRUE
              /\ pc' = [u \in Threads |-> "exited"]
              /\ threads' = {} /\ arenas' = {}
              /\ cmd' = [u \in Threads |-> NoCommand]
    /\ UNCHANGED <<stopRequested, atSafepoint, gcCoordination, session, panicked, collections>>

(* resume_threads clears the flag ... *)
ResumeThreads(t) ==
    /\ pc[t] = "resume"
    /\ stopRequested' = FALSE
    /\ Goto(t, "notify")
    /\ UNCHANGED <<threads, arenas, atSafepoint, gcCoordination, collectionLock, stwInProgress,
                   cmd, session, panicked, collections, aborted>>

(* ... and notify_resume signals every arena without taking its current_command. *)
NotifyResume(t) ==
    /\ pc[t] = "notify"
    /\ pc' = [a \in Threads |->
                IF a = t THEN "unlock"
                ELSE IF a \in arenas /\ pc[a] = "waiting" THEN "parked" ELSE pc[a]]
    /\ UNCHANGED <<threads, arenas, shared, cmd, session, panicked, collections, aborted>>

ReleaseCoordination(t) ==
    /\ pc[t] = "unlock"
    /\ gcCoordination' = None
    /\ Goto(t, IF t \in panicked THEN "drop" ELSE "poll")
    /\ UNCHANGED <<threads, arenas, stopRequested, atSafepoint, collectionLock, stwInProgress,
                   cmd, session, panicked, collections, aborted>>

-----------------------------------------------------------------------------
(* The steps a scheduled thread takes whatever its managed code decides. *)
Progress(t) ==
    \/ RegisterArena(t) \/ UnregisterArena(t) \/ UnregisterThread(t) \/ NoCollection(t)
    \/ Poll(t) \/ EnterBatch(t) \/ LeaveBatch(t)
    \/ CheckCommand(t) \/ WaitForSignal(t) \/ ExecuteCommand(t) \/ CommandFinished(t)
    \/ LeaveSafePoint(t)
    \/ RequestStop(t) \/ AcquireCoordination(t) \/ CountStopped(t)
    \/ Dispatch(t) \/ ExecuteOwn(t) \/ AwaitOthers(t)
    \/ FinishSession(t) \/ ResumeThreads(t) \/ NotifyResume(t) \/ ReleaseCoordination(t)

(* The steps that depend on the program, or on a fault. *)
Choice(t) ==
    \/ RegisterThread(t) \/ ExitRun(t) \/ BeginCollection(t)
    \/ CommandPanics(t) \/ OwnCommandPanics(t)

Next == \E t \in Threads : Progress(t) \/ Choice(t)

Spec == Init /\ [][Next]_vars

(* The operating system schedules every thread, and an instruction batch is
   bounded (DISPATCH_BATCH_SIZE), so a thread that can go on does. *)
FairSpec == Spec /\ \A t \in Threads : WF_vars(Progress(t))
-----------------------------------------------------------------------------
(* Properties *)

(* Every variable has its type; a lock holder or registered id is a thread. *)
TypeOK ==
    /\ threads \subseteq Threads /\ arenas \subseteq Threads
    /\ stopRequested \in BOOLEAN /\ atSafepoint \in Nat
    /\ gcCoordination \in Threads \cup {None} /\ collectionLock \in Threads \cup {None}
    /\ stwInProgress \in BOOLEAN
    /\ cmd \in [Threads -> Commands \cup {NoCommand}]
    /\ pc \in [Threads -> Places]
    /\ phase \in Commands \cup {NoCommand} /\ todo \subseteq Threads /\ rounds \in 0..MaxRounds
    /\ marked \subseteq Threads /\ cohort \subseteq Threads /\ panicked \subseteq Faulty
    /\ collections \in 0..MaxCollections /\ aborted \in BOOLEAN

(* Threads inside safe_point between its fetch_add and its fetch_sub. *)
Counted == {t \in Threads : pc[t] \in ParkedAt \cup {"leaving"}}

(* threads_at_safepoint never falls short of the threads inside safe_point, so
   its fetch_sub never wraps and a stop request never waits for a parked thread. *)
CounterCoversParked == atSafepoint >= Cardinality(Counted)

(* The coordinator's own assertions hold at the moment each is evaluated, however
   threads register, leave and panic around them: a new session finds the
   coordinator idle, a slot is empty when a command is put in it, a finished
   command was pending, and a session that ends normally leaves nothing pending. *)
CoordinatorAssertions ==
    /\ collectionLock = None => ~stwInProgress /\ NoPendingCommands
    /\ \A t \in Threads :
         /\ pc[t] = "dispatch" => \A a \in todo \cap arenas : cmd[a] = NoCommand
         /\ pc[t] = "executed" /\ t \in arenas => cmd[t] # NoCommand
         /\ pc[t] = "finish" => stwInProgress /\ (t \notin panicked => NoPendingCommands)
         /\ pc[t] \in CollectingAt => t \in arenas /\ cmd[t] = NoCommand

(* Phases never overlap: a command waiting in, or being run by, any registered
   arena is the one the open session is at, so no arena sweeps while another is
   still marking or finalizing. *)
PhasesDoNotOverlap ==
    \A a \in arenas : cmd[a] # NoCommand =>
        /\ collectionLock # None /\ stwInProgress
        /\ cmd[a] = phase

(* By the time a session asks for finalization every arena its MarkAll addressed
   has marked, or its thread has left or died of a panic. *)
MarkedBeforeSweep ==
    collectionLock # None /\ phase \in {"Finalize", "Sweep"} =>
        (cohort \cap arenas) \ panicked \subseteq marked

(* A thread that has marked its arena runs no managed code until the session that
   made it mark has ended: it stays inside safe_point with the stop flag up, even
   when another collector's resume races with this session's request. *)
MarkedThreadsStayParked ==
    collectionLock # None =>
        \A t \in (marked \cap arenas) \ ({collectionLock} \cup panicked) :
            pc[t] \in ParkedAt /\ stopRequested

(* At most one collector is between begin_collection and the end of its session,
   and the coordination lock singles out the holder of the stop-the-world guard. *)
OneCollector ==
    \A t \in Threads :
        /\ pc[t] \in SessionAt => collectionLock = t
        /\ pc[t] \in GuardAt \cup {"count"} => gcCoordination = t

(* A collection that no other request overlaps ends, whoever registers, leaves or
   panics meanwhile. *)
CollectionCompletes ==
    \A t \in Threads : collectionLock = t ~> (collectionLock # t \/ collections > 1)

(* The next collection ends too. *)
NextCollectionCompletes ==
    \A t \in Threads : collectionLock = t ~> collectionLock # t
=============================================================================
