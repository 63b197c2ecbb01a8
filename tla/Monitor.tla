------------------------------ MODULE Monitor ------------------------------
(***************************************************************************)
(* Monitor.Enter, TryEnter and Exit: the intrinsics of                     *)
(* dotnet-intrinsics-threading/src/monitor.rs over the sync blocks of      *)
(* dotnet-vm/src/sync/threaded.rs.                                         *)
(*                                                                         *)
(* A call reads the object's sync block index, asks the manager for the    *)
(* block, publishes a new index if it created one, and then acquires the   *)
(* block.  Waiting is timed, so that a waiter can see a stop request and   *)
(* yield; the executor parks it and runs the instruction again.  While a   *)
(* call has yielded, the executor may run a finalizer on the same thread,  *)
(* whose own calls then nest inside it.                                    *)
(***************************************************************************)
EXTENDS Naturals, Sequences, FiniteSets

CONSTANTS
    Threads,
    Objects,
    None,
    Fresh,      \* objects that have no sync block when the model starts
    Racing,     \* whether two threads may take the first lock of an object at once
    Kinds,      \* the operations the program uses
    MaxCalls,   \* bound: calls a thread starts, besides leaving what it has entered
    MaxNesting, \* bound: calls in progress on one thread
    MaxStops    \* bound: times the world is stopped

ASSUME MonitorConstants ==
    /\ IsFiniteSet(Threads) /\ IsFiniteSet(Objects) /\ None \notin Threads
    /\ Fresh \subseteq Objects /\ Racing \in BOOLEAN
    /\ Kinds \subseteq {"Enter", "FastPath", "TryEnter", "TryEnterInfinite", "Exit"}
    /\ {MaxCalls, MaxStops} \subseteq Nat /\ MaxNesting \in Nat \ {0}

VARIABLES
    index,        \* ObjectInner::sync_block_index, 0 when there is none
    blocks,       \* SyncBlockManager::blocks: index -> SyncBlockState
    calls,        \* the calls in progress on each thread, innermost last
    pc,           \* where the innermost call stands
    seen,         \* the index it read
    block,        \* the block it works on
    deadline,     \* CURRENT_DEADLINE of each thread
    started,      \* calls counted against MaxCalls
    stop,         \* gc_stop_requested
    stops,        \* stops requested so far
    parked,       \* threads parked in safe_point
    entered,      \* locks the program has taken: thread -> object -> depth
    timedOut      \* history: nesting depths at which a call without time limit timed out

vars == <<index, blocks, calls, pc, seen, block, deadline, started, stop, stops, parked,
          entered, timedOut>>
world == <<started, stop, stops, parked>>

Waits(kind) == kind \in {"Enter", "TryEnter", "TryEnterInfinite"}
Timed(kind) == kind \in {"TryEnter", "TryEnterInfinite"}

Call(t) == calls[t][Len(calls[t])]

NewBlock == [owner |-> None, count |-> 0]

(* Objects that are not Fresh have been locked before. *)
Init ==
    /\ \E numbering \in [Objects \ Fresh -> 1..Cardinality(Objects \ Fresh)] :
         /\ \A o, p \in Objects \ Fresh : numbering[o] = numbering[p] => o = p
         /\ index = [o \in Objects |-> IF o \in Fresh THEN 0 ELSE numbering[o]]
    /\ blocks = [i \in 1..Cardinality(Objects \ Fresh) |-> NewBlock]
    /\ calls = [t \in Threads |-> <<>>]
    /\ pc = [t \in Threads |-> "idle"]
    /\ seen = [t \in Threads |-> 0] /\ block = [t \in Threads |-> 0]
    /\ deadline = [t \in Threads |-> "none"]
    /\ started = [t \in Threads |-> 0]
    /\ stop = FALSE /\ stops = 0 /\ parked = {}
    /\ entered = [t \in Threads |-> [o \in Objects |-> 0]]
    /\ timedOut = {}

Goto(t, place) == pc' = [pc EXCEPT ![t] = place]

(* The innermost call returns; one that yielded below it is run again later. *)
Return(t) ==
    /\ calls' = [calls EXCEPT ![t] = SubSeq(@, 1, Len(@) - 1)]
    /\ Goto(t, IF Len(calls[t]) = 1 THEN "idle" ELSE "yielded")

-----------------------------------------------------------------------------
(* Calls *)

(* The program can always leave a lock it has taken. *)
Leaves(t, kind, o) == kind = "Exit" /\ entered[t][o] > 0

(* The first lock of an object is about to be taken by another thread. *)
Contested(t, o) ==
    index[o] = 0 /\ \E u \in Threads \ {t} : \E i \in DOMAIN calls[u] : calls[u][i].obj = o

(* The program, or a finalizer that runs while a call has yielded, starts a call. *)
Start(t, kind, o) ==
    /\ t \notin parked
    /\ Racing \/ ~Contested(t, o)
    /\ pc[t] = "idle" \/ (pc[t] = "yielded" /\ ~stop /\ Len(calls[t]) < MaxNesting)
    /\ started[t] < MaxCalls \/ Leaves(t, kind, o)
    /\ started' = IF Leaves(t, kind, o) THEN started ELSE [started EXCEPT ![t] = @ + 1]
    /\ calls' = [calls EXCEPT ![t] = Append(@, [kind |-> kind, obj |-> o])]
    /\ Goto(t, "read")
    /\ UNCHANGED <<index, blocks, seen, block, deadline, stop, stops, parked, entered, timedOut>>

(* Back in the dispatch loop, which polls the stop request first, the instruction
   that yielded runs again. *)
Retry(t) ==
    /\ pc[t] = "yielded" /\ ~stop /\ t \notin parked
    /\ Goto(t, "read")
    /\ UNCHANGED <<index, blocks, calls, seen, block, deadline, world, entered, timedOut>>

ReadIndex(t) ==
    /\ pc[t] = "read"
    /\ seen' = [seen EXCEPT ![t] = index[Call(t).obj]]
    /\ Goto(t, IF Call(t).kind = "Exit" THEN "exit" ELSE "create")
    /\ UNCHANGED <<index, blocks, calls, block, deadline, world, entered, timedOut>>

(* get_or_create_sync_block, under the blocks lock *)
GetOrCreate(t) ==
    /\ pc[t] = "create"
    /\ IF seen[t] \in DOMAIN blocks
         THEN /\ block' = [block EXCEPT ![t] = seen[t]]
              /\ Goto(t, "deadline")
              /\ UNCHANGED blocks
         ELSE /\ blocks' = Append(blocks, NewBlock)
              /\ block' = [block EXCEPT ![t] = Len(blocks) + 1]
              /\ Goto(t, "publish")
    /\ UNCHANGED <<index, calls, seen, deadline, world, entered, timedOut>>

(* set_sync_block_index, whatever the index is by now *)
Publish(t) ==
    /\ pc[t] = "publish"
    /\ index' = [index EXCEPT ![Call(t).obj] = block[t]]
    /\ Goto(t, "deadline")
    /\ UNCHANGED <<blocks, calls, seen, block, deadline, world, entered, timedOut>>

(* get_deadline: a timed call takes the thread's deadline, set if it has none. *)
GetDeadline(t) ==
    /\ pc[t] = "deadline"
    /\ deadline' = [deadline EXCEPT ![t] =
                      IF ~Timed(Call(t).kind) \/ @ # "none" THEN @
                      ELSE IF Call(t).kind = "TryEnter" THEN "running" ELSE "infinite"]
    /\ Goto(t, "acquire")
    /\ UNCHANGED <<index, blocks, calls, seen, block, world, entered, timedOut>>

(* Mutant: giving up leaves the deadline behind for the next call. *)
DeadlineAfterKept(t) == deadline[t]

(* Every outcome but Yield clears the deadline of a timed call. *)
DeadlineAfter(t) == IF Timed(Call(t).kind) THEN "none" ELSE deadline[t]

(* lock_and_try_enter and try_enter succeed *)
TryLock(t) == blocks[block[t]].owner \in {None, t}

Succeed(t) ==
    /\ deadline' = [deadline EXCEPT ![t] = DeadlineAfter(t)]
    /\ entered' = [entered EXCEPT ![t][Call(t).obj] = @ + 1]
    /\ Return(t)

Acquire(t) ==
    /\ pc[t] = "acquire" /\ TryLock(t)
    /\ blocks' = [blocks EXCEPT ![block[t]] =
                    [owner |-> t, count |-> IF @.owner = t THEN @.count + 1 ELSE 1]]
    /\ Succeed(t)
    /\ UNCHANGED <<index, seen, block, world, timedOut>>

(* The block is taken: TryEnter_FastPath answers false, a timed call gives up
   when its deadline has passed. *)
GiveUp(t) ==
    /\ pc[t] = "acquire" /\ ~TryLock(t)
    /\ ~Waits(Call(t).kind) \/ (Timed(Call(t).kind) /\ deadline[t] = "passed")
    /\ timedOut' = IF Call(t).kind = "TryEnterInfinite" THEN timedOut \cup {Len(calls[t])} ELSE timedOut
    /\ deadline' = [deadline EXCEPT ![t] = DeadlineAfter(t)]
    /\ Return(t)
    /\ UNCHANGED <<index, blocks, seen, block, world, entered>>

(* ... and otherwise the thread waits on the condition variable. *)
Wait(t) ==
    /\ pc[t] = "acquire" /\ ~TryLock(t) /\ Waits(Call(t).kind)
    /\ ~(Timed(Call(t).kind) /\ deadline[t] = "passed")
    /\ Goto(t, "waiting")
    /\ UNCHANGED <<index, blocks, calls, seen, block, deadline, world, entered, timedOut>>

(* Time passes. *)
Expire(t) ==
    /\ deadline[t] = "running"
    /\ deadline' = [deadline EXCEPT ![t] = "passed"]
    /\ UNCHANGED <<index, blocks, calls, pc, seen, block, world, entered, timedOut>>

(* Mutant: a waiter does not look at the block when its wait ends. *)
WakeFreeMissed(t) ==
    /\ pc[t] = "waiting" /\ blocks[block[t]].owner = None
    /\ Goto(t, "waiting")
    /\ UNCHANGED <<index, blocks, calls, seen, block, deadline, world, entered, timedOut>>

(* The wait ends, by notification or by its timeout, and the block is free. *)
WakeFree(t) ==
    /\ pc[t] = "waiting" /\ blocks[block[t]].owner = None
    /\ blocks' = [blocks EXCEPT ![block[t]] = [owner |-> t, count |-> 1]]
    /\ Succeed(t)
    /\ UNCHANGED <<index, seen, block, world, timedOut>>

(* Mutant: a waiter whose wait ends goes on waiting, whatever is requested. *)
WakeTakenWaits(t) ==
    /\ pc[t] = "waiting" /\ blocks[block[t]].owner # None
    /\ Goto(t, "acquire")
    /\ UNCHANGED <<index, blocks, calls, seen, block, deadline, world, entered, timedOut>>

(* ... or it is taken: the state lock is dropped and the stop request checked. *)
WakeTaken(t) ==
    /\ pc[t] = "waiting" /\ blocks[block[t]].owner # None
    /\ Goto(t, IF stop THEN "yielded" ELSE "acquire")
    /\ UNCHANGED <<index, blocks, calls, seen, block, deadline, world, entered, timedOut>>

(* Mutant: leaving a nested lock frees it. *)
ExitAllLevels(t) ==
    /\ pc[t] = "exit"
    /\ IF seen[t] # 0 /\ blocks[seen[t]].owner = t
         THEN /\ blocks' = [blocks EXCEPT ![seen[t]] = NewBlock]
              /\ entered' = [entered EXCEPT ![t][Call(t).obj] = @ - 1]
         ELSE UNCHANGED <<blocks, entered>>
    /\ Return(t)
    /\ UNCHANGED <<index, seen, block, deadline, world, timedOut>>

(* Monitor.Exit: one level less, or a SynchronizationLockException. *)
Exit(t) ==
    /\ pc[t] = "exit"
    /\ IF seen[t] # 0 /\ blocks[seen[t]].owner = t /\ blocks[seen[t]].count > 0
         THEN /\ blocks' = [blocks EXCEPT ![seen[t]] =
                              IF @.count = 1 THEN NewBlock ELSE [owner |-> t, count |-> @.count - 1]]
              /\ entered' = [entered EXCEPT ![t][Call(t).obj] = @ - 1]
         ELSE UNCHANGED <<blocks, entered>>
    /\ Return(t)
    /\ UNCHANGED <<index, seen, block, deadline, world, timedOut>>

-----------------------------------------------------------------------------
(* Stopping the world, as far as monitors see it *)

RequestStop ==
    /\ ~stop /\ stops < MaxStops
    /\ stop' = TRUE /\ stops' = stops + 1
    /\ UNCHANGED <<index, blocks, calls, pc, seen, block, deadline, started, parked, entered,
                   timedOut>>

Park(t) ==
    /\ stop /\ pc[t] \in {"idle", "yielded"} /\ t \notin parked
    /\ parked' = parked \cup {t}
    /\ UNCHANGED <<index, blocks, calls, pc, seen, block, deadline, started, stop, stops, entered,
                   timedOut>>

Resume ==
    /\ stop /\ parked = Threads
    /\ stop' = FALSE /\ parked' = {}
    /\ UNCHANGED <<index, blocks, calls, pc, seen, block, deadline, started, stops, entered, timedOut>>

-----------------------------------------------------------------------------

Step(t) ==
    \/ Retry(t) \/ ReadIndex(t) \/ GetOrCreate(t) \/ Publish(t) \/ GetDeadline(t)
    \/ Acquire(t) \/ GiveUp(t) \/ Wait(t) \/ WakeFree(t) \/ WakeTaken(t) \/ Exit(t)
    \/ Park(t)

Next ==
    \/ \E t \in Threads : Step(t) \/ Expire(t)
    \/ \E t \in Threads, kind \in Kinds, o \in Objects : Start(t, kind, o)
    \/ RequestStop
    \/ Resume

Spec == Init /\ [][Next]_vars

(* A thread keeps running, a program leaves the locks it has entered, a running
   deadline passes, and the collector that stopped the world resumes it. *)
FairSpec ==
    /\ Spec
    /\ \A t \in Threads :
         /\ WF_vars(Step(t)) /\ WF_vars(Expire(t))
         /\ \A o \in Objects : WF_vars(Leaves(t, "Exit", o) /\ Start(t, "Exit", o))
    /\ WF_vars(Resume)

-----------------------------------------------------------------------------
(* Properties *)

Frames == [kind : Kinds, obj : Objects]
Places == {"idle", "read", "create", "publish", "deadline", "acquire", "waiting", "yielded", "exit"}

TypeOK ==
    /\ \A o \in Objects : index[o] \in 0..Len(blocks)
    /\ \A i \in DOMAIN blocks : blocks[i] \in [owner : Threads \cup {None}, count : Nat]
    /\ \A t \in Threads : \A i \in DOMAIN calls[t] : calls[t][i] \in Frames
    /\ pc \in [Threads -> Places]
    /\ \A t \in Threads : {seen[t], block[t]} \subseteq 0..Len(blocks)
    /\ deadline \in [Threads -> {"none", "running", "passed", "infinite"}]
    /\ started \in [Threads -> 0..MaxCalls]
    /\ stop \in BOOLEAN /\ stops \in 0..MaxStops /\ parked \subseteq Threads
    /\ entered \in [Threads -> [Objects -> Nat]] /\ timedOut \subseteq 1..MaxNesting

(* At most one thread is inside a lock statement on an object. *)
MutualExclusion ==
    \A o \in Objects, t, u \in Threads : entered[t][o] > 0 /\ entered[u][o] > 0 => t = u

(* A thread that has taken an object's lock n times finds its sync block owned by
   itself with recursion count n, so that its n-th Exit, no earlier one, frees it. *)
RecursionCounted ==
    \A o \in Objects, t \in Threads :
        entered[t][o] > 0 =>
            /\ index[o] \in DOMAIN blocks
            /\ blocks[index[o]] = [owner |-> t, count |-> entered[t][o]]

(* A block is owned only by a thread that is inside the lock of the object whose block
   it is: no path through waiting, yielding or giving up leaves a lock behind. *)
OwnersHaveEntered ==
    \A i \in DOMAIN blocks :
        blocks[i].owner # None => \E o \in Objects : index[o] = i /\ entered[blocks[i].owner][o] > 0

(* The state of the sync blocks is what the calls of the program have made it: one thread
   is inside an object's lock, as often as its block counts, and no lock is left behind. *)
LockStateMatches == TypeOK /\ MutualExclusion /\ RecursionCounted /\ OwnersHaveEntered

Promise == INSTANCE RecursiveLock
    WITH lock <- [o \in Objects |-> IF index[o] = 0 THEN NewBlock ELSE blocks[index[o]]],
         inside <- entered

(* Monitors implement RecursiveLock: reading an index, creating and publishing a block,
   waiting and running the call again change no lock, and each entry and exit does so once.
   LockStateMatches follows. *)
IsRecursiveLock == Promise!Spec

(* Waiting for a monitor does not keep the world from stopping. *)
WorldStops == stop ~> ~stop

(* With every lock released in the end, a blocking call returns. *)
EnterReturns == \A t \in Threads : pc[t] = "waiting" ~> pc[t] = "idle"

(* A call without a time limit does not time out, unless it is nested in a call
   that has yielded on the same thread, whose deadline it then finds. *)
InfiniteNeverTimesOut == 1 \notin timedOut
=============================================================================
