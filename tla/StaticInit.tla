----------------------------- MODULE StaticInit -----------------------------
(***************************************************************************)
(* Static constructors: StaticStorageManager (dotnet-vm/src/statics.rs)    *)
(* and VesContext::initialize_static_storage, which every access to a      *)
(* static goes through.                                                    *)
(*                                                                         *)
(* One thread runs a type's .cctor and the others wait for it.  A thread   *)
(* that is about to wait looks for a cycle in wait_graph and, if waiting   *)
(* would close one, uses the type as it is.  A .cctor may touch further    *)
(* types, so a thread can be running several.                              *)
(***************************************************************************)
EXTENDS Naturals, Sequences, FiniteSets

CONSTANTS
    Threads,
    Types,
    Plain,       \* types without a .cctor
    None,
    MaxTouches,  \* bound: accesses a thread makes
    MaxStops     \* bound: times the world is stopped

ASSUME StaticInitConstants ==
    /\ None \notin Threads \cup Types
    /\ Plain \subseteq Types
    /\ {MaxTouches, MaxStops} \subseteq Nat

VARIABLES
    state,    \* StaticStorage::init_state
    owner,    \* StaticStorage::initializing_thread
    wait,     \* wait_graph
    running,  \* the types whose .cctor each thread is running, innermost last
    pc,
    target,   \* the type each thread is touching
    seen,     \* the initializing_thread it has read
    touches,
    stop,     \* gc_stop_requested
    stops,
    parked

vars == <<state, owner, wait, running, pc, target, seen, touches, stop, stops, parked>>
types == <<state, owner>>
world == <<stop, stops, parked>>

Init ==
    /\ state = [c \in Types |-> "uninitialized"] /\ owner = [c \in Types |-> None]
    /\ wait = [t \in Threads |-> None]
    /\ running = [t \in Threads |-> <<>>]
    /\ pc = [t \in Threads |-> "run"]
    /\ target \in [Threads -> Types] /\ \A t, u \in Threads : target[t] = target[u]
    /\ seen = [t \in Threads |-> None]
    /\ touches = [t \in Threads |-> 0]
    /\ stop = FALSE /\ stops = 0 /\ parked = {}

Goto(t, place) == pc' = [pc EXCEPT ![t] = place]

-----------------------------------------------------------------------------
(* StaticStorageManager::init *)

(* The program touches a static of c. *)
Touch(t, c) ==
    /\ pc[t] = "run" /\ t \notin parked /\ touches[t] < MaxTouches
    /\ touches' = [touches EXCEPT ![t] = @ + 1]
    /\ target' = [target EXCEPT ![t] = c]
    /\ Goto(t, "init")
    /\ UNCHANGED <<types, wait, running, seen, world>>

(* The checks before the lock is taken. *)
CheckState(t) ==
    LET c == target[t]
    IN  /\ pc[t] = "init"
        /\ IF state[c] = "initialized" \/ (state[c] = "initializing" /\ owner[c] = t)
             THEN Goto(t, "run") /\ UNCHANGED state
           ELSE IF state[c] = "failed"
             THEN Goto(t, "throwing") /\ UNCHANGED state
           ELSE IF c \in Plain
             THEN /\ state' = [state EXCEPT ![c] = IF @ = "uninitialized" THEN "initialized" ELSE @]
                  /\ Goto(t, "run")
             ELSE Goto(t, "lock") /\ UNCHANGED state
        /\ UNCHANGED <<owner, wait, running, target, seen, touches, world>>

(* Mutant: the state is not looked at again under the lock. *)
ExecuteUnchecked(t) ==
    LET c == target[t]
    IN  /\ pc[t] = "lock" /\ state[c] \in {"uninitialized", "initializing"}
        /\ state' = [state EXCEPT ![c] = "initializing"]
        /\ owner' = [owner EXCEPT ![c] = t]
        /\ running' = [running EXCEPT ![t] = Append(@, c)]
        /\ Goto(t, "run")
        /\ UNCHANGED <<wait, target, seen, touches, world>>

(* StaticInitResult::Execute: the thread becomes the one that runs the .cctor. *)
Execute(t) ==
    LET c == target[t]
    IN  /\ pc[t] = "lock" /\ state[c] = "uninitialized"
        /\ state' = [state EXCEPT ![c] = "initializing"]
        /\ owner' = [owner EXCEPT ![c] = t]
        /\ running' = [running EXCEPT ![t] = Append(@, c)]
        /\ Goto(t, "run")
        /\ UNCHANGED <<wait, target, seen, touches, world>>

(* Initialized or Failed meanwhile. *)
Settled(t) ==
    /\ pc[t] = "lock" /\ state[target[t]] \in {"initialized", "failed"}
    /\ Goto(t, IF state[target[t]] = "initialized" THEN "run" ELSE "throwing")
    /\ UNCHANGED <<types, wait, running, target, seen, touches, world>>

(* Threads met by following wait_graph from u. *)
Awaited(u) ==
    {v \in Threads : \A S \in SUBSET Threads :
        (\A w \in S \cup {u} : wait[w] # None => wait[w] \in S) => v \in S}

(* Mutant: only the thread itself is looked for. *)
CausesCycleSelf(t, u) == u = t

CausesCycle(t, u) == t \in Awaited(u)

(* The cycle test and the new edge, under the wait_graph lock. *)
Recursive(t) ==
    /\ pc[t] = "lock" /\ state[target[t]] = "initializing"
    /\ CausesCycle(t, owner[target[t]])
    /\ Goto(t, "run")
    /\ UNCHANGED <<types, wait, running, target, seen, touches, world>>

AddEdge(t) ==
    /\ pc[t] = "lock" /\ state[target[t]] = "initializing"
    /\ ~CausesCycle(t, owner[target[t]])
    /\ wait' = [wait EXCEPT ![t] = owner[target[t]]]
    /\ Goto(t, "poll")
    /\ UNCHANGED <<types, running, target, seen, touches, world>>

-----------------------------------------------------------------------------
(* StaticStorageManager::wait_for_init *)

Poll(t) ==
    /\ pc[t] = "poll"
    /\ Goto(t, IF state[target[t]] = "initializing" THEN "load" ELSE "done")
    /\ UNCHANGED <<types, wait, running, target, seen, touches, world>>

LoadOwner(t) ==
    /\ pc[t] = "load"
    /\ seen' = [seen EXCEPT ![t] = owner[target[t]]]
    /\ Goto(t, "refresh")
    /\ UNCHANGED <<types, wait, running, target, touches, world>>

(* WaitGraphEdgeGuard::update with the thread read before *)
Refresh(t) ==
    /\ pc[t] = "refresh"
    /\ wait' = IF seen[t] \in {None, t} THEN wait ELSE [wait EXCEPT ![t] = seen[t]]
    /\ Goto(t, "check")
    /\ UNCHANGED <<types, running, target, seen, touches, world>>

(* Mutant: the wait does not look at the stop request. *)
CheckStopNever(t) ==
    /\ pc[t] = "check"
    /\ Goto(t, "wait")
    /\ UNCHANGED <<types, wait, running, target, seen, touches, world>>

CheckStop(t) ==
    /\ pc[t] = "check"
    /\ Goto(t, IF stop THEN "yield" ELSE "wait")
    /\ UNCHANGED <<types, wait, running, target, seen, touches, world>>

(* Mutant: the wait has no timeout, and misses a notification given before it. *)
WaitMissesEnd(t) ==
    /\ pc[t] = "wait"
    /\ Goto(t, IF state[target[t]] = "initializing" THEN "poll" ELSE "wait")
    /\ UNCHANGED <<types, wait, running, target, seen, touches, world>>

(* The state is checked under the lock; the wait itself ends after 10 ms at the latest. *)
Wait(t) ==
    /\ pc[t] = "wait"
    /\ Goto(t, IF state[target[t]] = "initializing" THEN "poll" ELSE "done")
    /\ UNCHANGED <<types, wait, running, target, seen, touches, world>>

(* The guard is dropped and wait_for_init returns. *)
DropEdge(t) ==
    /\ pc[t] \in {"done", "yield"}
    /\ wait' = [wait EXCEPT ![t] = None]
    /\ Goto(t, IF pc[t] = "done" THEN "recheck" ELSE "yielded")
    /\ UNCHANGED <<types, running, target, seen, touches, world>>

(* Mutant: after the wait the type is used whatever has become of it. *)
RecheckNot(t) ==
    /\ pc[t] = "recheck"
    /\ Goto(t, "run")
    /\ UNCHANGED <<types, wait, running, target, seen, touches, world>>

(* The type is ready, or its .cctor has failed. *)
Recheck(t) ==
    /\ pc[t] = "recheck"
    /\ Goto(t, IF state[target[t]] = "initialized" THEN "run" ELSE "throwing")
    /\ UNCHANGED <<types, wait, running, target, seen, touches, world>>

(* After the safe point the instruction runs again. *)
Retry(t) ==
    /\ pc[t] = "yielded" /\ ~stop /\ t \notin parked
    /\ Goto(t, "init")
    /\ UNCHANGED <<types, wait, running, target, seen, touches, world>>

-----------------------------------------------------------------------------
(* The end of a .cctor *)

Innermost(t) == running[t][Len(running[t])]

Outer(t) == [running EXCEPT ![t] = SubSeq(@, 1, Len(@) - 1)]

(* return_frame: mark_initialized, and the access that started it is made again. *)
Finish(t) ==
    /\ pc[t] = "run" /\ t \notin parked /\ running[t] # <<>>
    /\ state' = [state EXCEPT ![Innermost(t)] = "initialized"]
    /\ owner' = [owner EXCEPT ![Innermost(t)] = None]
    /\ target' = [target EXCEPT ![t] = Innermost(t)]
    /\ running' = Outer(t)
    /\ Goto(t, "init")
    /\ UNCHANGED <<wait, seen, touches, world>>

(* The code of a .cctor throws. *)
Throw(t) ==
    /\ pc[t] = "run" /\ t \notin parked /\ running[t] # <<>>
    /\ Goto(t, "throwing")
    /\ UNCHANGED <<types, wait, running, target, seen, touches, world>>

(* unwind_frame: mark_failed, and TypeInitializationException is thrown instead. *)
Unwind(t) ==
    /\ pc[t] = "throwing" /\ running[t] # <<>>
    /\ state' = [state EXCEPT ![Innermost(t)] = "failed"]
    /\ owner' = [owner EXCEPT ![Innermost(t)] = None]
    /\ running' = Outer(t)
    /\ UNCHANGED <<wait, pc, target, seen, touches, world>>

(* The innermost frame has a handler. *)
Catch(t) ==
    /\ pc[t] = "throwing"
    /\ Goto(t, "run")
    /\ UNCHANGED <<types, wait, running, target, seen, touches, world>>

(* No frame has: StepResult::MethodThrew ends the thread, its frames not unwound. *)
Die(t) ==
    /\ pc[t] = "throwing"
    /\ Goto(t, "dead")
    /\ UNCHANGED <<types, wait, running, target, seen, touches, world>>

-----------------------------------------------------------------------------
(* Stopping the world, as far as initialization sees it *)

RequestStop ==
    /\ ~stop /\ stops < MaxStops
    /\ stop' = TRUE /\ stops' = stops + 1
    /\ UNCHANGED <<types, wait, running, pc, target, seen, touches, parked>>

Park(t) ==
    /\ stop /\ pc[t] \in {"run", "yielded"} /\ t \notin parked
    /\ parked' = parked \cup {t}
    /\ UNCHANGED <<types, wait, running, pc, target, seen, touches, stop, stops>>

Resume ==
    /\ stop /\ \A t \in Threads : t \in parked \/ pc[t] = "dead"
    /\ stop' = FALSE /\ parked' = {}
    /\ UNCHANGED <<types, wait, running, pc, target, seen, touches, stops>>

-----------------------------------------------------------------------------

Step(t) ==
    \/ CheckState(t) \/ Execute(t) \/ Settled(t) \/ Recursive(t) \/ AddEdge(t)
    \/ Poll(t) \/ LoadOwner(t) \/ Refresh(t) \/ CheckStop(t) \/ Wait(t) \/ DropEdge(t) \/ Recheck(t)
    \/ Retry(t) \/ Unwind(t) \/ Park(t)

Next ==
    \/ \E t \in Threads : Step(t) \/ Finish(t) \/ Throw(t) \/ Catch(t) \/ Die(t)
    \/ \E t \in Threads, c \in Types : Touch(t, c)
    \/ RequestStop
    \/ Resume

Spec == Init /\ [][Next]_vars

(* Threads keep running, every .cctor ends, and the collector resumes the world. *)
Fairness ==
    /\ \A t \in Threads : WF_vars(Step(t)) /\ SF_vars(Finish(t)) /\ WF_vars(Catch(t))
    /\ WF_vars(Resume)
FairSpec == Spec /\ Fairness

-----------------------------------------------------------------------------
(* Properties *)

States == {"uninitialized", "initializing", "initialized", "failed"}
WaitPlaces == {"poll", "load", "refresh", "check", "wait", "done", "yield"}
Places == {"run", "init", "lock", "recheck", "yielded", "throwing", "dead"} \cup WaitPlaces

TypeOK ==
    /\ state \in [Types -> States] /\ owner \in [Types -> Threads \cup {None}]
    /\ wait \in [Threads -> Threads \cup {None}] /\ \A t \in Threads : wait[t] # t
    /\ running \in [Threads -> Seq(Types)]
    /\ pc \in [Threads -> Places] /\ target \in [Threads -> Types]
    /\ seen \in [Threads -> Threads \cup {None}]
    /\ touches \in [Threads -> Nat] /\ stops \in Nat
    /\ stop \in BOOLEAN /\ parked \subseteq Threads

(* A .cctor is running exactly while its type is INITIALIZING, on one thread, once:
   the one recorded as the type's initializing_thread. *)
OneInitializer ==
    \A t \in Threads, c \in Types :
        /\ owner[c] = t <=> (\E i \in DOMAIN running[t] : running[t][i] = c)
        /\ owner[c] = t => state[c] = "initializing"
        /\ \A i, j \in DOMAIN running[t] : running[t][i] = running[t][j] => i = j

(* wait_graph never has a cycle, so threads do not wait for one another in a ring. *)
WaitGraphAcyclic ==
    \A S \in SUBSET Threads : (\A t \in S : wait[t] \in S) => S = {}

(* The edge is removed on every return of wait_for_init: a thread has one only
   while it is in there. *)
EdgeWhileWaiting == \A t \in Threads : wait[t] # None => pc[t] \in WaitPlaces

(* The unreachable! arm of initialize_static_storage is not reached: after the wait
   the type is initialized or failed. *)
WaitConverges ==
    \A t \in Threads : pc[t] = "recheck" => state[target[t]] \in {"initialized", "failed"}

(* A type that has been initialized, or has failed, stays so. *)
OutcomeIsFinal ==
    [][\A c \in Types : state[c] \in {"initialized", "failed"} => state'[c] = state[c]]_vars

(* A thread has ended inside a .cctor, whose type it leaves initializing. *)
Abandoned == \E u \in Threads : pc[u] = "dead" /\ running[u] # <<>>

(* Every access to a static comes to an end, unless a thread ends inside a .cctor. *)
AccessEnds ==
    \A t \in Threads :
        pc[t] \in {"init", "lock", "yielded"} \cup WaitPlaces
            ~> (pc[t] \in {"run", "throwing"} \/ Abandoned)

(* The accesses in progress. *)
Accessing(t) == pc[t] \in {"init", "lock", "recheck", "yielded"} \cup WaitPlaces

Promise == INSTANCE TypeInitializer
    WITH phase <- state, runner <- owner, awaits <- wait,
         asking <- [t \in Threads |-> IF Accessing(t) THEN target[t] ELSE None],
         thrown <- {t \in Threads : pc[t] = "throwing"}

(* The protocol implements TypeInitializer: with all its locks, polling and retries an
   access still gets an initialized type, its failure, or, in a ring, the type as it is. *)
IsTypeInitializer == Promise!Spec

(* Waiting for a .cctor does not keep the world from stopping. *)
WorldStops == stop ~> ~stop
=============================================================================
