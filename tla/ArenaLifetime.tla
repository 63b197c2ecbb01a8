--------------------------- MODULE ArenaLifetime ---------------------------
(***************************************************************************)
(* The life of an arena: the registry and its leases                       *)
(* (dotnet-utils/src/gc/cross_arena.rs), the executor that owns the arena  *)
(* (dotnet-vm/src/executor.rs, gc/arena.rs) and the managed threads that   *)
(* run executors of their own (stack/context_ops.rs).                      *)
(*                                                                         *)
(* Registrations are numbered by their generation, which also stands for   *)
(* their token: both counters advance together.  A read section of the     *)
(* registry lock is one step; a write section is two, since the fast       *)
(* bitset is read without the lock.                                        *)
(***************************************************************************)
EXTENDS Naturals, FiniteSets

CONSTANTS
    Threads,         \* operating system threads
    Workers,         \* those that run a managed ThreadStart
    None,
    MaxThreadId,     \* ids allocate_managed_thread_id hands out: u16::MAX
    HostIds,         \* ids the embedding registers itself, and may register again
    Fast,            \* ids below 64, which the bitset covers
    MaxToken,        \* u32::MAX: registrations a process can make
    MaxLeases        \* bound: leases one thread holds

Managed == 1..MaxThreadId
Ids == Managed \cup HostIds
Generations == 1..MaxToken

ASSUME ArenaConstants ==
    /\ IsFiniteSet(Threads) /\ Workers \subseteq Threads
    /\ MaxThreadId \in Nat /\ MaxToken \in Nat /\ MaxLeases \in Nat
    /\ Fast \subseteq Ids /\ HostIds \cap Managed = {} /\ None \notin Threads \cup Ids \cup Generations

VARIABLES
    byId,       \* ArenaRegistry::by_id, the generation registered under each id
    byToken,    \* ArenaRegistry::by_token
    idOf,       \* ArenaIdentity::arena_id of each generation issued
    leases,     \* ArenaState::active_leases of each
    bits,       \* VALID_ARENAS_FAST
    writer,     \* holder of the write lock of VALID_ARENAS
    nextId,     \* NEXT_GLOBAL_THREAD_ID
    storage,    \* the memory each registration guards
    exec,       \* the executor of each thread, with what THREAD_ARENA holds for it
    guards,     \* ArenaGuards and other ArenaRegistrations a thread owns
    held,       \* leases a thread holds: the identity asked for and the one obtained
    pc,
    job,        \* what the operation in progress is about
    record      \* ManagedThreadRecord of the worker started from each thread

registry == <<byId, byToken, idOf, bits, writer>>
vars == <<registry, leases, nextId, storage, exec, guards, held, pc, job, record>>

Issued == {g \in Generations : idOf[g] # None}
Registered(g) == idOf[g] # None /\ byId[idOf[g]] = g

NoExecutor == [gen |-> None, registration |-> FALSE, box |-> FALSE]
NoJob == [gens |-> {}, id |-> None, owner |-> FALSE]
NoRecord == [worker |-> None, phase |-> "none"]

Places == {"unspawned", "idle", "publish", "capture", "registration", "lease", "remove",
           "unpublish", "check", "drain", "done"}

Init ==
    /\ byId = [i \in Ids |-> None] /\ byToken = [g \in Generations |-> None]
    /\ idOf = [g \in Generations |-> None] /\ leases = [g \in Generations |-> 0]
    /\ bits = {} /\ writer = None /\ nextId = 1
    /\ storage = [g \in Generations |-> "none"]
    /\ exec = [t \in Threads |-> NoExecutor]
    /\ guards = [t \in Threads |-> {}] /\ held = [t \in Threads |-> {}]
    /\ pc = [t \in Threads |-> IF t \in Workers THEN "unspawned" ELSE "idle"]
    /\ job = [t \in Threads |-> NoJob]
    /\ record = [t \in Threads |-> NoRecord]

Goto(t, place) == pc' = [pc EXCEPT ![t] = place]

(* Between two operations, and not inside Thread.Join. *)
Free(t) == pc[t] = "idle" /\ record[t].phase # "joining"

(* Where a thread is once its executor is gone. *)
Home(t) == IF t \in Workers THEN "done" ELSE "idle"

-----------------------------------------------------------------------------
(* Registration *)

(* ArenaRegistry::register under the write lock, up to the bitset. *)
Register(t, id) ==
    LET g == Cardinality(Issued) + 1
    IN  /\ writer = None /\ byId[id] = None /\ g \in Generations
        /\ byId' = [byId EXCEPT ![id] = g] /\ byToken' = [byToken EXCEPT ![g] = id]
        /\ idOf' = [idOf EXCEPT ![g] = id] /\ writer' = t
        /\ job' = [job EXCEPT ![t] = [gens |-> {g}, id |-> id, owner |-> TRUE]]
        /\ storage' = [storage EXCEPT ![g] = "live"]
        /\ Goto(t, "publish")

(* Executor::new as far as register_thread: the slot of the thread is free, the
   arena exists but nobody else knows of it yet. *)
NewExecutor(t) ==
    /\ Free(t) /\ exec[t] = NoExecutor
    /\ nextId \in Managed
    /\ Register(t, nextId)
    /\ nextId' = nextId + 1
    /\ exec' = [exec EXCEPT ![t] = [gen |-> CHOOSE g \in job'[t].gens : TRUE,
                                    registration |-> FALSE, box |-> TRUE]]
    /\ UNCHANGED <<bits, leases, guards, held, record>>

(* No id or token is left, or a worker's closure fails before its executor exists:
   the arena and the reservation of the slot are dropped in the unwinding. *)
NewPanics(t) ==
    /\ Free(t) /\ exec[t] = NoExecutor /\ t \in Workers
    /\ nextId \notin Managed \/ Cardinality(Issued) = MaxToken
    /\ nextId' = IF nextId \in Managed THEN nextId + 1 ELSE nextId
    /\ Goto(t, Home(t))
    /\ UNCHANGED <<registry, leases, storage, exec, guards, held, job, record>>

(* A host registers storage of its own and keeps the ArenaRegistration. *)
HostRegisters(t, id) ==
    /\ Free(t) /\ t \notin Workers /\ id \in HostIds
    /\ Register(t, id)
    /\ UNCHANGED <<bits, leases, nextId, exec, guards, held, record>>

Publish(t) ==
    LET g == CHOOSE x \in job[t].gens : TRUE
    IN  /\ pc[t] = "publish"
        /\ bits' = bits \cup ({job[t].id} \cap Fast) /\ writer' = None
        /\ IF exec[t].gen = g
             THEN Goto(t, "capture") /\ UNCHANGED guards
             ELSE Goto(t, "idle") /\ guards' = [guards EXCEPT ![t] = @ \cup {g}]
        /\ job' = [job EXCEPT ![t].gens = {}]
        /\ UNCHANGED <<byId, byToken, idOf, leases, nextId, storage, exec, held, record>>

(* RetainedArena without a registration to drain: the storage stays for good. *)
Abandon(t) ==
    /\ storage' = [storage EXCEPT ![exec[t].gen] = "retained"]
    /\ exec' = [exec EXCEPT ![t] = NoExecutor]
    /\ Goto(t, Home(t))

(* Executor::new leases its own id to learn the identity.  Somebody else may have
   removed the entry: the expect fails and the unfinished Executor is dropped. *)
CaptureIdentity(t) ==
    /\ pc[t] = "capture" /\ writer = None
    /\ IF byId[job[t].id] = None \/ job[t].id \in Fast \ bits
         THEN Abandon(t)
         ELSE Goto(t, "registration") /\ UNCHANGED <<storage, exec>>
    /\ UNCHANGED <<registry, leases, nextId, guards, held, job, record>>

(* registration_for_identity, and the rest of the construction. *)
CaptureRegistration(t) ==
    /\ pc[t] = "registration" /\ writer = None
    /\ IF Registered(exec[t].gen)
         THEN /\ exec' = [exec EXCEPT ![t].registration = TRUE]
              /\ Goto(t, "idle") /\ UNCHANGED storage
         ELSE Abandon(t)
    /\ job' = [job EXCEPT ![t] = NoJob]
    /\ UNCHANGED <<registry, leases, nextId, guards, held, record>>

-----------------------------------------------------------------------------
(* Leases *)

Lease(t, want, g) ==
    /\ leases' = [leases EXCEPT ![g] = @ + 1]
    /\ held' = [held EXCEPT ![t] = @ \cup {[want |-> want, gen |-> g]}]

MayLease(t, want) ==
    /\ Free(t) /\ Cardinality(held[t]) < MaxLeases
    /\ t \in Workers => exec[t].registration
    /\ \A l \in held[t] : l.want # want

(* try_acquire_lease: the bitset is read first, without the lock. *)
AskById(t, id) ==
    /\ MayLease(t, None)
    /\ id \in Fast => id \in bits
    /\ job' = [job EXCEPT ![t] = [gens |-> {}, id |-> id, owner |-> FALSE]]
    /\ Goto(t, "lease")
    /\ UNCHANGED <<registry, leases, nextId, storage, exec, guards, held, record>>

LeaseById(t) ==
    LET g == byId[job[t].id]
    IN  /\ pc[t] = "lease" /\ writer = None
        /\ IF g = None THEN UNCHANGED <<leases, held>> ELSE Lease(t, None, g)
        /\ job' = [job EXCEPT ![t] = NoJob]
        /\ Goto(t, "idle")
        /\ UNCHANGED <<registry, nextId, storage, exec, guards, record>>

(* try_acquire_lease_for_identity *)
LeaseByIdentity(t, g) ==
    /\ MayLease(t, g) /\ writer = None
    /\ g \in Issued /\ byId[idOf[g]] = g
    /\ Lease(t, g, byId[idOf[g]])
    /\ UNCHANGED <<registry, nextId, storage, exec, guards, pc, job, record>>

(* try_acquire_lease_for_token *)
LeaseByToken(t, g) ==
    /\ MayLease(t, g) /\ writer = None
    /\ byToken[g] # None /\ byId[byToken[g]] # None
    /\ Lease(t, g, byId[byToken[g]])
    /\ UNCHANGED <<registry, nextId, storage, exec, guards, pc, job, record>>

(* ArenaLease::drop, on the thread that acquired it. *)
DropLease(t, l) ==
    /\ Free(t) /\ l \in held[t]
    /\ held' = [held EXCEPT ![t] = @ \ {l}]
    /\ leases' = [leases EXCEPT ![l.gen] = @ - 1]
    /\ UNCHANGED <<registry, nextId, storage, exec, guards, pc, job, record>>

-----------------------------------------------------------------------------
(* Teardown *)

(* Leases of other arenas are scoped to an access and are not held here. *)
OnlyOwnLeases(t, g) == \A l \in held[t] : idOf[l.gen] = idOf[g] /\ t \notin Workers

(* Executor::drop: the box is taken from the slot before anything can fail.  An
   executor whose arena has been extracted has nothing to drain. *)
DropExecutor(t) ==
    LET e == exec[t]
    IN  /\ Free(t) /\ e.gen # None /\ OnlyOwnLeases(t, e.gen)
        /\ IF e.box
             THEN /\ job' = [job EXCEPT ![t] = [gens |-> {e.gen}, id |-> idOf[e.gen], owner |-> TRUE]]
                  /\ Goto(t, "remove") /\ UNCHANGED exec
             ELSE /\ exec' = [exec EXCEPT ![t] = NoExecutor]
                  /\ Goto(t, Home(t)) /\ UNCHANGED job
        /\ record' = [record EXCEPT ![t] = NoRecord]
        /\ UNCHANGED <<registry, leases, nextId, storage, guards, held>>

(* Executor::extract_arena *)
ExtractArena(t) ==
    /\ Free(t) /\ t \notin Workers /\ exec[t].box
    /\ exec' = [exec EXCEPT ![t].box = FALSE, ![t].registration = FALSE]
    /\ guards' = [guards EXCEPT ![t] = @ \cup {exec[t].gen}]
    /\ UNCHANGED <<registry, leases, nextId, storage, held, pc, job, record>>

(* ArenaGuard::drop, and a host that tears down what it registered. *)
DropGuard(t, g) ==
    /\ Free(t) /\ g \in guards[t] /\ OnlyOwnLeases(t, g)
    /\ guards' = [guards EXCEPT ![t] = @ \ {g}]
    /\ job' = [job EXCEPT ![t] = [gens |-> {g}, id |-> idOf[g], owner |-> TRUE]]
    /\ Goto(t, "remove")
    /\ UNCHANGED <<registry, leases, nextId, storage, exec, held, record>>

(* unregister_arena by a caller that knows only the id and holds no lease. *)
UnregisterById(t, id) ==
    /\ Free(t) /\ t \notin Workers /\ held[t] = {} /\ byId[id] # None
    /\ job' = [job EXCEPT ![t] = [gens |-> {}, id |-> id, owner |-> FALSE]]
    /\ Goto(t, "remove")
    /\ UNCHANGED <<registry, leases, nextId, storage, exec, guards, held, record>>

(* unregister_arena_identity: the same for one exact registration. *)
UnregisterIdentity(t, g) ==
    /\ Free(t) /\ t \notin Workers /\ held[t] = {} /\ g \in Issued
    /\ job' = [job EXCEPT ![t] = [gens |-> {g}, id |-> idOf[g], owner |-> FALSE]]
    /\ Goto(t, "remove")
    /\ UNCHANGED <<registry, leases, nextId, storage, exec, guards, held, record>>

(* ArenaRegistry::remove *)
Unlist(gens) ==
    /\ byId' = [i \in Ids |-> IF byId[i] \in gens THEN None ELSE byId[i]]
    /\ byToken' = [g \in Generations |-> IF g \in gens THEN None ELSE byToken[g]]

(* Mutant: the entry is removed whatever its generation. *)
RemoveAnyEntry(t) ==
    /\ pc[t] = "remove" /\ writer = None
    /\ IF byId[job[t].id] = None
         THEN /\ Goto(t, IF job[t].owner THEN "check" ELSE "idle")
              /\ job' = [job EXCEPT ![t] = IF job[t].owner THEN @ ELSE NoJob]
              /\ UNCHANGED <<byId, byToken, writer>>
         ELSE /\ Unlist({byId[job[t].id]}) /\ writer' = t
              /\ job' = [job EXCEPT ![t].gens = @ \cup {byId[job[t].id]}]
              /\ Goto(t, "unpublish")
    /\ UNCHANGED <<idOf, bits, leases, nextId, storage, exec, guards, held, record>>

(* remove_registration up to the bitset.  An owner removes its own generation only,
   and goes on to wait for its leases whoever removed the entry. *)
RemoveEntry(t) ==
    LET j == job[t]
        g == byId[j.id]
        gone == g = None \/ (g \notin j.gens /\ j.gens # {})
    IN  /\ pc[t] = "remove" /\ writer = None
        /\ IF gone
             THEN /\ Goto(t, IF j.owner THEN "check" ELSE "idle")
                  /\ job' = [job EXCEPT ![t] = IF j.owner THEN j ELSE NoJob]
                  /\ UNCHANGED <<byId, byToken, writer>>
             ELSE /\ Unlist({g}) /\ writer' = t
                  /\ job' = [job EXCEPT ![t].gens = {g}] /\ Goto(t, "unpublish")
        /\ UNCHANGED <<idOf, bits, leases, nextId, storage, exec, guards, held, record>>

(* The rest of the write section.  reset_arena_registry has no id and clears all. *)
Unpublish(t) ==
    LET j == job[t]
    IN  /\ pc[t] = "unpublish"
        /\ bits' = IF j.id = None THEN {} ELSE bits \ {j.id}
        /\ writer' = None
        /\ Goto(t, IF j.owner THEN "check" ELSE "drain")
        /\ UNCHANGED <<byId, byToken, idOf, leases, nextId, storage, exec, guards, held, job, record>>

(* RetainedArena::drain returns: the storage is freed after Drained, else retained;
   a removal by id touches no storage.  Dropping an executor ends with it. *)
EndRemoval(t, outcome) ==
    LET j == job[t]
        own == j.owner /\ exec[t].box /\ exec[t].gen \in j.gens
    IN  /\ storage' = [g \in Generations |->
                         IF j.owner /\ g \in j.gens THEN outcome ELSE storage[g]]
        /\ exec' = IF own THEN [exec EXCEPT ![t] = NoExecutor] ELSE exec
        /\ Goto(t, IF own THEN Home(t) ELSE "idle")
        /\ job' = [job EXCEPT ![t] = NoJob]

(* Mutant: the registration counts as drained once the entry is gone. *)
CheckWithoutDraining(t) ==
    /\ pc[t] = "check"
    /\ EndRemoval(t, IF \E l \in held[t] : idOf[l.gen] = job[t].id THEN "retained" ELSE "freed")
    /\ UNCHANGED <<registry, leases, nextId, guards, held, record>>

(* Mutant: a lease of the calling thread is waited for. *)
CheckNothing(t) ==
    /\ pc[t] = "check" /\ Goto(t, "drain")
    /\ UNCHANGED <<registry, leases, nextId, storage, exec, guards, held, job, record>>

(* unregister_and_drain asks, by id, whether the calling thread holds a lease. *)
CheckOwnLease(t) ==
    /\ pc[t] = "check"
    /\ IF \E l \in held[t] : idOf[l.gen] = job[t].id
         THEN EndRemoval(t, "retained")
         ELSE Goto(t, "drain") /\ UNCHANGED <<storage, exec, job>>
    /\ UNCHANGED <<registry, leases, nextId, guards, held, record>>

(* drain_leases has seen every count at zero. *)
Drain(t) ==
    /\ pc[t] = "drain" /\ \A g \in job[t].gens : leases[g] = 0
    /\ EndRemoval(t, "freed")
    /\ UNCHANGED <<registry, leases, nextId, guards, held, record>>

(* A tracing subscriber panics on the warning about a long wait. *)
DrainUnwinds(t) ==
    /\ pc[t] = "drain" /\ \E g \in job[t].gens : leases[g] > 0
    /\ EndRemoval(t, "retained")
    /\ UNCHANGED <<registry, leases, nextId, guards, held, record>>

(* reset_arena_registry, by a caller that holds no lease. *)
ResetRegistry(t) ==
    LET live == {g \in Generations : Registered(g)}
    IN  /\ Free(t) /\ t \notin Workers /\ held[t] = {}
        /\ writer = None /\ live # {}
        /\ Unlist(live) /\ writer' = t
        /\ job' = [job EXCEPT ![t] = [gens |-> live, id |-> None, owner |-> FALSE]]
        /\ Goto(t, "unpublish")
        /\ UNCHANGED <<idOf, bits, leases, nextId, storage, exec, guards, held, record>>

-----------------------------------------------------------------------------
(* Managed threads *)

Runs(t) == Free(t) /\ exec[t].registration

(* Thread(ThreadStart) *)
NewThread(t) ==
    /\ Runs(t) /\ record[t].phase = "none"
    /\ record' = [record EXCEPT ![t].phase = "new"]
    /\ UNCHANGED <<registry, leases, nextId, storage, exec, guards, held, pc, job>>

(* Thread.Start: a second call throws and changes nothing. *)
StartThread(t, w) ==
    /\ Runs(t) /\ record[t].phase = "new" /\ pc[w] = "unspawned"
    /\ record' = [record EXCEPT ![t] = [worker |-> w, phase |-> "started"]]
    /\ Goto(w, "idle")
    /\ UNCHANGED <<registry, leases, nextId, storage, exec, guards, held, job>>

(* Thread.Join yields until the worker's closure has returned. *)
BeginJoin(t) ==
    /\ Runs(t) /\ record[t].phase = "started" /\ held[t] = {}
    /\ record' = [record EXCEPT ![t].phase = "joining"]
    /\ UNCHANGED <<registry, leases, nextId, storage, exec, guards, held, pc, job>>

(* The record goes, whether Join returns or throws for a failed or panicked worker. *)
FinishJoin(t) ==
    /\ record[t].phase = "joining" /\ pc[record[t].worker] = "done"
    /\ record' = [record EXCEPT ![t] = NoRecord]
    /\ UNCHANGED <<registry, leases, nextId, storage, exec, guards, held, pc, job>>

-----------------------------------------------------------------------------

(* What goes on by itself once begun. *)
Continue(t) ==
    \/ Publish(t) \/ CaptureIdentity(t) \/ CaptureRegistration(t) \/ LeaseById(t)
    \/ RemoveEntry(t) \/ Unpublish(t) \/ CheckOwnLease(t) \/ Drain(t) \/ FinishJoin(t)

Next ==
    \E t \in Threads :
        \/ Continue(t) \/ DrainUnwinds(t)
        \/ NewExecutor(t) \/ NewPanics(t) \/ DropExecutor(t) \/ ExtractArena(t) \/ ResetRegistry(t)
        \/ NewThread(t) \/ BeginJoin(t)
        \/ \E id \in Ids : HostRegisters(t, id) \/ AskById(t, id) \/ UnregisterById(t, id)
        \/ \E g \in Generations :
             LeaseByIdentity(t, g) \/ LeaseByToken(t, g) \/ DropGuard(t, g) \/ UnregisterIdentity(t, g)
        \/ \E l \in held[t] : DropLease(t, l)
        \/ \E w \in Workers : StartThread(t, w)

Spec == Init /\ [][Next]_vars

(* A thread inside an operation runs, and a lease ends with the access it is for. *)
Fairness ==
    \A t \in Threads :
        /\ WF_vars(Continue(t))
        /\ WF_vars(\E l \in held[t] : DropLease(t, l))

FairSpec == Spec /\ Fairness

-----------------------------------------------------------------------------
(* Properties *)

TypeOK ==
    /\ byId \in [Ids -> Generations \cup {None}] /\ byToken \in [Generations -> Ids \cup {None}]
    /\ idOf \in [Generations -> Ids \cup {None}] /\ leases \in [Generations -> Nat]
    /\ bits \subseteq Fast /\ writer \in Threads \cup {None} /\ nextId \in 1..(MaxThreadId + 1)
    /\ storage \in [Generations -> {"none", "live", "freed", "retained"}]
    /\ exec \in [Threads -> [gen : Generations \cup {None}, registration : BOOLEAN, box : BOOLEAN]]
    /\ guards \in [Threads -> SUBSET Generations]
    /\ held \in [Threads -> SUBSET [want : Generations \cup {None}, gen : Generations]]
    /\ pc \in [Threads -> Places]
    /\ job \in [Threads -> [gens : SUBSET Generations, id : Ids \cup {None}, owner : BOOLEAN]]
    /\ record \in [Threads -> [worker : Workers \cup {None},
                               phase : {"none", "new", "started", "joining"}]]

(* Memory is never freed while any thread holds a lease on the registration that
   guards it, whoever removed the registry entry (F1.ExecutorArenaRetained). *)
LeasedIsNotFreed ==
    \A t \in Threads : \A l \in held[t] : storage[l.gen] # "freed"

(* A lease asked for by identity or by token is on that very registration, also
   after its id has been registered again (F1.ArenaGenerationMatch). *)
LeaseMatchesIdentity ==
    \A t \in Threads : \A l \in held[t] : l.want \in {None, l.gen}

(* The two indexes of the registry agree, as the assertion in
   try_acquire_lease_for_token expects. *)
IndexesAgree ==
    \A g \in Generations : IF Registered(g) THEN byToken[g] = idOf[g] ELSE byToken[g] = None

(* Outside a write section the bitset is exact for the ids it covers, so the path
   that skips the lock never refuses a registered arena. *)
FastBitsExact ==
    writer = None => bits = {i \in Fast : byId[i] # None}

(* The registry and its shortcuts describe the same arenas. *)
RegistryConsistent == TypeOK /\ IndexesAgree /\ FastBitsExact

(* What is freed can no longer be leased: its entry and its token are gone. *)
FreedIsUnlisted ==
    \A g \in Generations : storage[g] = "freed" => ~Registered(g) /\ byToken[g] = None

(* A lease protects what was asked for, and freed memory is out of use: nobody
   holds a lease on it or can get one. *)
LeasesSound == LeasedIsNotFreed /\ LeaseMatchesIdentity /\ FreedIsUnlisted

(* The registry describes the arenas there are, and a lease on one keeps its memory. *)
RegistrySound == RegistryConsistent /\ LeasesSound

(* A removal that names a generation never removes one that has since taken the id. *)
RemovalIsExact ==
    [][\A g \in Generations : Registered(g) /\ ~Registered(g)' =>
         \E t \in Threads : writer' = t /\ job[t].gens \in {{}, {g}}]_vars

(* When Thread.Join returns, the worker's executor is gone from the registry and its
   arena is freed, or retained for good. *)
JoinAfterTeardown ==
    [][\A t \in Threads : record[t].phase = "joining" /\ record'[t].phase = "none" =>
         exec[record[t].worker] = NoExecutor /\ writer # record[t].worker]_vars

(* A teardown takes away what is its own, all of it, and before it is reported. *)
TeardownIsExact == RemovalIsExact /\ JoinAfterTeardown

(* A teardown always ends: every lease it waits for is dropped and none is added. *)
TeardownEnds ==
    \A t \in Threads : pc[t] \in {"remove", "unpublish", "check", "drain"} ~> pc[t] \in {"idle", "done"}

(* A Join whose worker has begun to tear down returns. *)
JoinReturns ==
    \A t \in Threads, w \in Workers :
        (record[t] = [worker |-> w, phase |-> "joining"] /\ pc[w] = "remove") ~> record[t].phase = "none"

(* Nobody who waits for another thread's leases, or for its end, waits for ever. *)
WaitsEnd == TeardownEnds /\ JoinReturns

=============================================================================
