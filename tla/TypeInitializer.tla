--------------------------- MODULE TypeInitializer ---------------------------
(***************************************************************************)
(* What static initialization promises a program, without locks, polling   *)
(* or stops of the world: each type's constructor is run by one thread and *)
(* once, its outcome is final, and an access is answered when the type is  *)
(* ready, by the thread that runs the constructor itself, or when the wait *)
(* would close a ring of waiting threads.  StaticInit implements this.     *)
(***************************************************************************)
EXTENDS Naturals

CONSTANTS
    Threads,
    Types,
    Plain,   \* types without a constructor
    None

VARIABLES
    phase,    \* of each type
    runner,   \* the thread that runs its constructor
    asking,   \* the type each thread is waiting to use
    awaits,   \* the thread it is waiting for
    thrown    \* the threads with an exception in flight

cells == <<phase, runner, asking, awaits, thrown>>

Init ==
    /\ phase = [c \in Types |-> "uninitialized"] /\ runner = [c \in Types |-> None]
    /\ asking = [t \in Threads |-> None] /\ awaits = [t \in Threads |-> None]
    /\ thrown = {}

Ask(t, c) ==
    /\ asking[t] = None /\ t \notin thrown
    /\ asking' = [asking EXCEPT ![t] = c]
    /\ UNCHANGED <<phase, runner, awaits, thrown>>

(* A set that contains what is awaited by t, or by a member, contains u. *)
Leads(t, u) ==
    \A S \in SUBSET Threads :
        (\A v \in S \cup {t} : awaits[v] # None => awaits[v] \in S) => u \in S

(* When the access of t to c may be answered with the type. *)
MayUse(t, c) ==
    \/ phase[c] = "initialized"
    \/ runner[c] = t
    \/ runner[c] # None /\ Leads(runner[c], t)

Use(t, c) ==
    /\ asking[t] = c /\ awaits[t] = None /\ MayUse(t, c)
    /\ asking' = [asking EXCEPT ![t] = None]
    /\ UNCHANGED <<phase, runner, awaits, thrown>>

UsePlain(t, c) ==
    /\ asking[t] = c /\ c \in Plain /\ phase[c] = "uninitialized"
    /\ phase' = [phase EXCEPT ![c] = "initialized"]
    /\ asking' = [asking EXCEPT ![t] = None]
    /\ UNCHANGED <<runner, awaits, thrown>>

(* ... or with the failure of its constructor. *)
Fail(t, c) ==
    /\ asking[t] = c /\ awaits[t] = None /\ phase[c] = "failed"
    /\ asking' = [asking EXCEPT ![t] = None]
    /\ thrown' = thrown \cup {t}
    /\ UNCHANGED <<phase, runner, awaits>>

(* A thread waits for the runner only while that closes no ring. *)
Await(t, c) ==
    /\ asking[t] = c /\ awaits[t] = None
    /\ runner[c] \notin {None, t} /\ ~Leads(runner[c], t)
    /\ awaits' = [awaits EXCEPT ![t] = runner[c]]
    /\ UNCHANGED <<phase, runner, asking, thrown>>

StopWaiting(t) ==
    /\ awaits[t] # None
    /\ awaits' = [awaits EXCEPT ![t] = None]
    /\ UNCHANGED <<phase, runner, asking, thrown>>

Begin(t, c) ==
    /\ asking[t] = c /\ c \notin Plain /\ phase[c] = "uninitialized"
    /\ phase' = [phase EXCEPT ![c] = "initializing"]
    /\ runner' = [runner EXCEPT ![c] = t]
    /\ asking' = [asking EXCEPT ![t] = None]
    /\ UNCHANGED <<awaits, thrown>>

(* The access that ran the constructor is made again. *)
Complete(t, c) ==
    /\ asking[t] = None /\ t \notin thrown /\ runner[c] = t
    /\ phase' = [phase EXCEPT ![c] = "initialized"]
    /\ runner' = [runner EXCEPT ![c] = None]
    /\ asking' = [asking EXCEPT ![t] = c]
    /\ UNCHANGED <<awaits, thrown>>

(* An exception leaves the constructor. *)
Break(t, c) ==
    /\ t \in thrown /\ runner[c] = t
    /\ phase' = [phase EXCEPT ![c] = "failed"]
    /\ runner' = [runner EXCEPT ![c] = None]
    /\ UNCHANGED <<asking, awaits, thrown>>

Throw(t) ==
    /\ asking[t] = None /\ \E c \in Types : runner[c] = t
    /\ thrown' = thrown \cup {t}
    /\ UNCHANGED <<phase, runner, asking, awaits>>

Recover(t) ==
    /\ t \in thrown
    /\ thrown' = thrown \ {t}
    /\ UNCHANGED <<phase, runner, asking, awaits>>

Next ==
    \E t \in Threads :
        \/ StopWaiting(t) \/ Throw(t) \/ Recover(t)
        \/ \E c \in Types :
             \/ Ask(t, c) \/ Use(t, c) \/ UsePlain(t, c) \/ Fail(t, c) \/ Await(t, c)
             \/ Begin(t, c) \/ Complete(t, c) \/ Break(t, c)

Spec == Init /\ [][Next]_cells
=============================================================================
