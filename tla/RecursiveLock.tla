---------------------------- MODULE RecursiveLock ----------------------------
(***************************************************************************)
(* What monitors promise a program: the lock of an object has one owner,   *)
(* who may take it again and again and frees it by leaving as often.       *)
(* Monitor, with its sync blocks, its waits and its retries, implements    *)
(* this.                                                                   *)
(***************************************************************************)
EXTENDS Naturals

CONSTANTS
    Threads,
    Objects,
    None

VARIABLES
    lock,    \* the lock of each object
    inside   \* how often each thread has been let in: thread -> object -> depth

Free == [owner |-> None, count |-> 0]

Init ==
    /\ lock = [o \in Objects |-> Free]
    /\ inside = [t \in Threads |-> [o \in Objects |-> 0]]

Enter(t, o) ==
    /\ lock[o].owner \in {None, t}
    /\ lock' = [lock EXCEPT ![o] = [owner |-> t, count |-> @.count + 1]]
    /\ inside' = [inside EXCEPT ![t][o] = @ + 1]

Exit(t, o) ==
    /\ lock[o].owner = t
    /\ lock' = [lock EXCEPT ![o] = IF @.count = 1 THEN Free ELSE [owner |-> t, count |-> @.count - 1]]
    /\ inside' = [inside EXCEPT ![t][o] = @ - 1]

Next == \E t \in Threads, o \in Objects : Enter(t, o) \/ Exit(t, o)

Spec == Init /\ [][Next]_<<lock, inside>>
=============================================================================
