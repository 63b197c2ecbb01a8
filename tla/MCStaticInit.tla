---------------------------- MODULE MCStaticInit ----------------------------
(* Two threads and types whose constructors touch one another; or two threads and all the
   runtime's locks.  The two share no state, and one of them moves. *)
EXTENDS StaticInit, LockOrder

CONSTANTS t1, t2, c1, c2, c3

VARIABLE part   \* the one that moves

Two == {t1, t2}
ThreeTypes == {c1, c2, c3}
OnePlain == {c3}

StaticsAtRest ==
    /\ state = [c \in Types |-> "uninitialized"] /\ owner = [c \in Types |-> None]
    /\ wait = [t \in Threads |-> None] /\ running = [t \in Threads |-> <<>>]
    /\ pc = [t \in Threads |-> "dead"] /\ target = [t \in Threads |-> c1]
    /\ seen = [t \in Threads |-> None] /\ touches = [t \in Threads |-> MaxTouches]
    /\ stop = FALSE /\ stops = MaxStops /\ parked = {}

RunInit ==
    /\ LocksInit
    /\ \/ part = "statics" /\ Init
       \/ part = "locks" /\ StaticsAtRest
RunNext ==
    /\ \/ part = "statics" /\ Next /\ UNCHANGED lockVars
       \/ part = "locks" /\ LocksNext /\ UNCHANGED vars
    /\ UNCHANGED part

(* At rest, none of the steps that fairness is about is enabled. *)
RunSpec == RunInit /\ [][RunNext]_<<part, vars, lockVars>> /\ Fairness
=============================================================================
