-------------------------- MODULE StaticInitProofs --------------------------
(***************************************************************************)
(* For any number of threads and types: a .cctor runs on one thread and    *)
(* once, wait_graph stays acyclic, and a wait ends with the type settled.  *)
(*                                                                         *)
(* The cycle test alone does not make the graph acyclic, because           *)
(* wait_for_init inserts an edge again without it.  That the refreshed     *)
(* edge is the one already there rests on WaiterInv: a type's              *)
(* initializing_thread is set once and then only cleared.                  *)
(***************************************************************************)
EXTENDS StaticInit, SequenceTheorems, TLAPS

(* A type is INITIALIZING exactly while it has an initializing thread. *)
OwnedInv == \A c \in Types : state[c] = "initializing" <=> owner[c] # None

(* What a thread on its way through init and wait_for_init knows of its type. *)
WaiterInv ==
    \A t \in Threads :
        /\ pc[t] = "lock" => owner[target[t]] # t
        /\ pc[t] \in WaitPlaces =>
             /\ wait[t] # None
             /\ state[target[t]] # "uninitialized"
             /\ owner[target[t]] \in {None, wait[t]}
        /\ pc[t] = "refresh" => seen[t] \in {None, wait[t]}
        /\ pc[t] \in {"done", "recheck"} => state[target[t]] \in {"initialized", "failed"}

IInv ==
    /\ TypeOK /\ OneInitializer /\ OwnedInv /\ WaiterInv
    /\ EdgeWhileWaiting /\ WaitGraphAcyclic

-----------------------------------------------------------------------------
(* Sequences and the wait graph *)

(* Pushing a type. *)
LEMMA PushFacts ==
    ASSUME NEW s \in Seq(Types), NEW c \in Types
    PROVE  /\ Append(s, c) \in Seq(Types)
           /\ DOMAIN Append(s, c) = DOMAIN s \cup {Len(s) + 1}
           /\ Len(s) + 1 \notin DOMAIN s
           /\ \A i \in DOMAIN s : Append(s, c)[i] = s[i]
           /\ Append(s, c)[Len(s) + 1] = c
  OBVIOUS

(* Popping the innermost type. *)
LEMMA PopFacts ==
    ASSUME NEW s \in Seq(Types), s # <<>>
    PROVE  /\ Len(s) \in DOMAIN s /\ s[Len(s)] \in Types
           /\ SubSeq(s, 1, Len(s) - 1) \in Seq(Types)
           /\ DOMAIN SubSeq(s, 1, Len(s) - 1) = DOMAIN s \ {Len(s)}
           /\ \A i \in DOMAIN s \ {Len(s)} : SubSeq(s, 1, Len(s) - 1)[i] = s[i]
<1>1. Len(s) \in Nat \ {0} /\ DOMAIN s = 1..Len(s)
  OBVIOUS
<1>2. /\ SubSeq(s, 1, Len(s) - 1) \in Seq(Types)
      /\ Len(SubSeq(s, 1, Len(s) - 1)) = Len(s) - 1
      /\ \A i \in 1..(Len(s) - 1) : SubSeq(s, 1, Len(s) - 1)[i] = s[i]
  BY <1>1
<1> QED BY <1>1, <1>2

(* causes_cycle sees the whole chain: what it returns contains the next thread of
   each of its members. *)
LEMMA AwaitedClosed ==
    ASSUME NEW u \in Threads, wait \in [Threads -> Threads \cup {None}],
           NEW v \in Awaited(u) \cup {u}, wait[v] # None
    PROVE  wait[v] \in Awaited(u)
  BY DEF Awaited

(* An edge that causes_cycle has let through closes no ring. *)
LEMMA NewEdgeAcyclic ==
    ASSUME NEW t \in Threads, NEW u \in Threads, t # u,
           wait \in [Threads -> Threads \cup {None}], None \notin Threads,
           WaitGraphAcyclic, ~CausesCycle(t, u),
           wait' = [wait EXCEPT ![t] = u]
    PROVE  WaitGraphAcyclic'
<1> SUFFICES ASSUME NEW S \in SUBSET Threads, \A w \in S : wait'[w] \in S
             PROVE  S = {}
  BY DEF WaitGraphAcyclic
<1>1. CASE t \notin S
  BY <1>1 DEF WaitGraphAcyclic
<1>2. CASE t \in S
  <2> DEFINE R == S \cap (Awaited(u) \cup {u})
  <2>1. t \notin R /\ u \in R
    BY <1>2 DEF CausesCycle
  <2>2. \A w \in R : wait[w] \in R
    <3> SUFFICES ASSUME NEW w \in R PROVE wait[w] \in R
      OBVIOUS
    <3>1. w # t /\ wait[w] \in S
      BY <2>1
    <3>2. wait[w] # None
      BY <3>1
    <3> QED BY <3>1, <3>2, AwaitedClosed
  <2> QED BY Zenon, <2>1, <2>2 DEF WaitGraphAcyclic
<1> QED BY <1>1, <1>2

(* Nor does removing an edge. *)
LEMMA DroppedEdgeAcyclic ==
    ASSUME NEW t \in Threads, wait \in [Threads -> Threads \cup {None}], None \notin Threads,
           WaitGraphAcyclic, wait' = [wait EXCEPT ![t] = None]
    PROVE  WaitGraphAcyclic'
  BY DEF WaitGraphAcyclic

-----------------------------------------------------------------------------
(* The parts that depend on the types and the running constructors only *)

(* A step that leaves types and constructors alone. *)
LEMMA TypesUnchanged ==
    ASSUME OneInitializer, OwnedInv, UNCHANGED <<types, running>>
    PROVE  OneInitializer' /\ OwnedInv'
  BY DEF OneInitializer, OwnedInv, types

(* The invariant holds when no type has been touched. *)
LEMMA InitIInv == Init => IInv
<1> USE StaticInitConstants
<1> SUFFICES ASSUME Init PROVE IInv
  OBVIOUS
<1>1. TypeOK
  <2>1. <<>> \in Seq(Types)
    OBVIOUS
  <2> QED BY Zenon, <2>1 DEF Init, TypeOK, States, Places
<1>2. OneInitializer /\ OwnedInv
  BY DEF Init, OneInitializer, OwnedInv
<1>3. WaiterInv /\ EdgeWhileWaiting
  BY DEF Init, WaiterInv, EdgeWhileWaiting, WaitPlaces
<1>4. WaitGraphAcyclic
  BY DEF Init, WaitGraphAcyclic
<1> QED BY <1>1, <1>2, <1>3, <1>4 DEF IInv

-----------------------------------------------------------------------------
(* Steps that leave the types, the constructors and the graph alone *)

(* Another thread settled the type first. *)
LEMMA SettledPreserves ==
    ASSUME IInv, NEW t \in Threads, Settled(t)
    PROVE  IInv'
<1> USE StaticInitConstants
<1>1. UNCHANGED <<types, running, wait>>
  BY DEF Settled, types
<1>2. OneInitializer' /\ OwnedInv'
  BY <1>1, TypesUnchanged DEF IInv
<1>3. TypeOK'
  BY <1>1 DEF IInv, TypeOK, Settled, Goto, types, world, Places, WaitPlaces
<1>4. WaiterInv' /\ EdgeWhileWaiting'
  BY <1>1 DEF IInv, TypeOK, WaiterInv, OwnedInv, EdgeWhileWaiting, Settled, Goto, types, WaitPlaces, States
<1>5. WaitGraphAcyclic'
  BY <1>1 DEF IInv, WaitGraphAcyclic
<1> QED BY <1>2, <1>3, <1>4, <1>5 DEF IInv

(* A thread uses the type to break a cycle. *)
LEMMA RecursivePreserves ==
    ASSUME IInv, NEW t \in Threads, Recursive(t)
    PROVE  IInv'
<1> USE StaticInitConstants
<1>1. UNCHANGED <<types, running, wait>>
  BY DEF Recursive, types
<1>2. OneInitializer' /\ OwnedInv'
  BY <1>1, TypesUnchanged DEF IInv
<1>3. TypeOK'
  BY <1>1 DEF IInv, TypeOK, Recursive, Goto, types, world, Places, WaitPlaces
<1>4. WaiterInv' /\ EdgeWhileWaiting'
  BY <1>1 DEF IInv, TypeOK, WaiterInv, OwnedInv, EdgeWhileWaiting, Recursive, Goto, types, WaitPlaces, States
<1>5. WaitGraphAcyclic'
  BY <1>1 DEF IInv, WaitGraphAcyclic
<1> QED BY <1>2, <1>3, <1>4, <1>5 DEF IInv

(* A waiter reads the state. *)
LEMMA PollPreserves ==
    ASSUME IInv, NEW t \in Threads, Poll(t)
    PROVE  IInv'
<1> USE StaticInitConstants
<1>1. UNCHANGED <<types, running, wait>>
  BY DEF Poll, types
<1>2. OneInitializer' /\ OwnedInv'
  BY <1>1, TypesUnchanged DEF IInv
<1>3. TypeOK'
  BY <1>1 DEF IInv, TypeOK, Poll, Goto, types, world, Places, WaitPlaces
<1>4. WaiterInv' /\ EdgeWhileWaiting'
  BY <1>1 DEF IInv, TypeOK, WaiterInv, OwnedInv, EdgeWhileWaiting, Poll, Goto, types, WaitPlaces, States
<1>5. WaitGraphAcyclic'
  BY <1>1 DEF IInv, WaitGraphAcyclic
<1> QED BY <1>2, <1>3, <1>4, <1>5 DEF IInv

(* A waiter reads the initializing thread: the one its edge names, or none any more. *)
LEMMA LoadOwnerPreserves ==
    ASSUME IInv, NEW t \in Threads, LoadOwner(t)
    PROVE  IInv'
<1> USE StaticInitConstants
<1>1. UNCHANGED <<types, running, wait>>
  BY DEF LoadOwner, types
<1>2. OneInitializer' /\ OwnedInv'
  BY <1>1, TypesUnchanged DEF IInv
<1>3. TypeOK'
  BY <1>1 DEF IInv, TypeOK, LoadOwner, Goto, types, world, Places, WaitPlaces
<1>4. WaiterInv' /\ EdgeWhileWaiting'
  BY <1>1 DEF IInv, TypeOK, WaiterInv, OwnedInv, EdgeWhileWaiting, LoadOwner, Goto, types, WaitPlaces, States
<1>5. WaitGraphAcyclic'
  BY <1>1 DEF IInv, WaitGraphAcyclic
<1> QED BY <1>2, <1>3, <1>4, <1>5 DEF IInv

(* A waiter looks at the stop request. *)
LEMMA CheckStopPreserves ==
    ASSUME IInv, NEW t \in Threads, CheckStop(t)
    PROVE  IInv'
<1> USE StaticInitConstants
<1>1. UNCHANGED <<types, running, wait>>
  BY DEF CheckStop, types
<1>2. OneInitializer' /\ OwnedInv'
  BY <1>1, TypesUnchanged DEF IInv
<1>3. TypeOK'
  BY <1>1 DEF IInv, TypeOK, CheckStop, Goto, types, world, Places, WaitPlaces
<1>4. WaiterInv' /\ EdgeWhileWaiting'
  BY <1>1 DEF IInv, TypeOK, WaiterInv, OwnedInv, EdgeWhileWaiting, CheckStop, Goto, types, WaitPlaces, States
<1>5. WaitGraphAcyclic'
  BY <1>1 DEF IInv, WaitGraphAcyclic
<1> QED BY <1>2, <1>3, <1>4, <1>5 DEF IInv

(* A waiter's timed wait ends. *)
LEMMA WaitPreserves ==
    ASSUME IInv, NEW t \in Threads, Wait(t)
    PROVE  IInv'
<1> USE StaticInitConstants
<1>1. UNCHANGED <<types, running, wait>>
  BY DEF Wait, types
<1>2. OneInitializer' /\ OwnedInv'
  BY <1>1, TypesUnchanged DEF IInv
<1>3. TypeOK'
  BY <1>1 DEF IInv, TypeOK, Wait, Goto, types, world, Places, WaitPlaces
<1>4. WaiterInv' /\ EdgeWhileWaiting'
  BY <1>1 DEF IInv, TypeOK, WaiterInv, OwnedInv, EdgeWhileWaiting, Wait, Goto, types, WaitPlaces, States
<1>5. WaitGraphAcyclic'
  BY <1>1 DEF IInv, WaitGraphAcyclic
<1> QED BY <1>2, <1>3, <1>4, <1>5 DEF IInv

(* A waiter goes on with the settled type. *)
LEMMA RecheckPreserves ==
    ASSUME IInv, NEW t \in Threads, Recheck(t)
    PROVE  IInv'
<1> USE StaticInitConstants
<1>1. UNCHANGED <<types, running, wait>>
  BY DEF Recheck, types
<1>2. OneInitializer' /\ OwnedInv'
  BY <1>1, TypesUnchanged DEF IInv
<1>3. TypeOK'
  BY <1>1 DEF IInv, TypeOK, Recheck, Goto, types, world, Places, WaitPlaces
<1>4. WaiterInv' /\ EdgeWhileWaiting'
  BY <1>1 DEF IInv, TypeOK, WaiterInv, OwnedInv, EdgeWhileWaiting, Recheck, Goto, types, WaitPlaces, States
<1>5. WaitGraphAcyclic'
  BY <1>1 DEF IInv, WaitGraphAcyclic
<1> QED BY <1>2, <1>3, <1>4, <1>5 DEF IInv

(* A thread that yielded touches its type again. *)
LEMMA RetryPreserves ==
    ASSUME IInv, NEW t \in Threads, Retry(t)
    PROVE  IInv'
<1> USE StaticInitConstants
<1>1. UNCHANGED <<types, running, wait>>
  BY DEF Retry, types
<1>2. OneInitializer' /\ OwnedInv'
  BY <1>1, TypesUnchanged DEF IInv
<1>3. TypeOK'
  BY <1>1 DEF IInv, TypeOK, Retry, Goto, types, world, Places, WaitPlaces
<1>4. WaiterInv' /\ EdgeWhileWaiting'
  BY <1>1 DEF IInv, TypeOK, WaiterInv, OwnedInv, EdgeWhileWaiting, Retry, Goto, types, WaitPlaces, States
<1>5. WaitGraphAcyclic'
  BY <1>1 DEF IInv, WaitGraphAcyclic
<1> QED BY <1>2, <1>3, <1>4, <1>5 DEF IInv

(* A constructor throws. *)
LEMMA ThrowPreserves ==
    ASSUME IInv, NEW t \in Threads, Throw(t)
    PROVE  IInv'
<1> USE StaticInitConstants
<1>1. UNCHANGED <<types, running, wait>>
  BY DEF Throw, types
<1>2. OneInitializer' /\ OwnedInv'
  BY <1>1, TypesUnchanged DEF IInv
<1>3. TypeOK'
  BY <1>1 DEF IInv, TypeOK, Throw, Goto, types, world, Places, WaitPlaces
<1>4. WaiterInv' /\ EdgeWhileWaiting'
  BY <1>1 DEF IInv, TypeOK, WaiterInv, OwnedInv, EdgeWhileWaiting, Throw, Goto, types, WaitPlaces, States
<1>5. WaitGraphAcyclic'
  BY <1>1 DEF IInv, WaitGraphAcyclic
<1> QED BY <1>2, <1>3, <1>4, <1>5 DEF IInv

(* A handler is reached. *)
LEMMA CatchPreserves ==
    ASSUME IInv, NEW t \in Threads, Catch(t)
    PROVE  IInv'
<1> USE StaticInitConstants
<1>1. UNCHANGED <<types, running, wait>>
  BY DEF Catch, types
<1>2. OneInitializer' /\ OwnedInv'
  BY <1>1, TypesUnchanged DEF IInv
<1>3. TypeOK'
  BY <1>1 DEF IInv, TypeOK, Catch, Goto, types, world, Places, WaitPlaces
<1>4. WaiterInv' /\ EdgeWhileWaiting'
  BY <1>1 DEF IInv, TypeOK, WaiterInv, OwnedInv, EdgeWhileWaiting, Catch, Goto, types, WaitPlaces, States
<1>5. WaitGraphAcyclic'
  BY <1>1 DEF IInv, WaitGraphAcyclic
<1> QED BY <1>2, <1>3, <1>4, <1>5 DEF IInv

(* A thread ends. *)
LEMMA DiePreserves ==
    ASSUME IInv, NEW t \in Threads, Die(t)
    PROVE  IInv'
<1> USE StaticInitConstants
<1>1. UNCHANGED <<types, running, wait>>
  BY DEF Die, types
<1>2. OneInitializer' /\ OwnedInv'
  BY <1>1, TypesUnchanged DEF IInv
<1>3. TypeOK'
  BY <1>1 DEF IInv, TypeOK, Die, Goto, types, world, Places, WaitPlaces
<1>4. WaiterInv' /\ EdgeWhileWaiting'
  BY <1>1 DEF IInv, TypeOK, WaiterInv, OwnedInv, EdgeWhileWaiting, Die, Goto, types, WaitPlaces, States
<1>5. WaitGraphAcyclic'
  BY <1>1 DEF IInv, WaitGraphAcyclic
<1> QED BY <1>2, <1>3, <1>4, <1>5 DEF IInv

(* A thread touches a type. *)
LEMMA TouchPreserves ==
    ASSUME IInv, NEW t \in Threads, NEW c \in Types, Touch(t, c)
    PROVE  IInv'
<1> USE StaticInitConstants
<1>1. UNCHANGED <<types, running, wait>>
  BY DEF Touch, types
<1>2. OneInitializer' /\ OwnedInv'
  BY <1>1, TypesUnchanged DEF IInv
<1>3. TypeOK'
  BY <1>1 DEF IInv, TypeOK, Touch, Goto, types, world, Places, WaitPlaces
<1>4. WaiterInv' /\ EdgeWhileWaiting'
  BY <1>1 DEF IInv, TypeOK, WaiterInv, OwnedInv, EdgeWhileWaiting, Touch, Goto, types, WaitPlaces, States
<1>5. WaitGraphAcyclic'
  BY <1>1 DEF IInv, WaitGraphAcyclic
<1> QED BY <1>2, <1>3, <1>4, <1>5 DEF IInv

(* A thread parks. *)
LEMMA ParkPreserves ==
    ASSUME IInv, NEW t \in Threads, Park(t)
    PROVE  IInv'
<1> USE StaticInitConstants
<1>1. UNCHANGED <<types, running, wait>>
  BY DEF Park, types
<1>2. OneInitializer' /\ OwnedInv'
  BY <1>1, TypesUnchanged DEF IInv
<1>3. TypeOK'
  BY <1>1 DEF IInv, TypeOK, Park, types, world, Places, WaitPlaces
<1>4. WaiterInv' /\ EdgeWhileWaiting'
  BY <1>1 DEF IInv, TypeOK, WaiterInv, OwnedInv, EdgeWhileWaiting, Park, types, WaitPlaces, States
<1>5. WaitGraphAcyclic'
  BY <1>1 DEF IInv, WaitGraphAcyclic
<1> QED BY <1>2, <1>3, <1>4, <1>5 DEF IInv

(* The collector asks for a stop. *)
LEMMA RequestStopPreserves ==
    ASSUME IInv, RequestStop
    PROVE  IInv'
<1> USE StaticInitConstants
<1>1. UNCHANGED <<types, running, wait>>
  BY DEF RequestStop, types
<1>2. OneInitializer' /\ OwnedInv'
  BY <1>1, TypesUnchanged DEF IInv
<1>3. TypeOK'
  BY <1>1 DEF IInv, TypeOK, RequestStop, types, world, Places, WaitPlaces
<1>4. WaiterInv' /\ EdgeWhileWaiting'
  BY <1>1 DEF IInv, TypeOK, WaiterInv, OwnedInv, EdgeWhileWaiting, RequestStop, types, WaitPlaces, States
<1>5. WaitGraphAcyclic'
  BY <1>1 DEF IInv, WaitGraphAcyclic
<1> QED BY <1>2, <1>3, <1>4, <1>5 DEF IInv

(* The collector resumes the world. *)
LEMMA ResumePreserves ==
    ASSUME IInv, Resume
    PROVE  IInv'
<1> USE StaticInitConstants
<1>1. UNCHANGED <<types, running, wait>>
  BY DEF Resume, types
<1>2. OneInitializer' /\ OwnedInv'
  BY <1>1, TypesUnchanged DEF IInv
<1>3. TypeOK'
  BY ZenonT(60), <1>1 DEF IInv, TypeOK, Resume, types, world, Places, WaitPlaces
<1>4. WaiterInv' /\ EdgeWhileWaiting'
  BY <1>1 DEF IInv, TypeOK, WaiterInv, OwnedInv, EdgeWhileWaiting, Resume, types, WaitPlaces, States
<1>5. WaitGraphAcyclic'
  BY <1>1 DEF IInv, WaitGraphAcyclic
<1> QED BY <1>2, <1>3, <1>4, <1>5 DEF IInv

-----------------------------------------------------------------------------
(* Steps that change the graph *)

(* The edge goes in after the cycle test. *)
LEMMA AddEdgePreserves ==
    ASSUME IInv, NEW t \in Threads, AddEdge(t)
    PROVE  IInv'
<1> USE StaticInitConstants
<1>1. UNCHANGED <<types, running>>
  BY DEF AddEdge, types
<1>2. OneInitializer' /\ OwnedInv'
  BY <1>1, TypesUnchanged DEF IInv
<1>3. owner[target[t]] \in Threads \ {t}
  BY DEF IInv, TypeOK, OwnedInv, WaiterInv, AddEdge
<1>4. TypeOK'
  BY <1>1, <1>3 DEF IInv, TypeOK, AddEdge, Goto, types, world, Places, WaitPlaces
<1>5. WaiterInv' /\ EdgeWhileWaiting'
  BY <1>1, <1>3 DEF IInv, TypeOK, WaiterInv, OwnedInv, EdgeWhileWaiting, AddEdge, Goto, types, WaitPlaces
<1>6. WaitGraphAcyclic'
  BY Zenon, <1>3, NewEdgeAcyclic DEF IInv, TypeOK, AddEdge
<1> QED BY <1>2, <1>4, <1>5, <1>6 DEF IInv

(* The refreshed edge is the one already there. *)
LEMMA RefreshPreserves ==
    ASSUME IInv, NEW t \in Threads, Refresh(t)
    PROVE  IInv'
<1> USE StaticInitConstants
<1>1. UNCHANGED <<types, running, wait>>
  <2>1. seen[t] \in {None, wait[t]} /\ wait \in [Threads -> Threads \cup {None}]
    BY DEF IInv, TypeOK, WaiterInv, Refresh
  <2> QED BY <2>1 DEF Refresh, types
<1>2. OneInitializer' /\ OwnedInv'
  BY <1>1, TypesUnchanged DEF IInv
<1>3. TypeOK'
  BY <1>1 DEF IInv, TypeOK, Refresh, Goto, types, world, Places, WaitPlaces
<1>4. WaiterInv' /\ EdgeWhileWaiting'
  BY <1>1 DEF IInv, TypeOK, WaiterInv, EdgeWhileWaiting, Refresh, Goto, types, WaitPlaces
<1>5. WaitGraphAcyclic'
  BY <1>1 DEF IInv, WaitGraphAcyclic
<1> QED BY <1>2, <1>3, <1>4, <1>5 DEF IInv

(* The guard is dropped. *)
LEMMA DropEdgePreserves ==
    ASSUME IInv, NEW t \in Threads, DropEdge(t)
    PROVE  IInv'
<1> USE StaticInitConstants
<1>1. UNCHANGED <<types, running>>
  BY DEF DropEdge, types
<1>2. OneInitializer' /\ OwnedInv'
  BY <1>1, TypesUnchanged DEF IInv
<1>3. TypeOK'
  BY <1>1 DEF IInv, TypeOK, DropEdge, Goto, types, world, Places, WaitPlaces
<1>4. WaiterInv' /\ EdgeWhileWaiting'
  BY <1>1 DEF IInv, TypeOK, WaiterInv, EdgeWhileWaiting, DropEdge, Goto, types, WaitPlaces
<1>5. WaitGraphAcyclic'
  BY Zenon, DroppedEdgeAcyclic DEF IInv, TypeOK, DropEdge
<1> QED BY <1>2, <1>3, <1>4, <1>5 DEF IInv

-----------------------------------------------------------------------------
(* Steps that change the state of a type *)

(* The test before the lock initializes a type without a constructor. *)
LEMMA CheckStatePreserves ==
    ASSUME IInv, NEW t \in Threads, CheckState(t)
    PROVE  IInv'
<1> USE StaticInitConstants
<1>1. UNCHANGED <<owner, running, wait>>
  BY DEF CheckState
<1>2. TypeOK'
  BY ZenonT(60), <1>1 DEF IInv, TypeOK, CheckState, Goto, world, Places, States
<1>3. \A c \in Types : state'[c] = state[c]
                      \/ (state[c] = "uninitialized" /\ state'[c] = "initialized")
  BY DEF IInv, TypeOK, CheckState
<1>4. OneInitializer' /\ OwnedInv'
  BY <1>1, <1>3 DEF IInv, OneInitializer, OwnedInv
<1>5. WaiterInv' /\ EdgeWhileWaiting'
  <2>1. /\ target' = target /\ seen' = seen
        /\ pc'[t] \in {"run", "throwing", "lock"}
        /\ \A u \in Threads \ {t} : pc'[u] = pc[u]
        /\ pc[t] = "init" /\ target \in [Threads -> Types]
    BY DEF IInv, TypeOK, CheckState, Goto
  <2>2. pc'[t] = "lock" => owner[target[t]] # t
    BY DEF IInv, TypeOK, OwnedInv, CheckState, Goto, States
  <2>3. \A c \in Types : state'[c] = "uninitialized" => state[c] = "uninitialized"
    BY <1>3
  <2>4. \A c \in Types : state[c] \in {"initialized", "failed"} => state'[c] = state[c]
    BY <1>3
  <2> QED BY <1>1, <2>1, <2>2, <2>3, <2>4 DEF IInv, WaiterInv, EdgeWhileWaiting, WaitPlaces
<1>6. WaitGraphAcyclic'
  BY <1>1 DEF IInv, WaitGraphAcyclic
<1> QED BY <1>2, <1>4, <1>5, <1>6 DEF IInv

(* One thread takes the constructor of a type nobody has touched. *)
LEMMA ExecutePreserves ==
    ASSUME IInv, NEW t \in Threads, Execute(t)
    PROVE  IInv'
<1> USE StaticInitConstants
<1> DEFINE c == target[t]
           s == running[t]
<1>1. c \in Types /\ s \in Seq(Types) /\ state[c] = "uninitialized" /\ owner[c] = None
  BY DEF IInv, TypeOK, OwnedInv, Execute
<1>2. /\ state' = [state EXCEPT ![c] = "initializing"] /\ owner' = [owner EXCEPT ![c] = t]
      /\ running' = [running EXCEPT ![t] = Append(s, c)]
      /\ UNCHANGED wait
  BY DEF Execute
<1>3. TypeOK'
  BY <1>1, <1>2, PushFacts DEF IInv, TypeOK, Execute, Goto, world, Places, States
<1>4. OneInitializer'
  <2> HIDE DEF c, s
  <2>1. /\ DOMAIN Append(s, c) = DOMAIN s \cup {Len(s) + 1}
        /\ Len(s) + 1 \notin DOMAIN s
        /\ \A i \in DOMAIN s : Append(s, c)[i] = s[i]
        /\ Append(s, c)[Len(s) + 1] = c
    BY <1>1, PushFacts
  <2>2. \A u \in Threads : \A i \in DOMAIN running[u] : running[u][i] # c
    BY <1>1 DEF IInv, OneInitializer
  <2>3. running'[t] = Append(s, c) /\ running[t] = s /\ \A u \in Threads \ {t} : running'[u] = running[u]
    BY <1>2 DEF IInv, TypeOK, s
  <2>4. /\ owner'[c] = t /\ state'[c] = "initializing"
        /\ \A d \in Types \ {c} : owner'[d] = owner[d] /\ state'[d] = state[d]
    BY <1>1, <1>2 DEF IInv, TypeOK
  <2> SUFFICES ASSUME NEW u \in Threads, NEW d \in Types
               PROVE  /\ owner'[d] = u <=> (\E i \in DOMAIN running'[u] : running'[u][i] = d)
                      /\ owner'[d] = u => state'[d] = "initializing"
                      /\ \A i, j \in DOMAIN running'[u] :
                           running'[u][i] = running'[u][j] => i = j
    BY DEF OneInitializer
  <2>5. /\ owner[d] = u <=> (\E i \in DOMAIN running[u] : running[u][i] = d)
        /\ owner[d] = u => state[d] = "initializing"
        /\ \A i, j \in DOMAIN running[u] : running[u][i] = running[u][j] => i = j
    BY DEF IInv, OneInitializer
  <2>6. CASE u = t
    <3> DEFINE r == Append(s, c)
               n == Len(s) + 1
    <3>1. /\ running'[u] = r /\ DOMAIN r = DOMAIN s \cup {n} /\ n \notin DOMAIN s
          /\ (\A i \in DOMAIN s : r[i] = s[i]) /\ r[n] = c
          /\ \A i \in DOMAIN s : s[i] # c
      BY <2>1, <2>2, <2>3, <2>6
    <3>2. /\ owner[d] = t <=> (\E i \in DOMAIN s : s[i] = d)
          /\ \A i, j \in DOMAIN s : s[i] = s[j] => i = j
      BY <2>3, <2>5, <2>6
    <3> HIDE DEF r, n
    <3>3. \A i, j \in DOMAIN r : r[i] = r[j] => i = j
      BY <3>1, <3>2
    <3>4. owner'[d] = t <=> (\E i \in DOMAIN r : r[i] = d)
      BY <1>1, <2>4, <3>1, <3>2
    <3> QED BY <2>4, <2>5, <2>6, <3>1, <3>3, <3>4
  <2>7. CASE u # t
    BY <1>1, <2>2, <2>3, <2>4, <2>5, <2>7
  <2> QED BY <2>6, <2>7
<1>5. OwnedInv'
  BY <1>1, <1>2 DEF IInv, TypeOK, OwnedInv
<1>6. WaiterInv' /\ EdgeWhileWaiting'
  BY <1>1, <1>2 DEF IInv, TypeOK, WaiterInv, EdgeWhileWaiting, Execute, Goto, WaitPlaces
<1>7. WaitGraphAcyclic'
  BY Zenon, <1>2 DEF IInv, WaitGraphAcyclic
<1> QED BY <1>3, <1>4, <1>5, <1>6, <1>7 DEF IInv

(* The end of a constructor, by return or by exception, settles the type it was
   running for and no other. *)
LEMMA SettlePreserves ==
    ASSUME IInv, NEW t \in Threads, running[t] # <<>>, pc[t] \in {"run", "throwing"},
           NEW outcome \in {"initialized", "failed"},
           state' = [state EXCEPT ![Innermost(t)] = outcome],
           owner' = [owner EXCEPT ![Innermost(t)] = None],
           running' = Outer(t)
    PROVE  /\ Innermost(t) \in Types /\ owner[Innermost(t)] = t
           /\ state[Innermost(t)] = "initializing"
           /\ running' \in [Threads -> Seq(Types)]
           /\ OneInitializer' /\ OwnedInv'
<1> USE StaticInitConstants
<1> DEFINE c == Innermost(t)
           s == running[t]
           p == SubSeq(s, 1, Len(s) - 1)
<1>1. s \in Seq(Types) /\ s # <<>> /\ running \in [Threads -> Seq(Types)]
  BY DEF IInv, TypeOK
<1>2. /\ Len(s) \in DOMAIN s /\ c = s[Len(s)] /\ c \in Types
      /\ p \in Seq(Types) /\ DOMAIN p = DOMAIN s \ {Len(s)}
      /\ \A i \in DOMAIN s \ {Len(s)} : p[i] = s[i]
  BY <1>1, PopFacts DEF Innermost
<1>3. running' = [running EXCEPT ![t] = p]
  BY DEF Outer
<1> HIDE DEF c, s, p
<1>4. owner[c] = t /\ state[c] = "initializing"
  BY <1>2 DEF IInv, OneInitializer, s
<1>5. running' \in [Threads -> Seq(Types)]
  BY <1>1, <1>2, <1>3
<1>6. running'[t] = p /\ running[t] = s /\ \A u \in Threads \ {t} : running'[u] = running[u]
  BY <1>1, <1>3 DEF s
<1>7. /\ owner'[c] = None /\ state'[c] = outcome
      /\ \A d \in Types \ {c} : owner'[d] = owner[d] /\ state'[d] = state[d]
  BY <1>2 DEF IInv, TypeOK, c
<1>8. OneInitializer'
  <2>1. \A i \in DOMAIN p : p[i] # c
    BY SMTT(30), <1>2 DEF IInv, OneInitializer, s
  <2>2. \A u \in Threads \ {t} : \A i \in DOMAIN running[u] : running[u][i] # c
    BY <1>2, <1>4 DEF IInv, OneInitializer
  <2>3. ASSUME NEW u \in Threads, NEW d \in Types
        PROVE  /\ owner'[d] = u <=> (\E i \in DOMAIN running'[u] : running'[u][i] = d)
               /\ owner'[d] = u => state'[d] = "initializing"
               /\ \A i, j \in DOMAIN running'[u] : running'[u][i] = running'[u][j] => i = j
    <3>1. /\ owner[d] = u <=> (\E i \in DOMAIN running[u] : running[u][i] = d)
          /\ owner[d] = u => state[d] = "initializing"
          /\ \A i, j \in DOMAIN running[u] : running[u][i] = running[u][j] => i = j
      BY DEF IInv, OneInitializer
    <3>2. CASE u = t
      <4>1. \A i, j \in DOMAIN p : p[i] = p[j] => i = j
        BY <1>2, <1>6, <3>1, <3>2
      <4>2. CASE d = c
        BY <1>6, <1>7, <2>1, <3>2, <4>1, <4>2
      <4>3. CASE d # c
        <5>1. (\E i \in DOMAIN p : p[i] = d) <=> (\E i \in DOMAIN s : s[i] = d)
          BY <1>2, <4>3
        <5> QED BY <1>6, <1>7, <3>1, <3>2, <4>1, <4>3, <5>1
      <4> QED BY <4>2, <4>3
    <3>3. CASE u # t
      <4>1. CASE d = c
        BY <1>6, <1>7, <2>2, <3>1, <3>3, <4>1
      <4>2. CASE d # c
        BY <1>6, <1>7, <3>1, <3>3, <4>2
      <4> QED BY <4>1, <4>2
    <3> QED BY <3>2, <3>3
  <2> QED BY <2>3 DEF OneInitializer
<1>9. OwnedInv'
  BY <1>2, <1>7 DEF IInv, OwnedInv
<1> QED BY <1>2, <1>4, <1>5, <1>8, <1>9 DEF c

(* A constructor returns. *)
LEMMA FinishPreserves ==
    ASSUME IInv, NEW t \in Threads, Finish(t)
    PROVE  IInv'
<1> USE StaticInitConstants
<1>1. /\ Innermost(t) \in Types /\ owner[Innermost(t)] = t
      /\ state[Innermost(t)] = "initializing"
      /\ running' \in [Threads -> Seq(Types)]
      /\ OneInitializer' /\ OwnedInv'
  BY Zenon, SettlePreserves DEF Finish
<1>2. TypeOK'
  BY Zenon, <1>1 DEF IInv, TypeOK, Finish, Goto, world, Places, States
<1>3. WaiterInv' /\ EdgeWhileWaiting'
  <2>1. WaiterInv'
    BY <1>1 DEF IInv, TypeOK, WaiterInv, Finish, Goto, WaitPlaces
  <2>2. EdgeWhileWaiting'
    BY Zenon, <1>1 DEF IInv, TypeOK, EdgeWhileWaiting, Finish, Goto, WaitPlaces
  <2> QED BY <2>1, <2>2
<1>4. WaitGraphAcyclic'
  BY DEF IInv, WaitGraphAcyclic, Finish
<1> QED BY <1>1, <1>2, <1>3, <1>4 DEF IInv

(* A constructor's frame is unwound. *)
LEMMA UnwindPreserves ==
    ASSUME IInv, NEW t \in Threads, Unwind(t)
    PROVE  IInv'
<1> USE StaticInitConstants
<1>1. /\ Innermost(t) \in Types /\ owner[Innermost(t)] = t
      /\ state[Innermost(t)] = "initializing"
      /\ running' \in [Threads -> Seq(Types)]
      /\ OneInitializer' /\ OwnedInv'
  BY Zenon, SettlePreserves DEF Unwind
<1>2. TypeOK'
  BY <1>1 DEF IInv, TypeOK, Unwind, world, Places, States
<1>3. WaiterInv' /\ EdgeWhileWaiting'
  <2>1. WaiterInv'
    BY ZenonT(60), <1>1 DEF IInv, TypeOK, WaiterInv, Unwind, WaitPlaces
  <2>2. EdgeWhileWaiting'
    BY <1>1 DEF IInv, TypeOK, EdgeWhileWaiting, Unwind, WaitPlaces
  <2> QED BY <2>1, <2>2
<1>4. WaitGraphAcyclic'
  BY DEF IInv, WaitGraphAcyclic, Unwind
<1> QED BY <1>1, <1>2, <1>3, <1>4 DEF IInv

-----------------------------------------------------------------------------
(* The theorems *)

(* Every step keeps the invariant. *)
LEMMA NextPreserves == IInv /\ [Next]_vars => IInv'
<1> SUFFICES ASSUME IInv, [Next]_vars PROVE IInv'
  OBVIOUS
<1>1. CASE UNCHANGED vars
  <2>1. OneInitializer' /\ OwnedInv'
    BY <1>1, TypesUnchanged DEF vars, types, IInv
  <2>2. TypeOK'
    BY <1>1 DEF vars, IInv, TypeOK
  <2>3. WaiterInv' /\ EdgeWhileWaiting'
    BY <1>1 DEF vars, IInv, WaiterInv, EdgeWhileWaiting
  <2>4. WaitGraphAcyclic'
    BY <1>1 DEF vars, IInv, WaitGraphAcyclic
  <2> QED BY <2>1, <2>2, <2>3, <2>4 DEF IInv
<1>2. ASSUME NEW t \in Threads, Step(t) PROVE IInv'
  BY <1>2, CheckStatePreserves, ExecutePreserves, SettledPreserves, RecursivePreserves,
     AddEdgePreserves, PollPreserves, LoadOwnerPreserves, RefreshPreserves, CheckStopPreserves,
     WaitPreserves, DropEdgePreserves, RecheckPreserves, RetryPreserves, UnwindPreserves,
     ParkPreserves DEF Step
<1>3. ASSUME NEW t \in Threads, Finish(t) \/ Throw(t) \/ Catch(t) \/ Die(t) PROVE IInv'
  BY <1>3, FinishPreserves, ThrowPreserves, CatchPreserves, DiePreserves
<1>4. ASSUME NEW t \in Threads, NEW c \in Types, Touch(t, c) PROVE IInv'
  BY <1>4, TouchPreserves
<1>5. CASE RequestStop \/ Resume
  BY <1>5, RequestStopPreserves, ResumePreserves
<1> QED BY <1>1, <1>2, <1>3, <1>4, <1>5 DEF Next

(* The inductive invariant holds in every reachable state. *)
THEOREM Invariance == Spec => []IInv
  BY InitIInv, NextPreserves, PTL DEF Spec

(* TypeOK: types, and no thread ever waits for itself. *)
THEOREM TypeCorrect == Spec => []TypeOK
<1>1. IInv => TypeOK
  BY DEF IInv
<1> QED BY <1>1, Invariance, PTL

(* OneInitializer: StaticStorageManager::init assigns a .cctor to exactly one thread,
   and it stays assigned until mark_initialized or mark_failed. *)
THEOREM CctorRunsOnce == Spec => []OneInitializer
<1>1. IInv => OneInitializer
  BY DEF IInv
<1> QED BY <1>1, Invariance, PTL

(* WaitGraphAcyclic: with causes_cycle before every new edge no ring of waiting
   threads ever forms, whatever the constructors touch. *)
THEOREM NoRing == Spec => []WaitGraphAcyclic
<1>1. IInv => WaitGraphAcyclic
  BY DEF IInv
<1> QED BY <1>1, Invariance, PTL

(* EdgeWhileWaiting: wait_for_init leaves no edge behind on any return path. *)
THEOREM EdgesAreRemoved == Spec => []EdgeWhileWaiting
<1>1. IInv => EdgeWhileWaiting
  BY DEF IInv
<1> QED BY <1>1, Invariance, PTL

(* WaitConverges: the unreachable! arm after wait_for_init is unreachable. *)
THEOREM WaitsConverge == Spec => []WaitConverges
<1>1. IInv => WaitConverges
  BY DEF IInv, WaiterInv, WaitConverges
<1> QED BY <1>1, Invariance, PTL

(* OutcomeIsFinal: no step changes the state of a type that has been settled. *)
THEOREM OutcomesAreFinal == Spec => OutcomeIsFinal
<1> DEFINE A == \A c \in Types : state[c] \in {"initialized", "failed"} => state'[c] = state[c]
<1>1. IInv /\ [Next]_vars => [A]_vars
  <2> SUFFICES ASSUME IInv, Next PROVE A
    BY DEF vars
  <2>1. ASSUME NEW t \in Threads, Step(t) PROVE A
    <3>1. CASE Unwind(t)
      BY Zenon, <3>1, SettlePreserves DEF Unwind, IInv, TypeOK
    <3>2. CASE CheckState(t)
      BY <3>2 DEF CheckState, IInv, TypeOK
    <3>3. CASE Execute(t)
      BY <3>3 DEF Execute, IInv, TypeOK
    <3> QED BY Zenon, <2>1, <3>1, <3>2, <3>3 DEF Step, Settled, Recursive, AddEdge, Poll, LoadOwner,
            Refresh, CheckStop, Wait, DropEdge, Recheck, Retry, Park, types
  <2>2. ASSUME NEW t \in Threads, Finish(t) PROVE A
    BY Zenon, <2>2, SettlePreserves DEF Finish, IInv, TypeOK
  <2>3. ASSUME NEW t \in Threads, Throw(t) \/ Catch(t) \/ Die(t) PROVE A
    BY Zenon, <2>3 DEF Throw, Catch, Die, types
  <2>4. ASSUME NEW t \in Threads, NEW c \in Types, Touch(t, c) PROVE A
    BY <2>4 DEF Touch, types
  <2>5. CASE RequestStop \/ Resume
    BY <2>5 DEF RequestStop, Resume, types
  <2> QED BY Zenon, <2>1, <2>2, <2>3, <2>4, <2>5 DEF Next
<1> QED BY <1>1, Invariance, PTL DEF Spec, OutcomeIsFinal

-----------------------------------------------------------------------------
(* The refinement *)

(* A type without a .cctor is never being initialized, and nobody takes its lock. *)
PlainInv ==
    /\ \A c \in Plain : state[c] # "initializing"
    /\ \A t \in Threads : pc[t] = "lock" => target[t] \notin Plain

(* The type each thread is waiting to use, and the threads with an exception in flight. *)
Asks == [t \in Threads |-> IF Accessing(t) THEN target[t] ELSE None]
Thrown == {t \in Threads : pc[t] = "throwing"}

(* Every step keeps it: StaticStorageManager::init goes on to the lock only for a type
   that has a .cctor. *)
LEMMA PlainStep == IInv /\ PlainInv /\ [Next]_vars => PlainInv'
<1> SUFFICES ASSUME IInv, PlainInv, [Next]_vars PROVE PlainInv'
  OBVIOUS
<1>1. TypeOK /\ Plain \subseteq Types
  BY StaticInitConstants DEF IInv
<1>2. ASSUME NEW t \in Threads, UNCHANGED state,
             \A u \in Threads \ {t} : pc'[u] = pc[u] /\ target'[u] = target[u],
             pc'[t] # "lock" \/ (pc'[t] = pc[t] /\ target'[t] = target[t])
      PROVE  PlainInv'
  BY <1>2 DEF PlainInv
<1>3. ASSUME NEW t \in Threads, CheckState(t) PROVE PlainInv'
  <2>1. target[t] \in Types /\ target' = target /\ \A u \in Threads \ {t} : pc'[u] = pc[u]
    BY <1>1, <1>3 DEF CheckState, Goto, TypeOK
  <2>2. \A c \in Types : state'[c] = state[c] \/ state'[c] = "initialized"
    BY <1>1, <1>3, <2>1 DEF CheckState, TypeOK
  <2>3. pc'[t] = "lock" => target[t] \notin Plain
    BY <1>1, <1>3 DEF CheckState, Goto, TypeOK
  <2> QED BY <1>1, <2>1, <2>2, <2>3 DEF PlainInv
<1>4. ASSUME NEW t \in Threads, Execute(t) PROVE PlainInv'
  <2>1. target[t] \in Types \ Plain /\ target' = target
    BY <1>1, <1>4 DEF Execute, TypeOK, PlainInv
  <2>2. \A c \in Types \ {target[t]} : state'[c] = state[c]
    BY <1>1, <1>4 DEF Execute, TypeOK
  <2>3. \A u \in Threads : pc'[u] = IF u = t THEN "run" ELSE pc[u]
    BY <1>1, <1>4 DEF Execute, Goto, TypeOK
  <2> QED BY <1>1, <2>1, <2>2, <2>3 DEF PlainInv
<1>5. ASSUME NEW t \in Threads, Finish(t) \/ Unwind(t) PROVE PlainInv'
  <2>1. \A c \in Types : state'[c] = state[c] \/ state'[c] \in {"initialized", "failed"}
    BY <1>1, <1>5 DEF Finish, Unwind, TypeOK
  <2>2. \A u \in Threads : (pc'[u] = pc[u] /\ target'[u] = target[u]) \/ pc'[u] = "init"
    BY <1>1, <1>5 DEF Finish, Unwind, Goto, TypeOK
  <2> QED BY <1>1, <2>1, <2>2 DEF PlainInv
<1>6. ASSUME NEW t \in Threads,
             \/ Settled(t) \/ Recursive(t) \/ AddEdge(t) \/ Poll(t) \/ LoadOwner(t) \/ Refresh(t)
             \/ CheckStop(t) \/ Wait(t) \/ DropEdge(t) \/ Recheck(t) \/ Retry(t) \/ Park(t)
      PROVE  PlainInv'
  <2>1. UNCHANGED <<state, target>>
    BY Zenon, <1>6 DEF Settled, Recursive, AddEdge, Poll, LoadOwner, Refresh, CheckStop, Wait, DropEdge, Recheck,
                Retry, Park, types
  <2>2. \A u \in Threads : pc'[u] = pc[u] \/ (u = t /\ pc'[u] # "lock")
    BY ZenonT(60), <1>1, <1>6 DEF Settled, Recursive, AddEdge, Poll, LoadOwner, Refresh, CheckStop, Wait, DropEdge, Recheck,
                      Retry, Park, Goto, TypeOK
  <2> QED BY <2>1, <2>2 DEF PlainInv
<1>7. ASSUME NEW t \in Threads, Throw(t) \/ Catch(t) \/ Die(t) PROVE PlainInv'
  <2>1. UNCHANGED <<state, target>> /\ \A u \in Threads : pc'[u] = pc[u] \/ pc'[u] # "lock"
    BY <1>1, <1>7 DEF Throw, Catch, Die, Goto, TypeOK, types
  <2> QED BY <2>1 DEF PlainInv
<1>8. ASSUME NEW t \in Threads, NEW c \in Types, Touch(t, c) PROVE PlainInv'
  <2>1. /\ UNCHANGED state
        /\ \A u \in Threads : IF u = t THEN pc'[u] = "init" ELSE pc'[u] = pc[u] /\ target'[u] = target[u]
    BY <1>1, <1>8 DEF Touch, Goto, TypeOK, types
  <2> QED BY <2>1 DEF PlainInv
<1>9. CASE RequestStop \/ Resume \/ UNCHANGED vars
  BY Zenon, <1>9 DEF RequestStop, Resume, vars, types, PlainInv
<1> QED BY <1>3, <1>4, <1>5, <1>6, <1>7, <1>8, <1>9 DEF Next, Step

(* Who asks for what, after a step of one thread. *)
LEMMA AsksStep ==
    ASSUME TypeOK, NEW t \in Threads, NEW x,
           \A u \in Threads \ {t} : pc'[u] = pc[u] /\ target'[u] = target[u],
           x = IF Accessing(t)' THEN target'[t] ELSE None
    PROVE  /\ Asks' = [Asks EXCEPT ![t] = x] /\ x = Asks'[t]
           /\ Asks[t] = IF Accessing(t) THEN target[t] ELSE None
           /\ Thrown' = IF pc'[t] = "throwing" THEN Thrown \cup {t} ELSE Thrown \ {t}
<1>1. \A u \in Threads \ {t} : Accessing(u)' = Accessing(u)
  BY DEF Accessing
<1>2. \A u \in Threads : Asks'[u] = IF u = t THEN x ELSE Asks[u]
  BY <1>1 DEF Asks
<1>3. Asks' = [Asks EXCEPT ![t] = x]
  BY Zenon, <1>2 DEF Asks
<1> QED BY Zenon, <1>2, <1>3 DEF Asks, Thrown

(* The same, for a step in which the thread neither is nor starts unwinding. *)
LEMMA AsksUnthrown ==
    ASSUME TypeOK, NEW t \in Threads, NEW x,
           \A u \in Threads \ {t} : pc'[u] = pc[u] /\ target'[u] = target[u],
           x = IF Accessing(t)' THEN target'[t] ELSE None,
           t \notin Thrown, pc'[t] # "throwing"
    PROVE  /\ Asks' = [Asks EXCEPT ![t] = x] /\ Thrown' = Thrown
           /\ Asks[t] = IF Accessing(t) THEN target[t] ELSE None
<1>1. /\ Asks' = [Asks EXCEPT ![t] = x] /\ Thrown' = Thrown \ {t}
      /\ Asks[t] = IF Accessing(t) THEN target[t] ELSE None
  BY Zenon, AsksStep
<1> QED BY <1>1

(* An access that is answered with the type. *)
LEMMA AllowsUse ==
    ASSUME IInv, NEW t \in Threads, NEW c \in Types, c = target[t],
           Accessing(t), pc[t] \notin WaitPlaces, pc' = [pc EXCEPT ![t] = "run"],
           UNCHANGED <<state, owner, wait, target>>,
           \/ state[target[t]] = "initialized" \/ owner[target[t]] = t
           \/ owner[target[t]] # None /\ CausesCycle(t, owner[target[t]])
    PROVE  Promise!Use(t, c)
<1>1. TypeOK /\ wait[t] = None
  BY DEF IInv, EdgeWhileWaiting
<1>2. \A u \in Threads : pc'[u] = IF u = t THEN "run" ELSE pc[u]
  BY <1>1 DEF TypeOK
<1>3. ~Accessing(t)' /\ t \notin Thrown
  BY <1>2 DEF Accessing, WaitPlaces, Thrown
<1>4. Asks' = [Asks EXCEPT ![t] = None] /\ Asks[t] = target[t] /\ Thrown' = Thrown
  <2>1. \A u \in Threads \ {t} : pc'[u] = pc[u] /\ target'[u] = target[u]
    BY <1>2
  <2>2. None = (IF Accessing(t)' THEN target'[t] ELSE None) /\ pc'[t] # "throwing"
    BY <1>2, <1>3
  <2> QED BY Zenon, <1>1, <1>3, <2>1, <2>2, AsksUnthrown
<1>5. Promise!MayUse(t, c)
  BY DEF Promise!MayUse, Promise!Leads, CausesCycle, Awaited
<1> QED BY Zenon, <1>1, <1>4, <1>5 DEF Promise!Use, Asks, Thrown

(* An access that is answered with the failure of the .cctor. *)
LEMMA AllowsFail ==
    ASSUME IInv, NEW t \in Threads, NEW c \in Types, c = target[t],
           Accessing(t), pc[t] \notin WaitPlaces, pc' = [pc EXCEPT ![t] = "throwing"],
           UNCHANGED <<state, owner, wait, target>>, state[target[t]] = "failed"
    PROVE  Promise!Fail(t, c)
<1>1. TypeOK /\ wait[t] = None
  BY DEF IInv, EdgeWhileWaiting
<1>2. \A u \in Threads : pc'[u] = IF u = t THEN "throwing" ELSE pc[u]
  BY <1>1 DEF TypeOK
<1>3. ~Accessing(t)'
  BY <1>2 DEF Accessing, WaitPlaces
<1>4. Asks' = [Asks EXCEPT ![t] = None] /\ Asks[t] = target[t] /\ Thrown' = Thrown \cup {t}
  BY <1>1, <1>2, <1>3, AsksStep
<1> QED BY Zenon, <1>1, <1>4 DEF Promise!Fail, Asks, Thrown

Quiet == UNCHANGED <<state, owner, Asks, wait, Thrown>>

(* A step inside an access, or of a thread outside any. *)
LEMMA AllowsQuiet ==
    ASSUME TypeOK, NEW t \in Threads, NEW place, pc' = [pc EXCEPT ![t] = place],
           UNCHANGED <<state, owner, wait, target>>,
           Accessing(t) <=> Accessing(t)', pc[t] = "throwing" <=> place = "throwing"
    PROVE  Quiet
<1>1. \A u \in Threads : pc'[u] = IF u = t THEN place ELSE pc[u]
  BY DEF TypeOK
<1>2. \A u \in Threads : Accessing(u)' = Accessing(u)
  BY <1>1 DEF Accessing
<1>3. Asks' = Asks
  BY <1>2 DEF Asks
<1>4. Thrown' = Thrown
  BY <1>1 DEF Thrown
<1> QED BY <1>3, <1>4 DEF Quiet

Allowed == Promise!Next \/ Quiet

(* The actions inside StaticStorageManager::init. *)
LEMMA AllowsInit ==
    ASSUME IInv, PlainInv, NEW t \in Threads,
           CheckState(t) \/ Execute(t) \/ Settled(t) \/ Recursive(t) \/ AddEdge(t)
    PROVE  Allowed
<1>0. PICK c \in Types : c = target[t]
  BY DEF IInv, TypeOK
<1>1. TypeOK /\ c = target[t] /\ OwnedInv /\ WaiterInv /\ state[c] \in States
  BY <1>0 DEF IInv, TypeOK
<1>2. pc[t] \in {"init", "lock"} /\ Accessing(t) /\ pc[t] \notin WaitPlaces /\ t \notin Thrown /\ target' = target
  BY Zenon DEF CheckState, Execute, Settled, Recursive, AddEdge, Accessing, WaitPlaces, Thrown
<1>3. ASSUME Promise!Use(t, c) \/ Promise!Fail(t, c) \/ Promise!UsePlain(t, c) \/ Promise!Begin(t, c) \/ Promise!Await(t, c)
      PROVE  Allowed
  BY Zenon, <1>1, <1>3 DEF Allowed, Promise!Next
<1>4. CASE CheckState(t)
  <2>1. CASE state[c] = "initialized" \/ (state[c] = "initializing" /\ owner[c] = t)
    BY Zenon, <1>1, <1>2, <1>3, <1>4, <2>1, AllowsUse DEF CheckState, Goto
  <2>2. CASE state[c] = "failed"
    BY Zenon, <1>1, <1>2, <1>3, <1>4, <2>2, AllowsFail DEF CheckState, Goto
  <2>3. CASE state[c] \notin {"initialized", "failed"} /\ ~(state[c] = "initializing" /\ owner[c] = t) /\ c \in Plain
    <3>1. state[c] = "uninitialized"
      BY Zenon, <1>1, <2>3 DEF PlainInv, States
    <3>2. state' = [state EXCEPT ![c] = "initialized"] /\ pc' = [pc EXCEPT ![t] = "run"] /\ UNCHANGED <<owner, wait>>
      BY Zenon, <1>1, <1>4, <2>3, <3>1 DEF CheckState, Goto
    <3>3. \A u \in Threads : pc'[u] = IF u = t THEN "run" ELSE pc[u]
      BY <1>1, <3>2 DEF TypeOK
    <3>4. ~Accessing(t)'
      BY <3>3 DEF Accessing, WaitPlaces
    <3>5. Asks' = [Asks EXCEPT ![t] = None] /\ Asks[t] = target[t] /\ Thrown' = Thrown
      BY Zenon, <1>1, <1>2, <3>3, <3>4, AsksUnthrown
    <3>6. Promise!UsePlain(t, c)
      BY Zenon, <1>1, <2>3, <3>1, <3>2, <3>5 DEF Promise!UsePlain, Asks, Thrown
    <3> QED BY <1>3, <3>6
  <2>4. CASE state[c] \notin {"initialized", "failed"} /\ ~(state[c] = "initializing" /\ owner[c] = t) /\ c \notin Plain
    <3>1. pc' = [pc EXCEPT ![t] = "lock"] /\ UNCHANGED <<state, owner, wait>>
      BY Zenon, <1>1, <1>4, <2>4 DEF CheckState, Goto
    <3>2. pc'[t] = "lock" /\ pc[t] # "throwing"
      BY <1>1, <1>2, <3>1 DEF TypeOK
    <3>3. Quiet
      BY Zenon, <1>1, <1>2, <3>1, <3>2, AllowsQuiet DEF Accessing
    <3> QED BY <3>3 DEF Allowed
  <2> QED BY Zenon, <2>1, <2>2, <2>3, <2>4
<1>5. CASE Execute(t)
  <2>1. c \notin Plain
    BY Zenon, <1>1, <1>5 DEF Execute, PlainInv
  <2>2. /\ state' = [state EXCEPT ![c] = "initializing"] /\ owner' = [owner EXCEPT ![c] = t]
        /\ pc' = [pc EXCEPT ![t] = "run"] /\ UNCHANGED wait /\ state[c] = "uninitialized"
    BY <1>1, <1>5 DEF Execute, Goto
  <2>3. \A u \in Threads : pc'[u] = IF u = t THEN "run" ELSE pc[u]
    BY <1>1, <2>2 DEF TypeOK
  <2>4. ~Accessing(t)'
    BY <2>3 DEF Accessing, WaitPlaces
  <2>5. Asks' = [Asks EXCEPT ![t] = None] /\ Asks[t] = target[t] /\ Thrown' = Thrown
    BY Zenon, <1>1, <1>2, <2>3, <2>4, AsksUnthrown
  <2>6. Promise!Begin(t, c)
    BY Zenon, <1>1, <2>1, <2>2, <2>5 DEF Promise!Begin, Asks, Thrown
  <2> QED BY <1>3, <2>6
<1>6. CASE Settled(t)
  <2>1. UNCHANGED <<state, owner, wait>>
    BY Zenon, <1>1, <1>6 DEF Settled, types
  <2>2. \/ state[c] = "initialized" /\ pc' = [pc EXCEPT ![t] = "run"]
        \/ state[c] = "failed" /\ pc' = [pc EXCEPT ![t] = "throwing"]
    BY Zenon, <1>1, <1>6 DEF Settled, Goto
  <2> QED BY Zenon, <1>1, <1>2, <1>3, <2>1, <2>2, AllowsUse, AllowsFail
<1>7. CASE Recursive(t)
  <2>1. UNCHANGED <<state, owner, wait>> /\ pc' = [pc EXCEPT ![t] = "run"]
        /\ state[c] = "initializing" /\ CausesCycle(t, owner[c])
    BY Zenon, <1>1, <1>7 DEF Recursive, Goto, types
  <2>2. owner[c] # None
    BY Zenon, <1>1, <2>1 DEF OwnedInv
  <2> QED BY Zenon, <1>1, <1>2, <1>3, <2>1, <2>2, AllowsUse
<1>8. CASE AddEdge(t)
  <2>1. /\ UNCHANGED <<state, owner>> /\ pc' = [pc EXCEPT ![t] = "poll"] /\ wait' = [wait EXCEPT ![t] = owner[c]]
        /\ state[c] = "initializing" /\ ~CausesCycle(t, owner[c]) /\ pc[t] = "lock"
    BY Zenon, <1>1, <1>8 DEF AddEdge, Goto, types
  <2>2. owner[c] \notin {None, t} /\ wait[t] = None
    BY Zenon, <1>1, <1>2, <2>1 DEF OwnedInv, WaiterInv, IInv, EdgeWhileWaiting
  <2>3. \A u \in Threads : pc'[u] = IF u = t THEN "poll" ELSE pc[u]
    BY <1>1, <2>1 DEF TypeOK
  <2>4. Accessing(t)'
    BY Zenon, <2>3 DEF Accessing, WaitPlaces
  <2>5. Asks' = [Asks EXCEPT ![t] = c] /\ Asks[t] = c /\ Thrown' = Thrown
    BY Zenon, <1>1, <1>2, <2>3, <2>4, AsksUnthrown
  <2>6. Asks' = Asks
    BY Zenon, <2>5 DEF Asks
  <2>7. ~Promise!Leads(owner[c], t)
    BY Zenon, <1>1, <2>1 DEF Promise!Leads, CausesCycle, Awaited
  <2>8. Promise!Await(t, c)
    BY Zenon, <1>1, <2>1, <2>2, <2>5, <2>6, <2>7 DEF Promise!Await, Asks, Thrown
  <2> QED BY <1>3, <2>8
<1> QED BY <1>4, <1>5, <1>6, <1>7, <1>8

(* The actions of wait_for_init and of its caller. *)
LEMMA AllowsWait ==
    ASSUME IInv, NEW t \in Threads,
           \/ Poll(t) \/ LoadOwner(t) \/ Refresh(t) \/ CheckStop(t) \/ Wait(t) \/ DropEdge(t) \/ Recheck(t) \/ Retry(t)
    PROVE  Allowed
<1>1. TypeOK /\ target[t] \in Types /\ WaiterInv
  BY DEF IInv, TypeOK
<1>2. CASE Poll(t) \/ LoadOwner(t) \/ Refresh(t) \/ CheckStop(t) \/ Wait(t) \/ Retry(t)
  <2>1. wait' = wait
    <3>1. CASE Refresh(t)
      <4>1. seen[t] \in {None, wait[t]}
        BY Zenon, <1>1, <3>1 DEF WaiterInv, Refresh
      <4> QED BY <1>1, <3>1, <4>1 DEF Refresh, TypeOK
    <3> QED BY Zenon, <1>2, <3>1 DEF Poll, LoadOwner, CheckStop, Wait, Retry
  <2>2. PICK place \in {"load", "done", "refresh", "check", "yield", "wait", "poll", "init"} : pc' = [pc EXCEPT ![t] = place]
    BY Zenon, <1>2 DEF Poll, LoadOwner, Refresh, CheckStop, Wait, Retry, Goto
  <2>3. UNCHANGED <<state, owner, target>> /\ Accessing(t) /\ pc[t] # "throwing"
    BY Zenon, <1>2 DEF Poll, LoadOwner, Refresh, CheckStop, Wait, Retry, types, Accessing, WaitPlaces
  <2>4. Accessing(t)'
    BY <1>1, <2>2 DEF Accessing, WaitPlaces, TypeOK
  <2>5. Quiet
    BY Zenon, <1>1, <2>1, <2>2, <2>3, <2>4, AllowsQuiet
  <2> QED BY <2>5 DEF Allowed
<1>3. CASE DropEdge(t)
  <2>1. PICK place \in {"recheck", "yielded"} : pc' = [pc EXCEPT ![t] = place]
    BY Zenon, <1>3 DEF DropEdge, Goto
  <2>2. /\ UNCHANGED <<state, owner, target>> /\ wait' = [wait EXCEPT ![t] = None]
        /\ Accessing(t) /\ pc[t] # "throwing" /\ pc[t] \in WaitPlaces
    BY <1>3 DEF DropEdge, types, Accessing, WaitPlaces
  <2>3. wait[t] # None
    BY Zenon, <1>1, <2>2 DEF WaiterInv
  <2>4. \A u \in Threads : pc'[u] = IF u = t THEN place ELSE pc[u]
    BY <1>1, <2>1 DEF TypeOK
  <2>5. Accessing(t)' /\ place # "throwing" /\ t \notin Thrown
    BY Zenon, <2>2, <2>4 DEF Accessing, Thrown
  <2>6. Asks' = [Asks EXCEPT ![t] = target[t]] /\ Asks[t] = target[t] /\ Thrown' = Thrown
    BY Zenon, <1>1, <2>2, <2>4, <2>5, AsksUnthrown
  <2>7. Asks' = Asks
    BY Zenon, <2>6 DEF Asks
  <2>8. Promise!StopWaiting(t)
    BY Zenon, <2>2, <2>3, <2>6, <2>7 DEF Promise!StopWaiting, Asks, Thrown
  <2> QED BY <2>8 DEF Allowed, Promise!Next
<1>4. CASE Recheck(t)
  <2>1. UNCHANGED <<state, owner, wait, target>> /\ Accessing(t) /\ pc[t] \notin WaitPlaces /\ pc[t] = "recheck"
    BY Zenon, <1>4 DEF Recheck, types, Accessing, WaitPlaces
  <2>2. \/ state[target[t]] = "initialized" /\ pc' = [pc EXCEPT ![t] = "run"]
        \/ state[target[t]] = "failed" /\ pc' = [pc EXCEPT ![t] = "throwing"]
    BY Zenon, <1>1, <1>4, <2>1 DEF Recheck, Goto, WaiterInv
  <2>3. PICK c \in Types : c = target[t]
    BY <1>1
  <2>4. Promise!Use(t, c) \/ Promise!Fail(t, c)
    BY Zenon, <2>1, <2>2, <2>3, AllowsUse, AllowsFail
  <2> QED BY <2>4 DEF Allowed, Promise!Next
<1> QED BY <1>2, <1>3, <1>4

(* The actions of the program: an access begins, a .cctor ends or an exception is thrown. *)
LEMMA AllowsProgram ==
    ASSUME IInv, NEW t \in Threads,
           Finish(t) \/ Unwind(t) \/ Throw(t) \/ Catch(t) \/ Die(t) \/ \E c \in Types : Touch(t, c)
    PROVE  Allowed
<1>1. TypeOK
  BY DEF IInv
<1>2. ASSUME NEW c \in Types, Touch(t, c) PROVE Allowed
  <2>1. /\ \A u \in Threads : pc'[u] = IF u = t THEN "init" ELSE pc[u]
        /\ \A u \in Threads : target'[u] = IF u = t THEN c ELSE target[u]
        /\ pc[t] = "run" /\ UNCHANGED <<state, owner, wait>>
    BY Zenon, <1>1, <1>2 DEF Touch, Goto, TypeOK, types
  <2>2. Accessing(t)' /\ ~Accessing(t) /\ t \notin Thrown
    BY Zenon, <2>1 DEF Accessing, WaitPlaces, Thrown
  <2>3. Asks' = [Asks EXCEPT ![t] = c] /\ Asks[t] = None /\ Thrown' = Thrown
    <3>1. \A u \in Threads \ {t} : pc'[u] = pc[u] /\ target'[u] = target[u]
      BY Zenon, <2>1
    <3>2. c = (IF Accessing(t)' THEN target'[t] ELSE None) /\ pc'[t] # "throwing"
      BY Zenon, <2>1, <2>2
    <3> QED BY Zenon, <1>1, <2>2, <3>1, <3>2, AsksUnthrown
  <2>4. Promise!Ask(t, c)
    BY Zenon, <2>1, <2>2, <2>3 DEF Promise!Ask, Asks, Thrown
  <2> QED BY <2>4 DEF Allowed, Promise!Next
<1>3. ASSUME running[t] # <<>> PROVE Innermost(t) \in Types /\ owner[Innermost(t)] = t
  <2>1. running[t] \in Seq(Types)
    BY <1>1 DEF TypeOK
  <2>2. Len(running[t]) \in DOMAIN running[t] /\ Innermost(t) \in Types
    BY Zenon, <1>3, <2>1, PopFacts DEF Innermost
  <2> QED BY <2>2 DEF IInv, OneInitializer, Innermost
<1>4. CASE Finish(t)
  <2>1. PICK c \in Types : c = Innermost(t) /\ owner[c] = t
    BY Zenon, <1>3, <1>4 DEF Finish
  <2>2. /\ \A u \in Threads : pc'[u] = IF u = t THEN "init" ELSE pc[u]
        /\ \A u \in Threads : target'[u] = IF u = t THEN c ELSE target[u]
        /\ pc[t] = "run" /\ UNCHANGED wait
        /\ state' = [state EXCEPT ![c] = "initialized"] /\ owner' = [owner EXCEPT ![c] = None]
    BY Zenon, <1>1, <1>4, <2>1 DEF Finish, Goto, TypeOK
  <2>3. Accessing(t)' /\ ~Accessing(t) /\ t \notin Thrown
    BY Zenon, <2>2 DEF Accessing, WaitPlaces, Thrown
  <2>4. Asks' = [Asks EXCEPT ![t] = c] /\ Asks[t] = None /\ Thrown' = Thrown
    BY Zenon, <1>1, <2>2, <2>3, AsksUnthrown
  <2>5. Promise!Complete(t, c)
    BY Zenon, <2>1, <2>2, <2>3, <2>4 DEF Promise!Complete, Asks, Thrown
  <2> QED BY <2>5 DEF Allowed, Promise!Next
<1>5. CASE Unwind(t)
  <2>1. PICK c \in Types : c = Innermost(t) /\ owner[c] = t
    BY Zenon, <1>3, <1>5 DEF Unwind
  <2>2. /\ UNCHANGED <<wait, pc, target>> /\ pc[t] = "throwing"
        /\ state' = [state EXCEPT ![c] = "failed"] /\ owner' = [owner EXCEPT ![c] = None]
    BY Zenon, <1>5, <2>1 DEF Unwind
  <2>3. Asks' = Asks /\ Thrown' = Thrown /\ t \in Thrown
    BY Zenon, <2>2 DEF Asks, Accessing, Thrown
  <2>4. Promise!Break(t, c)
    BY Zenon, <2>1, <2>2, <2>3 DEF Promise!Break, Asks, Thrown
  <2> QED BY <2>4 DEF Allowed, Promise!Next
<1>6. CASE Throw(t) \/ Catch(t) \/ Die(t)
  <2>1. PICK place \in {"throwing", "run", "dead"} : pc' = [pc EXCEPT ![t] = place]
    BY Zenon, <1>6 DEF Throw, Catch, Die, Goto
  <2>2. UNCHANGED <<state, owner, wait, target>> /\ pc[t] \in {"run", "throwing"}
    BY Zenon, <1>6 DEF Throw, Catch, Die, types
  <2>3. \A u \in Threads : pc'[u] = IF u = t THEN place ELSE pc[u]
    BY <1>1, <2>1 DEF TypeOK
  <2>4. ~Accessing(t) /\ ~Accessing(t)'
    BY Zenon, <2>2, <2>3 DEF Accessing, WaitPlaces
  <2>5. /\ Asks' = [Asks EXCEPT ![t] = None] /\ Asks[t] = None
        /\ Thrown' = IF place = "throwing" THEN Thrown \cup {t} ELSE Thrown \ {t}
    BY Zenon, <1>1, <2>2, <2>3, <2>4, AsksStep
  <2>6. Asks' = Asks
    BY Zenon, <2>5 DEF Asks
  <2>7. CASE Throw(t)
    <3>1. place = "throwing" /\ \E c \in Types : owner[c] = t
      BY Zenon, <1>1, <1>3, <2>1, <2>7 DEF Throw, Goto, TypeOK
    <3>2. Promise!Throw(t)
      BY Zenon, <2>2, <2>5, <2>6, <3>1 DEF Promise!Throw, Asks, Thrown
    <3> QED BY <3>2 DEF Allowed, Promise!Next
  <2>8. CASE Catch(t) \/ Die(t)
    <3>1. place # "throwing" /\ t \in Thrown
      BY Zenon, <1>1, <2>1, <2>8 DEF Catch, Die, Goto, TypeOK, Thrown
    <3>2. Promise!Recover(t)
      BY Zenon, <2>2, <2>5, <2>6, <3>1 DEF Promise!Recover, Asks, Thrown
    <3> QED BY <3>2 DEF Allowed, Promise!Next
  <2> QED BY <1>6, <2>7, <2>8
<1> QED BY <1>2, <1>4, <1>5, <1>6

(* StaticStorageManager and initialize_static_storage implement TypeInitializer: with
   the lock, the wait graph, the polling, the yields to a collection and the retries, a
   .cctor runs once on one thread, its outcome is final, and an access is answered by
   an initialized type, its failure or, where waiting would close a ring, the type as it is. *)
THEOREM InitializationIsExact == Spec => IsTypeInitializer
<1> DEFINE cells == <<state, owner, [t \in Threads |-> IF Accessing(t) THEN target[t] ELSE None], wait,
                      {t \in Threads : pc[t] = "throwing"}>>
<1>1. Init => Promise!Init /\ PlainInv
  BY StaticInitConstants DEF Init, Promise!Init, PlainInv, Accessing, WaitPlaces
<1>2. IInv /\ PlainInv /\ [Next]_vars => [Promise!Next]_cells
  <2> SUFFICES ASSUME IInv, PlainInv, [Next]_vars PROVE Allowed
    BY DEF Allowed, Quiet, Asks, Thrown
  <2>1. CASE UNCHANGED vars \/ RequestStop \/ Resume \/ \E t \in Threads : Park(t)
    <3>1. UNCHANGED <<state, owner, wait, pc, target>>
      BY Zenon, <2>1 DEF vars, RequestStop, Resume, Park, types
    <3>2. Quiet
      BY <3>1 DEF Quiet, Asks, Thrown, Accessing
    <3> QED BY <3>2 DEF Allowed
  <2>2. CASE \E t \in Threads : Step(t) /\ ~Park(t)
    BY <2>2, AllowsInit, AllowsWait, AllowsProgram DEF Step
  <2>3. CASE \E t \in Threads : Finish(t) \/ Throw(t) \/ Catch(t) \/ Die(t) \/ \E c \in Types : Touch(t, c)
    BY <2>3, AllowsProgram
  <2> QED BY <2>1, <2>2, <2>3 DEF Next
<1>3. IInv /\ PlainInv /\ [Next]_vars => PlainInv'
  BY PlainStep
<1> QED BY <1>1, <1>2, <1>3, Invariance, PTL DEF Spec, Promise!Spec, Promise!cells, IsTypeInitializer
=============================================================================
