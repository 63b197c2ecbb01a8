--------------------------- MODULE MonitorProofs ---------------------------
(***************************************************************************)
(* For any number of threads, objects, calls and nested finalizers: a call *)
(* without a time limit does not time out, and, where the first lock of an *)
(* object is not raced for, monitors implement RecursiveLock.              *)
(***************************************************************************)
EXTENDS Monitor, SequenceTheorems, FiniteSetTheorems, TLAPS

Blocks == [owner : Threads \cup {None}, count : Nat]

(* Types, without the ghost counters of what the program has entered. *)
Typed ==
    /\ index \in [Objects -> 0..Len(blocks)]
    /\ blocks \in Seq(Blocks)
    /\ calls \in [Threads -> Seq(Frames)]
    /\ pc \in [Threads -> Places]
    /\ seen \in [Threads -> 0..Len(blocks)] /\ block \in [Threads -> 0..Len(blocks)]
    /\ deadline \in [Threads -> {"none", "running", "passed", "infinite"}]
    /\ started \in [Threads -> 0..MaxCalls]
    /\ stop \in BOOLEAN /\ stops \in 0..MaxStops /\ parked \subseteq Threads
    /\ timedOut \subseteq 1..MaxNesting

(* A thread has calls in progress exactly while it is not idle. *)
CallsInv ==
    \A t \in Threads :
        /\ pc[t] = "idle" <=> calls[t] = <<>>
        /\ Len(calls[t]) <= MaxNesting
        /\ pc[t] \in {"publish", "deadline", "acquire", "waiting"} => block[t] # 0
        /\ pc[t] = "exit" => Call(t).kind = "Exit"

(* A deadline that can pass belongs to a TryEnter in progress on its thread. *)
DeadlineInv ==
    \A t \in Threads :
        deadline[t] \in {"running", "passed"} =>
            \E i \in DOMAIN calls[t] : calls[t][i].kind = "TryEnter"

TimeInv == Typed /\ CallsInv /\ DeadlineInv /\ InfiniteNeverTimesOut

-----------------------------------------------------------------------------
(* Sequences *)

(* A call that starts goes on top of those in progress. *)
LEMMA PushFacts ==
    ASSUME NEW S, NEW s \in Seq(S), NEW c \in S
    PROVE  /\ Append(s, c) \in Seq(S)
           /\ Append(s, c) # <<>>
           /\ Len(Append(s, c)) = Len(s) + 1
           /\ DOMAIN Append(s, c) = DOMAIN s \cup {Len(s) + 1}
           /\ Len(s) + 1 \notin DOMAIN s
           /\ \A i \in DOMAIN s : Append(s, c)[i] = s[i]
           /\ Append(s, c)[Len(s) + 1] = c
  OBVIOUS

(* A call that returns uncovers the one below it. *)
LEMMA PopFacts ==
    ASSUME NEW S, NEW s \in Seq(S), s # <<>>
    PROVE  /\ Len(s) \in DOMAIN s /\ s[Len(s)] \in S
           /\ SubSeq(s, 1, Len(s) - 1) \in Seq(S)
           /\ Len(SubSeq(s, 1, Len(s) - 1)) = Len(s) - 1
           /\ SubSeq(s, 1, Len(s) - 1) = <<>> <=> Len(s) = 1
           /\ DOMAIN SubSeq(s, 1, Len(s) - 1) = DOMAIN s \ {Len(s)}
           /\ \A i \in DOMAIN s \ {Len(s)} : SubSeq(s, 1, Len(s) - 1)[i] = s[i]
<1>1. Len(s) \in Nat \ {0} /\ DOMAIN s = 1..Len(s)
  OBVIOUS
<1>2. /\ SubSeq(s, 1, Len(s) - 1) \in Seq(S)
      /\ Len(SubSeq(s, 1, Len(s) - 1)) = Len(s) - 1
      /\ \A i \in 1..(Len(s) - 1) : SubSeq(s, 1, Len(s) - 1)[i] = s[i]
  BY <1>1
<1>3. SubSeq(s, 1, Len(s) - 1) = <<>> <=> Len(s) - 1 = 0
  BY Zenon, <1>2, EmptySeq
<1> QED BY <1>1, <1>2, <1>3

(* Writing one block of the table. *)
LEMMA SetFacts ==
    ASSUME NEW S, NEW s \in Seq(S), NEW i \in 1..Len(s), NEW v \in S
    PROVE  /\ [s EXCEPT ![i] = v] \in Seq(S)
           /\ Len([s EXCEPT ![i] = v]) = Len(s)
           /\ [s EXCEPT ![i] = v][i] = v
           /\ \A j \in 1..Len(s) : j # i => [s EXCEPT ![i] = v][j] = s[j]
  BY ExceptSeq

-----------------------------------------------------------------------------
(* Deadlines *)

(* What a return leaves of the calls in progress, and of the deadline that belongs to
   them: a timed call clears it, so one that is kept belongs to a call below. *)
LEMMA ReturnFacts ==
    ASSUME TimeInv, NEW t \in Threads, pc[t] # "idle", Return(t),
           deadline' = [deadline EXCEPT ![t] = DeadlineAfter(t)],
           UNCHANGED block
    PROVE  /\ calls' \in [Threads -> Seq(Frames)] /\ pc' \in [Threads -> Places]
           /\ deadline' \in [Threads -> {"none", "running", "passed", "infinite"}]
           /\ CallsInv' /\ DeadlineInv'
<1> DEFINE s == calls[t]
<1>1. s \in Seq(Frames) /\ s # <<>> /\ Len(s) <= MaxNesting /\ MaxNesting \in Nat
  BY MonitorConstants DEF TimeInv, Typed, CallsInv
<1>2. /\ Len(s) \in Nat \ {0} /\ Len(s) \in DOMAIN s
      /\ SubSeq(s, 1, Len(s) - 1) \in Seq(Frames)
      /\ Len(SubSeq(s, 1, Len(s) - 1)) = Len(s) - 1
      /\ SubSeq(s, 1, Len(s) - 1) = <<>> <=> Len(s) = 1
      /\ DOMAIN SubSeq(s, 1, Len(s) - 1) = DOMAIN s \ {Len(s)}
      /\ \A i \in DOMAIN s \ {Len(s)} : SubSeq(s, 1, Len(s) - 1)[i] = s[i]
  BY SMTT(30), <1>1, PopFacts, EmptySeq
<1>3. /\ calls' = [calls EXCEPT ![t] = SubSeq(s, 1, Len(s) - 1)]
      /\ pc' = [pc EXCEPT ![t] = IF Len(s) = 1 THEN "idle" ELSE "yielded"]
  BY DEF Return, Goto
<1>4. /\ calls' \in [Threads -> Seq(Frames)] /\ pc' \in [Threads -> Places]
      /\ deadline' \in [Threads -> {"none", "running", "passed", "infinite"}]
  BY Zenon, <1>2, <1>3 DEF TimeInv, Typed, Places, DeadlineAfter
<1>5. CallsInv'
  <2> SUFFICES ASSUME NEW u \in Threads
               PROVE  /\ pc'[u] = "idle" <=> calls'[u] = <<>>
                      /\ Len(calls'[u]) <= MaxNesting
                      /\ pc'[u] \in {"publish", "deadline", "acquire", "waiting"} => block'[u] # 0
                      /\ pc'[u] = "exit" => calls'[u][Len(calls'[u])].kind = "Exit"
    BY DEF CallsInv, Call
  <2>1. CASE u = t
    BY SMTT(30), <1>1, <1>2, <1>3, <2>1 DEF TimeInv, Typed
  <2>2. CASE u # t
    BY <1>3, <2>2 DEF TimeInv, Typed, CallsInv, Call
  <2> QED BY <2>1, <2>2
<1>6. DeadlineInv'
  <2> SUFFICES ASSUME NEW u \in Threads, deadline'[u] \in {"running", "passed"}
               PROVE  \E i \in DOMAIN calls'[u] : calls'[u][i].kind = "TryEnter"
    BY DEF DeadlineInv
  <2>1. CASE u = t
    <3>1. ~Timed(s[Len(s)].kind) /\ deadline[t] \in {"running", "passed"}
      BY <2>1 DEF TimeInv, Typed, DeadlineAfter, Call
    <3>2. PICK i \in DOMAIN s : s[i].kind = "TryEnter"
      BY <3>1 DEF TimeInv, DeadlineInv
    <3>3. i # Len(s)
      BY <3>1, <3>2 DEF Timed
    <3>4. calls'[t] = SubSeq(s, 1, Len(s) - 1)
      BY <1>3 DEF TimeInv, Typed
    <3> QED BY <2>1, <3>2, <3>3, <3>4, <1>2
  <2>2. CASE u # t
    BY <1>3, <2>2 DEF TimeInv, Typed, DeadlineInv
  <2> QED BY <2>1, <2>2
<1> QED BY <1>4, <1>5, <1>6

(* The objects locked before the model starts have the blocks 1..n. *)
LEMMA FirstBlocks ==
    LET n == Cardinality(Objects \ Fresh)
        table == [i \in 1..n |-> NewBlock]
    IN  n \in Nat /\ table \in Seq(Blocks) /\ Len(table) = n /\ DOMAIN table = 1..n
<1> DEFINE n == Cardinality(Objects \ Fresh)
<1>1. n \in Nat
  BY MonitorConstants, FS_Subset, FS_CardinalityType
<1>2. NewBlock \in Blocks
  BY DEF NewBlock, Blocks
<1> HIDE DEF n
<1>3. [i \in 1..n |-> NewBlock] \in Seq(Blocks) /\ Len([i \in 1..n |-> NewBlock]) = n
  BY <1>1, <1>2
<1> QED BY <1>1, <1>3 DEF n

(* The invariant holds before any call. *)
LEMMA TimeInit == Init => TimeInv
<1> SUFFICES ASSUME Init PROVE TimeInv
  OBVIOUS
<1>1. Len(blocks) = Cardinality(Objects \ Fresh) /\ Len(blocks) \in Nat /\ blocks \in Seq(Blocks)
  BY Zenon, FirstBlocks DEF Init
<1>2. PICK numbering \in [Objects \ Fresh -> 1..Cardinality(Objects \ Fresh)] :
        index = [o \in Objects |-> IF o \in Fresh THEN 0 ELSE numbering[o]]
  BY Zenon DEF Init
<1>3. index \in [Objects -> 0..Len(blocks)]
  <2>1. \A o \in Objects \ Fresh : numbering[o] \in 1..Len(blocks)
    BY Zenon, <1>1, <1>2
  <2>2. \A o \in Objects : index[o] \in 0..Len(blocks)
    <3>1. 0 \in 0..Len(blocks) /\ 1..Len(blocks) \subseteq 0..Len(blocks)
      BY <1>1
    <3> QED BY <1>2, <2>1, <3>1
  <2> QED BY <1>2, <2>2
<1>4. \A t \in Threads : calls[t] = <<>> /\ Len(calls[t]) = 0
  BY EmptySeq DEF Init
<1>5. Typed
  <2>1. <<>> \in Seq(Frames)
    BY EmptySeq
  <2>2. calls \in [Threads -> Seq(Frames)]
    BY <2>1 DEF Init
  <2>3. /\ 0 \in 0..Len(blocks) /\ 0 \in 0..MaxCalls /\ 0 \in 0..MaxStops
    BY <1>1, MonitorConstants
  <2>4. /\ pc \in [Threads -> Places]
        /\ seen \in [Threads -> 0..Len(blocks)] /\ block \in [Threads -> 0..Len(blocks)]
        /\ deadline \in [Threads -> {"none", "running", "passed", "infinite"}]
        /\ started \in [Threads -> 0..MaxCalls] /\ stops \in 0..MaxStops
    BY Zenon, <2>3 DEF Init, Places
  <2> QED BY Zenon, <1>1, <1>3, <2>2, <2>4 DEF Init, Typed
<1>6. CallsInv /\ DeadlineInv /\ InfiniteNeverTimesOut
  BY <1>4, MonitorConstants DEF Init, CallsInv, DeadlineInv, InfiniteNeverTimesOut
<1> QED BY <1>5, <1>6 DEF TimeInv

(* A call starts. *)
LEMMA TimeStart ==
    ASSUME TimeInv, NEW t \in Threads, NEW kind \in Kinds, NEW o \in Objects, Start(t, kind, o)
    PROVE  TimeInv'
<1> DEFINE c == [kind |-> kind, obj |-> o]
<1>1. c \in Frames /\ calls[t] \in Seq(Frames)
  BY Zenon DEF Frames, TimeInv, Typed
<1>2. /\ calls' = [calls EXCEPT ![t] = Append(calls[t], c)]
      /\ pc' = [pc EXCEPT ![t] = "read"]
      /\ UNCHANGED <<index, blocks, seen, block, deadline, stop, stops, parked, timedOut>>
  BY DEF Start, Goto
<1>3. started' \in [Threads -> 0..MaxCalls]
  BY SMTT(30), MonitorConstants DEF Start, TimeInv, Typed
<1>4. Typed'
  BY Zenon, <1>1, <1>2, <1>3, PushFacts DEF TimeInv, Typed, Places
<1>5. Len(calls[t]) < MaxNesting
  BY MonitorConstants, EmptySeq DEF Start, TimeInv, CallsInv
<1>6. CallsInv'
  <2>1. Append(calls[t], c) # <<>> /\ Len(Append(calls[t], c)) = Len(calls[t]) + 1 /\ Len(calls[t]) \in Nat
    BY <1>1, PushFacts
  <2> QED BY SMTT(30), <1>2, <1>5, <2>1, MonitorConstants DEF TimeInv, Typed, CallsInv, Call
<1>7. DeadlineInv'
  <2> SUFFICES ASSUME NEW u \in Threads, deadline[u] \in {"running", "passed"}
               PROVE  \E i \in DOMAIN calls'[u] : calls'[u][i].kind = "TryEnter"
    BY <1>2 DEF DeadlineInv
  <2>1. PICK i \in DOMAIN calls[u] : calls[u][i].kind = "TryEnter"
    BY DEF TimeInv, DeadlineInv
  <2>2. i \in DOMAIN calls'[u] /\ calls'[u][i] = calls[u][i]
    BY <1>1, <1>2, <2>1, PushFacts DEF TimeInv, Typed
  <2> QED BY <2>1, <2>2
<1> QED BY <1>2, <1>4, <1>6, <1>7 DEF TimeInv, InfiniteNeverTimesOut

(* A call that is not the outermost one is still within the bound. *)
LEMMA NestedDepth ==
    ASSUME NEW n \in 2..MaxNesting
    PROVE  n \in 1..MaxNesting /\ n # 1
  BY MonitorConstants

(* The call returns, having taken the lock, given up or left the lock. *)
LEMMA TimeReturn ==
    ASSUME TimeInv, NEW t \in Threads, Acquire(t) \/ GiveUp(t) \/ WakeFree(t) \/ Exit(t)
    PROVE  TimeInv'
<1>1. /\ pc[t] # "idle" /\ Return(t)
      /\ UNCHANGED <<index, seen, block, world>>
  BY DEF Acquire, GiveUp, WakeFree, Exit, Succeed
<1>2. deadline' = [deadline EXCEPT ![t] = DeadlineAfter(t)]
  <2>1. CASE Exit(t)
    BY <2>1 DEF Exit, DeadlineAfter, TimeInv, CallsInv, Timed, Typed
  <2> QED BY <2>1 DEF Acquire, GiveUp, WakeFree, Succeed
<1>3. /\ calls' \in [Threads -> Seq(Frames)] /\ pc' \in [Threads -> Places]
      /\ deadline' \in [Threads -> {"none", "running", "passed", "infinite"}]
      /\ CallsInv' /\ DeadlineInv'
  BY Zenon, <1>1, <1>2, ReturnFacts
<1>4. blocks' \in Seq(Blocks) /\ Len(blocks') = Len(blocks)
  <2>1. blocks \in Seq(Blocks) /\ Len(blocks) \in Nat
    BY DEF TimeInv, Typed
  <2>2. \A i \in 1..Len(blocks) : blocks[i] \in Blocks
    BY <2>1
  <2>3. ASSUME NEW i \in 1..Len(blocks), NEW b \in Blocks, blocks' = [blocks EXCEPT ![i] = b]
        PROVE  blocks' \in Seq(Blocks) /\ Len(blocks') = Len(blocks)
    BY <2>1, <2>3, SetFacts
  <2>4. CASE Acquire(t)
    <3>1. block[t] \in 1..Len(blocks)
      BY <2>1, <2>4 DEF Acquire, TimeInv, Typed, CallsInv
    <3> DEFINE b == [owner |-> t, count |-> IF blocks[block[t]].owner = t
                                              THEN blocks[block[t]].count + 1 ELSE 1]
    <3>2. b \in Blocks
      BY <2>2, <3>1 DEF Blocks
    <3> QED BY Zenon, <2>3, <2>4, <3>1, <3>2 DEF Acquire
  <2>5. CASE WakeFree(t)
    <3>1. block[t] \in 1..Len(blocks)
      BY <2>1, <2>5 DEF WakeFree, TimeInv, Typed, CallsInv
    <3>2. [owner |-> t, count |-> 1] \in Blocks
      BY DEF Blocks
    <3> QED BY Zenon, <2>3, <2>5, <3>1, <3>2 DEF WakeFree
  <2>6. CASE Exit(t) /\ blocks' # blocks
    <3>1. seen[t] \in 1..Len(blocks) /\ blocks[seen[t]].count > 0
      BY <2>1, <2>6 DEF Exit, TimeInv, Typed
    <3> DEFINE b == IF blocks[seen[t]].count = 1 THEN NewBlock
                    ELSE [owner |-> t, count |-> blocks[seen[t]].count - 1]
    <3>2. b \in Blocks
      BY <2>2, <3>1 DEF Blocks, NewBlock
    <3>3. blocks' = [blocks EXCEPT ![seen[t]] = b]
      BY <2>6 DEF Exit
    <3> QED BY Zenon, <2>3, <3>1, <3>2, <3>3
  <2> QED BY <2>1, <2>4, <2>5, <2>6 DEF GiveUp, Exit
<1>5. timedOut' \subseteq 1..MaxNesting /\ 1 \notin timedOut'
  <2>1. CASE GiveUp(t) /\ Call(t).kind = "TryEnterInfinite"
    <3>1. calls[t] \in Seq(Frames) /\ calls[t] # <<>> /\ Len(calls[t]) <= MaxNesting
      BY <1>1 DEF TimeInv, Typed, CallsInv
    <3>2. deadline[t] = "passed"
      BY <2>1 DEF GiveUp, Waits
    <3>3. PICK i \in DOMAIN calls[t] : calls[t][i].kind = "TryEnter"
      BY <3>2 DEF TimeInv, DeadlineInv
    <3>4. i # Len(calls[t])
      BY <2>1, <3>3 DEF Call
    <3>5. Len(calls[t]) \in 2..MaxNesting
      BY <3>1, <3>3, <3>4, MonitorConstants
    <3>6. timedOut' = timedOut \cup {Len(calls[t])}
      BY <2>1 DEF GiveUp
    <3>7. timedOut \subseteq 1..MaxNesting /\ 1 \notin timedOut
      BY DEF TimeInv, Typed, InfiniteNeverTimesOut
    <3>8. Len(calls[t]) \in 1..MaxNesting /\ Len(calls[t]) # 1
      BY Zenon, <3>5, NestedDepth
    <3> QED BY Zenon, <3>6, <3>7, <3>8
  <2> QED BY Zenon, <2>1 DEF Acquire, GiveUp, WakeFree, Exit, TimeInv, Typed, InfiniteNeverTimesOut
<1>6. Typed'
  BY SMTT(30), <1>1, <1>3, <1>4, <1>5 DEF TimeInv, Typed, world
<1> QED BY <1>3, <1>5, <1>6 DEF TimeInv, InfiniteNeverTimesOut

(* A step within the innermost call. *)
LEMMA CallGoesOn ==
    ASSUME TimeInv, NEW t \in Threads, pc[t] # "idle", NEW place \in Places \ {"idle"},
           Goto(t, place), UNCHANGED calls,
           \A u \in Threads \ {t} : block'[u] = block[u],
           place \in {"publish", "deadline", "acquire", "waiting"} => block'[t] # 0,
           place = "exit" => Call(t).kind = "Exit"
    PROVE  CallsInv'
<1>1. \A u \in Threads : pc'[u] = IF u = t THEN place ELSE pc[u]
  BY DEF Goto, TimeInv, Typed
<1> QED BY <1>1 DEF TimeInv, CallsInv, Call

(* The invariant holds after every step. *)
LEMMA TimeStep == TimeInv /\ [Next]_vars => TimeInv'
<1> SUFFICES ASSUME TimeInv, [Next]_vars PROVE TimeInv'
  OBVIOUS
<1> USE DEF TimeInv, Typed, CallsInv, DeadlineInv, InfiniteNeverTimesOut, Places, Call, Goto, world
<1>1. ASSUME NEW t \in Threads, Retry(t) \/ Wait(t) \/ WakeTaken(t) \/ Park(t) \/ ReadIndex(t)
      PROVE  TimeInv'
  <2>1. CASE Retry(t)
    BY Zenon, <2>1 DEF Retry
  <2>2. CASE Wait(t)
    BY Zenon, <2>2 DEF Wait
  <2>3. CASE WakeTaken(t)
    BY Zenon, <2>3 DEF WakeTaken
  <2>4. CASE Park(t)
    BY Zenon, <2>4 DEF Park
  <2>5. CASE ReadIndex(t)
    <3>1. calls[t] # <<>> /\ calls[t] \in Seq(Frames)
      BY <2>5 DEF ReadIndex
    <3>2. calls[t][Len(calls[t])] \in Frames
      BY Zenon, <3>1, PopFacts
    <3> QED BY ZenonT(60), <2>5, <3>2 DEF ReadIndex, Frames
  <2> QED BY Zenon, <1>1, <2>1, <2>2, <2>3, <2>4, <2>5
<1>2. ASSUME NEW t \in Threads, GetOrCreate(t) PROVE TimeInv'
  <2>1. blocks \in Seq(Blocks) /\ Len(blocks) \in Nat /\ DOMAIN blocks = 1..Len(blocks)
    OBVIOUS
  <2>2. CASE seen[t] \in DOMAIN blocks
    <3>1. seen[t] \in 0..Len(blocks) /\ seen[t] # 0
      BY <2>1, <2>2
    <3>2. /\ block' = [block EXCEPT ![t] = seen[t]] /\ pc' = [pc EXCEPT ![t] = "deadline"]
          /\ UNCHANGED <<index, blocks, calls, seen, deadline, world, timedOut>>
      BY Zenon, <1>2, <2>2 DEF GetOrCreate
    <3>3. Typed'
      BY Zenon, <3>1, <3>2
    <3>4. CallsInv'
      BY Zenon, <1>2, <3>1, <3>2, CallGoesOn DEF GetOrCreate
    <3> QED BY <3>2, <3>3, <3>4
  <2>3. CASE seen[t] \notin DOMAIN blocks
    <3>1. NewBlock \in Blocks
      BY DEF NewBlock, Blocks
    <3>2. blocks' \in Seq(Blocks) /\ Len(blocks') = Len(blocks) + 1
      <4>1. blocks' = Append(blocks, NewBlock)
        BY <1>2, <2>3 DEF GetOrCreate
      <4> QED BY <2>1, <3>1, <4>1, PushFacts
    <3>3. 0..Len(blocks) \subseteq 0..Len(blocks') /\ Len(blocks) + 1 \in 0..Len(blocks')
      BY <2>1, <3>2
    <3>4. Len(blocks) + 1 # 0
      BY <2>1
    <3>5. /\ block' = [block EXCEPT ![t] = Len(blocks) + 1] /\ pc' = [pc EXCEPT ![t] = "publish"]
          /\ UNCHANGED <<index, calls, seen, deadline, world, timedOut>>
      BY Zenon, <1>2, <2>3 DEF GetOrCreate
    <3>6. /\ index' \in [Objects -> 0..Len(blocks')] /\ seen' \in [Threads -> 0..Len(blocks')]
          /\ block' \in [Threads -> 0..Len(blocks')]
      BY Zenon, <3>3, <3>5
    <3>7. Typed'
      BY Zenon, <3>2, <3>5, <3>6
    <3>8. CallsInv'
      BY ZenonT(60), <1>2, <3>4, <3>5, CallGoesOn DEF GetOrCreate
    <3> QED BY SMTT(30), <3>5, <3>7, <3>8
  <2> QED BY Zenon, <2>2, <2>3
<1>3. ASSUME NEW t \in Threads, Publish(t) PROVE TimeInv'
  BY ZenonT(60), <1>3 DEF Publish
<1>4. ASSUME NEW t \in Threads, GetDeadline(t) PROVE TimeInv'
  <2>1. Typed' /\ CallsInv'
    BY Zenon, <1>4 DEF GetDeadline
  <2>2. DeadlineInv'
    <3>1. calls[t] # <<>> /\ calls[t] \in Seq(Frames)
      BY <1>4 DEF GetDeadline
    <3>2. Len(calls[t]) \in DOMAIN calls[t]
      BY <3>1, PopFacts
    <3> QED BY <1>4, <3>2 DEF GetDeadline
  <2> QED BY Zenon, <1>4, <2>1, <2>2 DEF GetDeadline
<1>5. ASSUME NEW t \in Threads, Expire(t) PROVE TimeInv'
  <2>1. Typed' /\ CallsInv' /\ InfiniteNeverTimesOut'
    BY Zenon, <1>5 DEF Expire
  <2>2. DeadlineInv'
    BY ZenonT(60), <1>5 DEF Expire
  <2> QED BY Zenon, <2>1, <2>2
<1>6. CASE RequestStop \/ Resume
  <2>1. stops' \in 0..MaxStops
    BY <1>6, MonitorConstants DEF RequestStop, Resume
  <2>2. stop' \in BOOLEAN /\ parked' \subseteq Threads
    BY Zenon, <1>6 DEF RequestStop, Resume
  <2>3. UNCHANGED <<index, blocks, calls, pc, seen, block, deadline, started, timedOut>>
    BY <1>6 DEF RequestStop, Resume
  <2> QED BY Zenon, <2>1, <2>2, <2>3
<1>7. CASE UNCHANGED vars
  BY Zenon, <1>7 DEF vars
<1> QED BY Zenon, <1>1, <1>2, <1>3, <1>4, <1>5, <1>6, <1>7, TimeStart, TimeReturn DEF Next, Step

(* Monitor.TryEnter without a time limit (-1) does not give up, whatever deadlines the
   calls before it have left in CURRENT_DEADLINE: a call nested in a yielded one may find
   that one's deadline, an outermost call never finds any. *)
THEOREM NoTimeoutWithoutLimit == Spec => []InfiniteNeverTimesOut
<1>1. Spec => []TimeInv
  BY TimeInit, TimeStep, PTL DEF Spec
<1> QED BY <1>1, PTL DEF TimeInv

-----------------------------------------------------------------------------
(* Sync blocks, where the first lock of an object is not raced for *)

(* The lock of an object: that of its block, free while it has none. *)
LockOf(o) == IF index[o] = 0 THEN NewBlock ELSE blocks[index[o]]

(* No two objects share a block. *)
OwnBlocks == \A o, p \in Objects : index[o] = index[p] /\ index[o] # 0 => o = p

(* While an object has no block, one thread calls on it. *)
OneCreator ==
    \A t, u \in Threads : \A i \in DOMAIN calls[t], j \in DOMAIN calls[u] :
        calls[t][i].obj = calls[u][j].obj /\ index[calls[t][i].obj] = 0 => t = u

(* ... and in its innermost call: one that yielded has published its block. *)
YieldedHasBlock ==
    \A t \in Threads : \A i \in DOMAIN calls[t] :
        index[calls[t][i].obj] = 0 => i = Len(calls[t]) /\ pc[t] # "yielded"

(* The index a call has read is the object's index when it is used, a new block is no
   object's until it is published, and a call waits for its object's block. *)
PlaceInv ==
    \A t \in Threads :
        /\ pc[t] \in {"create", "exit"} => seen[t] = index[Call(t).obj]
        /\ pc[t] = "publish" =>
             /\ index[Call(t).obj] = 0
             /\ \A o \in Objects : index[o] # block[t]
             /\ \A u \in Threads : pc[u] = "publish" /\ block[u] = block[t] => u = t
        /\ pc[t] \in {"deadline", "acquire", "waiting"} => block[t] = index[Call(t).obj]

(* A block that is no object's is free. *)
NoStrayLock == \A i \in DOMAIN blocks : blocks[i] # NewBlock => \E o \in Objects : index[o] = i

(* The owner of an object's lock has entered it as often as its count says. *)
LocksCounted ==
    /\ entered \in [Threads -> [Objects -> Nat]]
    /\ \A o \in Objects :
         /\ LockOf(o) \in Blocks
         /\ LockOf(o).owner = None <=> LockOf(o).count = 0
         /\ \A t \in Threads : entered[t][o] = IF LockOf(o).owner = t THEN LockOf(o).count ELSE 0

BlocksInv == TimeInv /\ OwnBlocks /\ OneCreator /\ YieldedHasBlock /\ PlaceInv /\ NoStrayLock
IInv == ~Racing /\ BlocksInv /\ LocksCounted

(* What a step does to the locks: nothing, or one entry, or one exit. *)
LocksKept == entered' = entered /\ \A o \in Objects : LockOf(o)' = LockOf(o)
Entering(t, o) ==
    /\ LockOf(o).owner \in {None, t}
    /\ \A p \in Objects :
         LockOf(p)' = IF p = o THEN [owner |-> t, count |-> LockOf(o).count + 1] ELSE LockOf(p)
    /\ entered' = [entered EXCEPT ![t][o] = @ + 1]
Leaving(t, o) ==
    /\ LockOf(o).owner = t
    /\ \A p \in Objects :
         LockOf(p)' = IF p # o THEN LockOf(p)
                      ELSE IF LockOf(o).count = 1 THEN NewBlock
                      ELSE [owner |-> t, count |-> LockOf(o).count - 1]
    /\ entered' = [entered EXCEPT ![t][o] = @ - 1]
LockStep == LocksKept \/ \E t \in Threads, o \in Objects : Entering(t, o) \/ Leaving(t, o)

(* No lock is held at the start. *)
LEMMA InitFree ==
    ASSUME Init
    PROVE  (\A i \in DOMAIN blocks : blocks[i] = NewBlock) /\ \A o \in Objects : LockOf(o) = NewBlock
<1>1. \A i \in DOMAIN blocks : blocks[i] = NewBlock
  BY FirstBlocks DEF Init
<1>2. \A o \in Objects : index[o] # 0 => index[o] \in DOMAIN blocks
  <2>1. Len(blocks) \in Nat /\ DOMAIN blocks = 1..Len(blocks) /\ index \in [Objects -> 0..Len(blocks)]
    BY Zenon, FirstBlocks, TimeInit DEF Init, TimeInv, Typed
  <2> QED BY <2>1
<1> QED BY <1>1, <1>2 DEF LockOf

(* ... and no call is in progress. *)
LEMMA CountedInit ==
    ASSUME Init
    PROVE  LocksCounted /\ OwnBlocks /\ OneCreator /\ YieldedHasBlock /\ PlaceInv /\ NoStrayLock
<1>1. LocksCounted
  <2>1. \A o \in Objects : LockOf(o) = [owner |-> None, count |-> 0]
    BY InitFree DEF NewBlock
  <2>2. entered = [t \in Threads |-> [o \in Objects |-> 0]]
    BY DEF Init
  <2> QED BY <2>1, <2>2, MonitorConstants DEF LocksCounted, Blocks
<1>2. OwnBlocks
  BY DEF Init, OwnBlocks
<1>3. OneCreator /\ YieldedHasBlock /\ PlaceInv
  BY DEF Init, OneCreator, YieldedHasBlock, PlaceInv
<1> QED BY <1>1, <1>2, <1>3, InitFree DEF NoStrayLock

(* One entry or exit keeps the counts right. *)
LEMMA CountedStep ==
    ASSUME LocksCounted, LockStep
    PROVE  LocksCounted'
<1>1. CASE LocksKept
  BY <1>1 DEF LocksCounted, LocksKept
<1>2. ASSUME NEW t \in Threads, NEW o \in Objects, Entering(t, o) PROVE LocksCounted'
  <2>1. /\ LockOf(o).count \in Nat /\ LockOf(o)' = [owner |-> t, count |-> LockOf(o).count + 1]
        /\ LockOf(o).owner # t => LockOf(o).count = 0
    BY <1>2, MonitorConstants DEF LocksCounted, Blocks, Entering
  <2>2. /\ entered' \in [Threads -> [Objects -> Nat]]
        /\ \A u \in Threads, p \in Objects :
             entered'[u][p] = IF u = t /\ p = o THEN entered[t][o] + 1 ELSE entered[u][p]
    BY <1>2 DEF LocksCounted, Entering
  <2>3. \A p \in Objects \ {o} : LockOf(p)' = LockOf(p)
    BY <1>2 DEF Entering
  <2>4. entered[t][o] = LockOf(o).count /\ \A u \in Threads \ {t} : entered[u][o] = 0
    BY <1>2, <2>1, MonitorConstants DEF LocksCounted, Entering
  <2>5. LockOf(o)' \in Blocks /\ LockOf(o)'.owner = t /\ LockOf(o)'.count = LockOf(o).count + 1
    BY <2>1 DEF Blocks
  <2>6. ASSUME NEW p \in Objects
        PROVE  /\ LockOf(p)' \in Blocks
               /\ LockOf(p)'.owner = None <=> LockOf(p)'.count = 0
               /\ \A u \in Threads : entered'[u][p] = IF LockOf(p)'.owner = u THEN LockOf(p)'.count ELSE 0
    <3>1. CASE p = o
      BY <2>1, <2>2, <2>4, <2>5, <3>1, MonitorConstants
    <3>2. CASE p # o
      BY <2>2, <2>3, <3>2 DEF LocksCounted
    <3> QED BY <3>1, <3>2
  <2> QED BY <2>2, <2>6 DEF LocksCounted
<1>3. ASSUME NEW t \in Threads, NEW o \in Objects, Leaving(t, o) PROVE LocksCounted'
  <2>1. /\ LockOf(o).count \in Nat \ {0} /\ LockOf(o).owner = t /\ t # None
        /\ entered[t][o] = LockOf(o).count /\ \A u \in Threads \ {t} : entered[u][o] = 0
    BY <1>3, MonitorConstants DEF LocksCounted, Blocks, Leaving
  <2>2. /\ entered' \in [Threads -> [Objects -> Nat]]
        /\ \A u \in Threads, p \in Objects :
             entered'[u][p] = IF u = t /\ p = o THEN entered[t][o] - 1 ELSE entered[u][p]
    <3>1. entered[t][o] - 1 \in Nat
      BY <2>1
    <3>2. entered \in [Threads -> [Objects -> Nat]] /\ entered' = [entered EXCEPT ![t][o] = entered[t][o] - 1]
      BY <1>3 DEF LocksCounted, Leaving
    <3> QED BY <3>1, <3>2
  <2>3. \A p \in Objects \ {o} : LockOf(p)' = LockOf(p)
    BY <1>3 DEF Leaving
  <2>4. /\ LockOf(o)' \in Blocks /\ LockOf(o)'.count = LockOf(o).count - 1
        /\ LockOf(o)'.owner = IF LockOf(o).count = 1 THEN None ELSE t
    BY <1>3, <2>1 DEF Leaving, Blocks, NewBlock
  <2>5. ASSUME NEW p \in Objects
        PROVE  /\ LockOf(p)' \in Blocks
               /\ LockOf(p)'.owner = None <=> LockOf(p)'.count = 0
               /\ \A u \in Threads : entered'[u][p] = IF LockOf(p)'.owner = u THEN LockOf(p)'.count ELSE 0
    <3>1. CASE p = o
      BY <2>1, <2>2, <2>4, <3>1, MonitorConstants
    <3>2. CASE p # o
      BY <2>2, <2>3, <3>2 DEF LocksCounted
    <3> QED BY <3>1, <3>2
  <2> QED BY <2>2, <2>5 DEF LocksCounted
<1> QED BY <1>1, <1>2, <1>3 DEF LockStep

(* The innermost call of a thread that is not idle. *)
LEMMA TopCall ==
    ASSUME TimeInv, NEW t \in Threads, pc[t] # "idle"
    PROVE  /\ Len(calls[t]) \in DOMAIN calls[t]
           /\ Call(t) \in Frames /\ Call(t).obj \in Objects
<1>1. calls[t] \in Seq(Frames) /\ calls[t] # <<>>
  BY DEF TimeInv, Typed, CallsInv
<1>2. Len(calls[t]) \in DOMAIN calls[t] /\ Call(t) \in Frames
  BY <1>1, PopFacts DEF Call
<1> QED BY <1>2 DEF Frames

(* Every call in progress is on an object. *)
LEMMA AnyCall ==
    ASSUME TimeInv, NEW t \in Threads, NEW i \in DOMAIN calls[t]
    PROVE  calls[t][i] \in Frames /\ calls[t][i].obj \in Objects
<1>1. calls[t] \in Seq(Frames)
  BY DEF TimeInv, Typed
<1>2. calls[t][i] \in Frames
  BY <1>1
<1> QED BY <1>2 DEF Frames

(* An object's lock is free, or that of a block in the table. *)
LEMMA LockOfBlock ==
    ASSUME TimeInv, NEW o \in Objects
    PROVE  /\ Len(blocks) \in Nat /\ DOMAIN blocks = 1..Len(blocks)
           /\ index[o] # 0 => index[o] \in 1..Len(blocks)
           /\ LockOf(o) \in Blocks
<1>1. blocks \in Seq(Blocks) /\ index[o] \in 0..Len(blocks)
  BY DEF TimeInv, Typed
<1>2. Len(blocks) \in Nat /\ DOMAIN blocks = 1..Len(blocks)
  BY <1>1
<1>3. index[o] # 0 => index[o] \in 1..Len(blocks)
  BY <1>1, <1>2
<1>4. index[o] # 0 => blocks[index[o]] \in Blocks
  BY <1>1, <1>3
<1>5. NewBlock \in Blocks
  BY DEF NewBlock, Blocks
<1> QED BY <1>2, <1>3, <1>4, <1>5 DEF LockOf

(* A step inside a call, or of the world, that leaves indices, blocks and calls alone. *)
LEMMA BlocksQuiet ==
    ASSUME IInv, UNCHANGED <<index, blocks, calls, entered>>
    PROVE  OwnBlocks' /\ OneCreator' /\ NoStrayLock' /\ LocksKept
  BY ZenonT(60) DEF IInv, BlocksInv, OwnBlocks, OneCreator, NoStrayLock, LocksKept, LockOf

(* No block has the index 0. *)
LEMMA NoBlockZero ==
    ASSUME TimeInv, NEW o \in Objects
    PROVE  0 \notin DOMAIN blocks
  BY LockOfBlock

(* A step of one thread that does not prepare a new block. *)
LEMMA PlaceStep ==
    ASSUME PlaceInv, NEW t \in Threads, index' = index,
           \A u \in Threads \ {t} : pc'[u] = pc[u] /\ seen'[u] = seen[u] /\ block'[u] = block[u] /\ calls'[u] = calls[u],
           pc'[t] # "publish",
           pc'[t] \in {"create", "exit"} => seen'[t] = index[Call(t)'.obj],
           pc'[t] \in {"deadline", "acquire", "waiting"} => block'[t] = index[Call(t)'.obj]
    PROVE  PlaceInv'
<1> SUFFICES ASSUME NEW u \in Threads
             PROVE  /\ pc'[u] \in {"create", "exit"} => seen'[u] = index[Call(u)'.obj]
                    /\ pc'[u] = "publish" =>
                         /\ index[Call(u)'.obj] = 0
                         /\ \A o \in Objects : index[o] # block'[u]
                         /\ \A v \in Threads : pc'[v] = "publish" /\ block'[v] = block'[u] => v = u
                    /\ pc'[u] \in {"deadline", "acquire", "waiting"} => block'[u] = index[Call(u)'.obj]
  BY Zenon DEF PlaceInv
<1>1. CASE u = t
  BY Zenon, <1>1
<1>2. CASE u # t
  <2>1. Call(u)' = Call(u)
    BY Zenon, <1>2 DEF Call
  <2>2. pc'[u] = pc[u] /\ seen'[u] = seen[u] /\ block'[u] = block[u]
    BY Zenon, <1>2
  <2>3. ASSUME pc[u] = "publish", NEW v \in Threads, pc'[v] = "publish", block'[v] = block[u]
        PROVE  v = u
    <3>1. pc[v] = "publish" /\ block[v] = block[u]
      BY Zenon, <2>3
    <3> QED BY Zenon, <2>3, <3>1 DEF PlaceInv
  <2>4. /\ pc[u] \in {"create", "exit"} => seen[u] = index[Call(u).obj]
        /\ pc[u] = "publish" => index[Call(u).obj] = 0 /\ \A o \in Objects : index[o] # block[u]
        /\ pc[u] \in {"deadline", "acquire", "waiting"} => block[u] = index[Call(u).obj]
    BY Zenon DEF PlaceInv
  <2> QED BY Zenon, <2>1, <2>2, <2>3, <2>4
<1> QED BY Zenon, <1>1, <1>2

(* ... which the code takes where it reads the index, looks at its deadline or waits. *)
LEMMA BlocksInside ==
    ASSUME IInv, NEW t \in Threads,
           Retry(t) \/ ReadIndex(t) \/ GetDeadline(t) \/ Wait(t) \/ WakeTaken(t)
    PROVE  OwnBlocks' /\ OneCreator' /\ YieldedHasBlock' /\ PlaceInv' /\ NoStrayLock' /\ LocksKept
<1> USE DEF Goto
<1>1. /\ UNCHANGED <<index, blocks, calls, block, entered>>
      /\ \A u \in Threads \ {t} : pc'[u] = pc[u] /\ seen'[u] = seen[u]
  BY Zenon DEF Retry, ReadIndex, GetDeadline, Wait, WakeTaken, IInv, BlocksInv, TimeInv, Typed
<1>2. /\ pc[t] # "idle"
      /\ pc'[t] \in {"create", "exit"} => seen'[t] = index[Call(t).obj]
      /\ pc'[t] # "publish"
      /\ pc'[t] \in {"deadline", "acquire", "waiting"} => pc[t] \in {"deadline", "acquire", "waiting"}
      /\ pc'[t] = "yielded" => pc[t] = "waiting"
  BY Zenon DEF Retry, ReadIndex, GetDeadline, Wait, WakeTaken, IInv, BlocksInv, TimeInv, Typed
<1>3. OwnBlocks' /\ OneCreator' /\ NoStrayLock' /\ LocksKept
  BY Zenon, <1>1, BlocksQuiet
<1>4. YieldedHasBlock'
  <2> SUFFICES ASSUME NEW u \in Threads, NEW i \in DOMAIN calls[u], index[calls[u][i].obj] = 0
               PROVE  i = Len(calls[u]) /\ pc'[u] # "yielded"
    BY Zenon, <1>1 DEF YieldedHasBlock
  <2>1. i = Len(calls[u]) /\ pc[u] # "yielded"
    BY Zenon DEF IInv, BlocksInv, YieldedHasBlock
  <2>2. pc[t] = "waiting" => index[Call(t).obj] # 0
    BY Zenon DEF IInv, BlocksInv, PlaceInv, TimeInv, CallsInv
  <2> QED BY Zenon, <1>1, <1>2, <2>1, <2>2 DEF Call
<1>5. PlaceInv'
  <2>1. PlaceInv /\ Call(t)' = Call(t)
    BY Zenon, <1>1 DEF IInv, BlocksInv, Call
  <2>2. pc[t] \in {"deadline", "acquire", "waiting"} => block[t] = index[Call(t).obj]
    BY Zenon, <2>1 DEF PlaceInv
  <2> QED BY Zenon, <1>1, <1>2, <2>1, <2>2, PlaceStep
<1> QED BY <1>3, <1>4, <1>5

(* A call that starts on an object without a block is the only one on it. *)
LEMMA BlocksStart ==
    ASSUME IInv, NEW t \in Threads, NEW kind \in Kinds, NEW o \in Objects, Start(t, kind, o)
    PROVE  OwnBlocks' /\ OneCreator' /\ YieldedHasBlock' /\ PlaceInv' /\ NoStrayLock' /\ LocksKept
<1> DEFINE c == [kind |-> kind, obj |-> o]
<1>1. /\ UNCHANGED <<index, blocks, block, seen, entered>>
      /\ calls' = [calls EXCEPT ![t] = Append(calls[t], c)] /\ pc' = [pc EXCEPT ![t] = "read"]
      /\ ~Contested(t, o) /\ pc[t] \in {"idle", "yielded"}
  BY DEF Start, Goto, IInv
<1>2. c \in Frames /\ calls[t] \in Seq(Frames) /\ c.obj = o
  BY Zenon DEF Frames, IInv, BlocksInv, TimeInv, Typed
<1> HIDE DEF c
<1>3. /\ \A u \in Threads \ {t} : calls'[u] = calls[u] /\ pc'[u] = pc[u]
      /\ calls'[t] = Append(calls[t], c) /\ pc'[t] = "read"
  BY <1>1 DEF IInv, BlocksInv, TimeInv, Typed
<1>4. /\ Len(calls'[t]) = Len(calls[t]) + 1 /\ DOMAIN calls'[t] = DOMAIN calls[t] \cup {Len(calls'[t])}
      /\ \A i \in DOMAIN calls[t] : calls'[t][i] = calls[t][i]
      /\ calls'[t][Len(calls'[t])] = c
  BY <1>2, <1>3, PushFacts
<1>5. \A i \in DOMAIN calls[t] : index[calls[t][i].obj] # 0
  BY <1>1, EmptySeq DEF IInv, BlocksInv, YieldedHasBlock, TimeInv, CallsInv
<1>6. OwnBlocks' /\ NoStrayLock' /\ LocksKept
  BY <1>1 DEF IInv, BlocksInv, OwnBlocks, NoStrayLock, LocksKept, LockOf
<1>7. OneCreator'
  <2>0. index[o] = 0 => \A v \in Threads \ {t} : \A j \in DOMAIN calls'[v] : calls'[v][j].obj # o
    <3> SUFFICES ASSUME index[o] = 0, NEW v \in Threads \ {t}, NEW j \in DOMAIN calls'[v], calls'[v][j].obj = o
                 PROVE  FALSE
      BY Zenon
    <3>1. ~Contested(t, o) /\ calls'[v] = calls[v]
      BY Zenon, <1>1, <1>3
    <3> QED BY Zenon, <3>1 DEF Contested
  <2> SUFFICES ASSUME NEW u \in Threads, NEW v \in Threads, u # v,
                      NEW i \in DOMAIN calls'[u], NEW j \in DOMAIN calls'[v],
                      calls'[u][i].obj = calls'[v][j].obj, index[calls'[u][i].obj] = 0
               PROVE  FALSE
    BY Zenon, <1>1 DEF OneCreator
  <2>1. CASE u = t
    <3>1. calls'[u][i] = c
      BY Zenon, <1>4, <1>5, <2>1
    <3> QED BY Zenon, <1>2, <2>0, <2>1, <3>1
  <2>2. CASE v = t
    <3>1. calls'[v][j] = c
      BY Zenon, <1>4, <1>5, <2>2
    <3> QED BY Zenon, <1>2, <2>0, <2>2, <3>1
  <2>3. CASE u # t /\ v # t
    BY Zenon, <1>3, <2>3 DEF IInv, BlocksInv, OneCreator
  <2> QED BY <2>1, <2>2, <2>3
<1>8. YieldedHasBlock'
  <2> SUFFICES ASSUME NEW u \in Threads, NEW i \in DOMAIN calls'[u], index[calls'[u][i].obj] = 0
               PROVE  i = Len(calls'[u]) /\ pc'[u] # "yielded"
    BY Zenon, <1>1 DEF YieldedHasBlock
  <2>1. CASE u = t
    BY Zenon, <1>3, <1>4, <1>5, <2>1
  <2>2. CASE u # t
    BY Zenon, <1>3, <2>2 DEF IInv, BlocksInv, YieldedHasBlock
  <2> QED BY Zenon, <2>1, <2>2
<1>9. PlaceInv'
  BY Zenon, <1>1, <1>3, PlaceStep DEF IInv, BlocksInv
<1> QED BY <1>6, <1>7, <1>8, <1>9

(* A new block is free and no object's. *)
LEMMA BlocksCreate ==
    ASSUME IInv, NEW t \in Threads, GetOrCreate(t)
    PROVE  OwnBlocks' /\ OneCreator' /\ YieldedHasBlock' /\ PlaceInv' /\ NoStrayLock' /\ LocksKept
<1>1. /\ UNCHANGED <<index, calls, seen, entered>> /\ pc[t] = "create"
      /\ seen[t] = index[Call(t).obj] /\ Call(t).obj \in Objects
  BY Zenon, TopCall DEF GetOrCreate, IInv, BlocksInv, PlaceInv
<1>2. OwnBlocks' /\ OneCreator'
  BY Zenon, <1>1 DEF IInv, BlocksInv, OwnBlocks, OneCreator
<1>3. Len(blocks) \in Nat /\ DOMAIN blocks = 1..Len(blocks)
  BY <1>1, LockOfBlock DEF IInv, BlocksInv
<1>4. CASE seen[t] \in DOMAIN blocks
  <2>1. /\ UNCHANGED blocks /\ pc' = [pc EXCEPT ![t] = "deadline"]
        /\ block' = [block EXCEPT ![t] = seen[t]]
    BY <1>4 DEF GetOrCreate, Goto
  <2>2. /\ \A u \in Threads \ {t} : pc'[u] = pc[u] /\ block'[u] = block[u]
        /\ pc'[t] = "deadline" /\ block'[t] = seen[t]
    BY <2>1 DEF IInv, BlocksInv, TimeInv, Typed
  <2>3. NoStrayLock' /\ LocksKept /\ YieldedHasBlock'
    BY Zenon, <1>1, <2>1, <2>2 DEF IInv, BlocksInv, NoStrayLock, LocksKept, LockOf, YieldedHasBlock
  <2>4. PlaceInv'
    <3>1. PlaceInv /\ Call(t)' = Call(t)
      BY Zenon, <1>1 DEF IInv, BlocksInv, Call
    <3> QED BY Zenon, <1>1, <2>2, <3>1, PlaceStep
  <2> QED BY <1>2, <2>3, <2>4
<1>5. CASE seen[t] \notin DOMAIN blocks
  <2> DEFINE n == Len(blocks) + 1
  <2>1. /\ blocks' = Append(blocks, NewBlock) /\ pc' = [pc EXCEPT ![t] = "publish"]
        /\ block' = [block EXCEPT ![t] = n]
    BY <1>5 DEF GetOrCreate, Goto
  <2>2. /\ \A u \in Threads \ {t} : pc'[u] = pc[u] /\ block'[u] = block[u]
        /\ pc'[t] = "publish" /\ block'[t] = n
    BY <2>1 DEF IInv, BlocksInv, TimeInv, Typed
  <2>3. /\ DOMAIN blocks' = DOMAIN blocks \cup {n} /\ n \notin DOMAIN blocks /\ n # 0
        /\ \A i \in DOMAIN blocks : blocks'[i] = blocks[i]
        /\ blocks'[n] = NewBlock
    <3>1. blocks \in Seq(Blocks) /\ NewBlock \in Blocks
      BY DEF IInv, BlocksInv, TimeInv, Typed, Blocks, NewBlock
    <3> QED BY <1>3, <2>1, <3>1, PushFacts
  <2>4. \A o \in Objects : index[o] # 0 => index[o] \in DOMAIN blocks
    BY <1>3, LockOfBlock DEF IInv, BlocksInv
  <2>5. \A u \in Threads : block[u] # n
    BY <1>3 DEF IInv, BlocksInv, TimeInv, Typed
  <2> HIDE DEF n
  <2>6. NoStrayLock' /\ LocksKept
    BY Zenon, <1>1, <2>3, <2>4 DEF IInv, BlocksInv, NoStrayLock, LocksKept, LockOf
  <2>7. index[Call(t).obj] = 0
    BY <1>1, <1>5, <2>4
  <2>8. YieldedHasBlock'
    BY Zenon, <1>1, <2>2 DEF IInv, BlocksInv, YieldedHasBlock
  <2>9. PlaceInv'
    <3> SUFFICES ASSUME NEW u \in Threads
                 PROVE  /\ pc'[u] \in {"create", "exit"} => seen[u] = index[Call(u).obj]
                        /\ pc'[u] = "publish" =>
                             /\ index[Call(u).obj] = 0
                             /\ \A o \in Objects : index[o] # block'[u]
                             /\ \A v \in Threads : pc'[v] = "publish" /\ block'[v] = block'[u] => v = u
                        /\ pc'[u] \in {"deadline", "acquire", "waiting"} => block'[u] = index[Call(u).obj]
      BY Zenon, <1>1 DEF PlaceInv, Call
    <3>1. CASE u = t
      BY Zenon, <2>2, <2>3, <2>4, <2>5, <2>7, <3>1
    <3>2. CASE u # t
      BY <2>2, <2>5, <3>2 DEF IInv, BlocksInv, PlaceInv
    <3> QED BY Zenon, <3>1, <3>2
  <2> QED BY <1>2, <2>6, <2>8, <2>9
<1> QED BY Zenon, <1>4, <1>5

(* Publishing gives the object its block, which nobody has locked. *)
LEMMA BlocksPublish ==
    ASSUME IInv, NEW t \in Threads, Publish(t)
    PROVE  OwnBlocks' /\ OneCreator' /\ YieldedHasBlock' /\ PlaceInv' /\ NoStrayLock' /\ LocksKept
<1> DEFINE o == Call(t).obj
<1>1. /\ UNCHANGED <<blocks, calls, seen, block, entered>> /\ pc[t] = "publish"
      /\ index' = [index EXCEPT ![o] = block[t]] /\ pc' = [pc EXCEPT ![t] = "deadline"]
  BY DEF Publish, Goto
<1>2. /\ o \in Objects /\ index[o] = 0 /\ block[t] # 0 /\ \A p \in Objects : index[p] # block[t]
      /\ \A u \in Threads : pc[u] = "publish" /\ block[u] = block[t] => u = t
  BY Zenon, <1>1, TopCall DEF IInv, BlocksInv, PlaceInv, TimeInv, CallsInv
<1>3. /\ \A p \in Objects : index'[p] = IF p = o THEN block[t] ELSE index[p]
      /\ \A u \in Threads : pc'[u] = IF u = t THEN "deadline" ELSE pc[u]
  BY Zenon, <1>1, <1>2 DEF IInv, BlocksInv, TimeInv, Typed
<1>4. block[t] \in DOMAIN blocks /\ blocks[block[t]] = NewBlock
  <2>1. block[t] \in DOMAIN blocks
    BY <1>2, LockOfBlock DEF IInv, BlocksInv, TimeInv, Typed
  <2> QED BY Zenon, <1>2, <2>1 DEF IInv, BlocksInv, NoStrayLock
<1>5. \A u \in Threads \ {t} : \A i \in DOMAIN calls[u] : calls[u][i].obj # o
  BY Zenon, <1>1, <1>2, TopCall DEF IInv, BlocksInv, OneCreator, Call
<1>6. \A u \in Threads \ {t} : pc[u] # "idle" => Call(u).obj # o /\ Call(u).obj \in Objects
  BY Zenon, <1>5, TopCall DEF IInv, BlocksInv, Call
<1> HIDE DEF o
<1>7. OwnBlocks' /\ NoStrayLock' /\ LocksKept
  <2>1. OwnBlocks'
    BY ZenonT(60), <1>2, <1>3 DEF IInv, BlocksInv, OwnBlocks
  <2>2. NoStrayLock'
    <3> SUFFICES ASSUME NEW i \in DOMAIN blocks, blocks[i] # NewBlock
                 PROVE  \E p \in Objects : index'[p] = i
      BY <1>1 DEF NoStrayLock
    <3>1. PICK p \in Objects : index[p] = i
      BY Zenon DEF IInv, BlocksInv, NoStrayLock
    <3>2. p # o
      BY Zenon, <1>2, <3>1, NoBlockZero DEF IInv, BlocksInv
    <3> QED BY <1>3, <3>1, <3>2
  <2>3. LocksKept
    BY <1>1, <1>2, <1>3, <1>4 DEF LocksKept, LockOf
  <2> QED BY <2>1, <2>2, <2>3
<1>8. \A u \in Threads : \A i \in DOMAIN calls[u] :
        calls[u][i].obj \in Objects /\ (index'[calls[u][i].obj] = 0 => index[calls[u][i].obj] = 0)
  BY Zenon, <1>2, <1>3, AnyCall DEF IInv, BlocksInv
<1>9. OneCreator' /\ YieldedHasBlock'
  <2>1. OneCreator'
    <3> SUFFICES ASSUME NEW u \in Threads, NEW v \in Threads,
                        NEW i \in DOMAIN calls'[u], NEW j \in DOMAIN calls'[v],
                        calls'[u][i].obj = calls'[v][j].obj, index'[calls'[u][i].obj] = 0
                 PROVE  u = v
      BY Zenon DEF OneCreator
    <3>1. calls' = calls
      BY Zenon, <1>1
    <3>2. index[calls[u][i].obj] = 0
      BY Zenon, <1>8, <3>1
    <3> QED BY Zenon, <3>1, <3>2 DEF IInv, BlocksInv, OneCreator
  <2>2. YieldedHasBlock'
    <3> SUFFICES ASSUME NEW u \in Threads, NEW i \in DOMAIN calls[u], index'[calls[u][i].obj] = 0
                 PROVE  i = Len(calls[u]) /\ pc'[u] # "yielded"
      BY Zenon, <1>1 DEF YieldedHasBlock
    <3>1. i = Len(calls[u]) /\ pc[u] # "yielded"
      BY Zenon, <1>8 DEF IInv, BlocksInv, YieldedHasBlock
    <3> QED BY Zenon, <1>3, <3>1
  <2> QED BY <2>1, <2>2
<1>10. PlaceInv'
  <2> SUFFICES ASSUME NEW u \in Threads
               PROVE  /\ pc'[u] \in {"create", "exit"} => seen'[u] = index'[Call(u)'.obj]
                      /\ pc'[u] = "publish" =>
                           /\ index'[Call(u)'.obj] = 0
                           /\ \A p \in Objects : index'[p] # block'[u]
                           /\ \A v \in Threads : pc'[v] = "publish" /\ block'[v] = block'[u] => v = u
                      /\ pc'[u] \in {"deadline", "acquire", "waiting"} => block'[u] = index'[Call(u)'.obj]
    BY Zenon DEF PlaceInv
  <2>1. seen' = seen /\ block' = block /\ Call(u)' = Call(u)
    BY Zenon, <1>1 DEF Call
  <2>2. CASE u = t
    BY Zenon, <1>2, <1>3, <2>1, <2>2 DEF o
  <2>3. CASE u # t
    <3>1. pc'[u] = pc[u] /\ (pc[u] # "idle" => index'[Call(u).obj] = index[Call(u).obj])
      BY Zenon, <1>3, <1>6, <2>3
    <3>2. /\ pc[u] \in {"create", "exit"} => seen[u] = index[Call(u).obj]
          /\ pc[u] = "publish" => index[Call(u).obj] = 0 /\ \A p \in Objects : index[p] # block[u]
          /\ pc[u] \in {"deadline", "acquire", "waiting"} => block[u] = index[Call(u).obj]
      BY Zenon DEF IInv, BlocksInv, PlaceInv
    <3>3. ASSUME pc[u] = "publish"
          PROVE  /\ \A p \in Objects : index'[p] # block[u]
                 /\ \A v \in Threads : pc'[v] = "publish" /\ block[v] = block[u] => v = u
      <4>1. block[t] # block[u]
        BY Zenon, <1>2, <2>3, <3>3
      <4>2. \A v \in Threads : pc'[v] = "publish" => pc[v] = "publish"
        BY Zenon, <1>1, <1>3
      <4>3. \A v \in Threads : pc[v] = "publish" /\ block[v] = block[u] => v = u
        BY Zenon, <3>3 DEF IInv, BlocksInv, PlaceInv
      <4> QED BY Zenon, <1>3, <3>2, <3>3, <4>1, <4>2, <4>3
    <3> QED BY Zenon, <2>1, <3>1, <3>2, <3>3
  <2> QED BY Zenon, <2>2, <2>3
<1> QED BY <1>7, <1>9, <1>10

(* A return leaves the calls below, all of whose objects have their blocks. *)
LEMMA BlocksReturned ==
    ASSUME IInv, NEW t \in Threads, pc[t] # "idle", Return(t), UNCHANGED <<index, seen, block>>
    PROVE  OwnBlocks' /\ OneCreator' /\ YieldedHasBlock' /\ PlaceInv'
<1>1. calls[t] \in Seq(Frames) /\ calls[t] # <<>>
  BY DEF IInv, BlocksInv, TimeInv, Typed, CallsInv
<1>2. /\ \A u \in Threads \ {t} : calls'[u] = calls[u] /\ pc'[u] = pc[u]
      /\ calls'[t] = SubSeq(calls[t], 1, Len(calls[t]) - 1) /\ pc'[t] \in {"idle", "yielded"}
  BY DEF Return, Goto, IInv, BlocksInv, TimeInv, Typed
<1>3. /\ DOMAIN calls'[t] = DOMAIN calls[t] \ {Len(calls[t])}
      /\ \A i \in DOMAIN calls'[t] : calls'[t][i] = calls[t][i]
  BY <1>1, <1>2, PopFacts
<1>4. \A u \in Threads : \A i \in DOMAIN calls'[u] : i \in DOMAIN calls[u] /\ calls'[u][i] = calls[u][i]
  BY Zenon, <1>2, <1>3
<1>5. \A i \in DOMAIN calls'[t] : index[calls'[t][i].obj] # 0
  BY <1>3 DEF IInv, BlocksInv, YieldedHasBlock
<1>6. OwnBlocks' /\ OneCreator'
  BY <1>4 DEF IInv, BlocksInv, OwnBlocks, OneCreator
<1>7. YieldedHasBlock'
  <2> SUFFICES ASSUME NEW u \in Threads, NEW i \in DOMAIN calls'[u], index'[calls'[u][i].obj] = 0
               PROVE  i = Len(calls'[u]) /\ pc'[u] # "yielded"
    BY Zenon DEF YieldedHasBlock
  <2>1. index' = index
    BY Zenon
  <2>2. u # t
    BY Zenon, <1>5, <2>1
  <2> QED BY Zenon, <1>2, <2>1, <2>2 DEF IInv, BlocksInv, YieldedHasBlock
<1>8. PlaceInv'
  BY Zenon, <1>2, PlaceStep DEF IInv, BlocksInv
<1> QED BY <1>6, <1>7, <1>8

(* Writing an object's block changes that object's lock and no other. *)
LEMMA BlockWritten ==
    ASSUME IInv, NEW o \in Objects, index[o] # 0, NEW b,
           blocks' = [blocks EXCEPT ![index[o]] = b], UNCHANGED index
    PROVE  /\ \A p \in Objects : LockOf(p)' = IF p = o THEN b ELSE LockOf(p)
           /\ NoStrayLock'
<1>1. index[o] \in DOMAIN blocks /\ \A p \in Objects : index[p] # 0 => index[p] \in DOMAIN blocks
  BY LockOfBlock DEF IInv, BlocksInv
<1>2. /\ DOMAIN blocks' = DOMAIN blocks
      /\ \A i \in DOMAIN blocks : blocks'[i] = IF i = index[o] THEN b ELSE blocks[i]
  BY <1>1
<1>3. \A p \in Objects : LockOf(p)' = IF p = o THEN b ELSE LockOf(p)
  BY <1>1, <1>2 DEF LockOf, IInv, BlocksInv, OwnBlocks
<1>4. NoStrayLock'
  BY <1>1, <1>2 DEF NoStrayLock, IInv, BlocksInv
<1> QED BY <1>3, <1>4

(* Each call that returns has entered, or left, or not touched its object's lock. *)
LEMMA BlocksReturn ==
    ASSUME IInv, NEW t \in Threads, Acquire(t) \/ GiveUp(t) \/ WakeFree(t) \/ Exit(t)
    PROVE  OwnBlocks' /\ OneCreator' /\ YieldedHasBlock' /\ PlaceInv' /\ NoStrayLock' /\ LockStep
<1> DEFINE o == Call(t).obj
<1>1. pc[t] # "idle" /\ Return(t) /\ UNCHANGED <<index, seen, block>>
  BY Zenon DEF Acquire, GiveUp, WakeFree, Exit, Succeed
<1>2. OwnBlocks' /\ OneCreator' /\ YieldedHasBlock' /\ PlaceInv'
  BY <1>1, BlocksReturned
<1>3. o \in Objects
  BY <1>1, TopCall DEF IInv, BlocksInv
<1>4. CASE Acquire(t) \/ WakeFree(t)
  <2>1. block[t] = index[o] /\ index[o] # 0 /\ LockOf(o) = blocks[block[t]]
    BY Zenon, <1>4 DEF Acquire, WakeFree, IInv, BlocksInv, PlaceInv, TimeInv, CallsInv, LockOf
  <2>2. LockOf(o).owner \in {None, t} /\ (LockOf(o).owner # t => LockOf(o).count = 0)
    BY ZenonT(60), <1>3, <1>4, <2>1 DEF Acquire, WakeFree, TryLock, IInv, LocksCounted
  <2>3. blocks' = [blocks EXCEPT ![index[o]] = [owner |-> t, count |-> LockOf(o).count + 1]]
    <3>1. CASE Acquire(t)
      <4>1. blocks' = [blocks EXCEPT ![block[t]] =
                         [owner |-> t, count |-> IF blocks[block[t]].owner = t
                                                   THEN blocks[block[t]].count + 1 ELSE 1]]
        BY Zenon, <3>1 DEF Acquire
      <4>2. CASE LockOf(o).owner = t
        BY Zenon, <2>1, <4>1, <4>2
      <4>3. CASE LockOf(o).owner # t
        <5>1. LockOf(o).count + 1 = 1
          BY <2>2, <4>3
        <5> QED BY Zenon, <2>1, <4>1, <4>3, <5>1
      <4> QED BY Zenon, <4>2, <4>3
    <3>2. CASE WakeFree(t)
      <4>1. LockOf(o).count + 1 = 1
        <5>1. LockOf(o).owner # t
          BY Zenon, <2>1, <3>2, MonitorConstants DEF WakeFree
        <5> QED BY <2>2, <5>1
      <4> QED BY Zenon, <2>1, <3>2, <4>1 DEF WakeFree
    <3> QED BY Zenon, <1>4, <3>1, <3>2
  <2>4. entered' = [entered EXCEPT ![t][o] = @ + 1]
    BY Zenon, <1>4 DEF Acquire, WakeFree, Succeed
  <2> HIDE DEF o
  <2>5. NoStrayLock' /\ Entering(t, o)
    BY Zenon, <1>1, <1>3, <2>1, <2>2, <2>3, <2>4, BlockWritten DEF Entering
  <2> QED BY <1>2, <1>3, <2>5 DEF LockStep
<1>5. CASE Exit(t) /\ seen[t] # 0 /\ blocks[seen[t]].owner = t /\ blocks[seen[t]].count > 0
  <2>1. seen[t] = index[o] /\ index[o] # 0 /\ LockOf(o) = blocks[seen[t]]
    BY Zenon, <1>5 DEF Exit, IInv, BlocksInv, PlaceInv, LockOf
  <2> DEFINE b == IF LockOf(o).count = 1 THEN NewBlock ELSE [owner |-> t, count |-> LockOf(o).count - 1]
  <2>2. blocks' = [blocks EXCEPT ![index[o]] = b]
    BY Zenon, <1>5, <2>1 DEF Exit
  <2>3. entered' = [entered EXCEPT ![t][o] = @ - 1]
    BY Zenon, <1>5 DEF Exit
  <2> HIDE DEF o
  <2>4. NoStrayLock' /\ Leaving(t, o)
    BY Zenon, <1>1, <1>3, <1>5, <2>1, <2>2, <2>3, BlockWritten DEF Leaving
  <2> QED BY <1>2, <1>3, <2>4 DEF LockStep
<1>6. CASE GiveUp(t) \/ (Exit(t) /\ ~(seen[t] # 0 /\ blocks[seen[t]].owner = t /\ blocks[seen[t]].count > 0))
  <2>1. UNCHANGED <<index, blocks, entered>>
    BY Zenon, <1>6 DEF GiveUp, Exit
  <2>2. NoStrayLock' /\ LocksKept
    BY <2>1 DEF IInv, BlocksInv, NoStrayLock, LocksKept, LockOf
  <2> QED BY <1>2, <2>2 DEF LockStep
<1> QED BY Zenon, <1>4, <1>5, <1>6

(* Every step keeps the invariant, and does to the locks what RecursiveLock allows. *)
LEMMA LockStepStep == IInv /\ [Next]_vars => IInv' /\ LockStep
<1> SUFFICES ASSUME IInv, [Next]_vars PROVE IInv' /\ LockStep
  OBVIOUS
<1>1. TimeInv'
  BY TimeStep DEF IInv, BlocksInv
<1>2. OwnBlocks' /\ OneCreator' /\ YieldedHasBlock' /\ PlaceInv' /\ NoStrayLock' /\ LockStep
  <2>1. ASSUME UNCHANGED <<index, blocks, calls, pc, seen, block, entered>>
        PROVE  OwnBlocks' /\ OneCreator' /\ YieldedHasBlock' /\ PlaceInv' /\ NoStrayLock' /\ LockStep
    <3>1. YieldedHasBlock' /\ PlaceInv'
      BY ZenonT(60), <2>1 DEF IInv, BlocksInv, YieldedHasBlock, PlaceInv, Call
    <3> QED BY <2>1, <3>1, BlocksQuiet DEF LockStep
  <2>2. CASE UNCHANGED vars \/ RequestStop \/ Resume \/ \E t \in Threads : Expire(t) \/ Park(t)
    BY Zenon, <2>1, <2>2 DEF vars, RequestStop, Resume, Expire, Park
  <2>3. CASE \E t \in Threads, kind \in Kinds, o \in Objects : Start(t, kind, o)
    BY <2>3, BlocksStart DEF LockStep
  <2>4. ASSUME NEW t \in Threads, Step(t), ~Park(t)
        PROVE  OwnBlocks' /\ OneCreator' /\ YieldedHasBlock' /\ PlaceInv' /\ NoStrayLock' /\ LockStep
    BY ZenonT(60), <2>4, BlocksInside, BlocksCreate, BlocksPublish, BlocksReturn DEF Step, LockStep
  <2> QED BY <2>2, <2>3, <2>4 DEF Next
<1>3. LocksCounted'
  BY <1>2, CountedStep DEF IInv
<1> QED BY <1>1, <1>2, <1>3 DEF IInv, BlocksInv

(* The invariant holds before any call, if first locks are not raced for. *)
LEMMA LockInit == Init /\ ~Racing => IInv
  BY TimeInit, CountedInit DEF IInv, BlocksInv

-----------------------------------------------------------------------------
(* What the invariant gives *)

(* The invariant says what the blocks record of the locks held. *)
LEMMA LocksMatch == IInv => LockStateMatches
<1> SUFFICES ASSUME IInv PROVE LockStateMatches
  OBVIOUS
<1> USE DEF IInv, BlocksInv, TimeInv
<1>1. blocks \in Seq(Blocks) /\ Len(blocks) \in Nat /\ DOMAIN blocks = 1..Len(blocks)
  BY DEF Typed
<1>2. TypeOK
  <2>1. \A i \in DOMAIN blocks : blocks[i] \in Blocks
    BY <1>1
  <2>2. \A t \in Threads : \A i \in DOMAIN calls[t] : calls[t][i] \in Frames
    BY AnyCall
  <2>3. entered \in [Threads -> [Objects -> Nat]]
    BY Zenon DEF LocksCounted
  <2>4. \A t \in Threads : {seen[t], block[t]} \subseteq 0..Len(blocks)
    BY Zenon DEF Typed
  <2> QED BY Zenon, <2>1, <2>2, <2>3, <2>4 DEF Typed, TypeOK, Blocks
<1>3. \A o \in Objects, t \in Threads : entered[t][o] > 0 => LockOf(o).owner = t /\ entered[t][o] = LockOf(o).count
  BY DEF LocksCounted
<1>4. MutualExclusion
  BY <1>3 DEF MutualExclusion
<1>5. RecursionCounted
  <2> SUFFICES ASSUME NEW o \in Objects, NEW t \in Threads, entered[t][o] > 0
               PROVE  index[o] \in DOMAIN blocks /\ blocks[index[o]] = [owner |-> t, count |-> entered[t][o]]
    BY Zenon DEF RecursionCounted
  <2>1. LockOf(o).owner = t /\ LockOf(o).count = entered[t][o] /\ LockOf(o) \in Blocks
    BY <1>3 DEF LocksCounted
  <2>2. index[o] # 0
    BY Zenon, <2>1, MonitorConstants DEF LockOf, NewBlock
  <2> QED BY Zenon, <2>1, <2>2, LockOfBlock DEF LockOf, Blocks
<1>6. OwnersHaveEntered
  <2> SUFFICES ASSUME NEW i \in DOMAIN blocks, blocks[i].owner # None
               PROVE  \E o \in Objects : index[o] = i /\ entered[blocks[i].owner][o] > 0
    BY DEF OwnersHaveEntered
  <2>1. PICK o \in Objects : index[o] = i
    BY DEF NoStrayLock, NewBlock
  <2>2. LockOf(o) = blocks[i] /\ LockOf(o) \in Blocks
    BY <1>1, <2>1, LockOfBlock DEF LockOf
  <2>3. LockOf(o).owner \in Threads /\ LockOf(o).count \in Nat /\ LockOf(o).count # 0
    BY Zenon, <2>2 DEF Blocks, LocksCounted
  <2>4. entered[LockOf(o).owner][o] = LockOf(o).count
    BY Zenon, <2>3 DEF LocksCounted
  <2> QED BY <2>1, <2>2, <2>3, <2>4
<1> QED BY <1>2, <1>4, <1>5, <1>6 DEF LockStateMatches

(* The steps of monitors are steps of RecursiveLock, or change no lock. *)
LEMMA LockStepAllowed ==
    ASSUME IInv, LockStep
    PROVE  [Promise!Next]_<<[o \in Objects |-> IF index[o] = 0 THEN NewBlock ELSE blocks[index[o]]], entered>>
<1> DEFINE Lock == [o \in Objects |-> IF index[o] = 0 THEN NewBlock ELSE blocks[index[o]]]
<1>1. /\ \A o \in Objects : Lock[o] = LockOf(o)
      /\ \A o \in Objects : Lock'[o] = LockOf(o)'
  BY Zenon DEF LockOf
<1>2. CASE LocksKept
  BY <1>2 DEF LocksKept, LockOf
<1>3. ASSUME NEW t \in Threads, NEW o \in Objects, Entering(t, o)
      PROVE  Promise!Enter(t, o)
  BY Zenon, <1>3 DEF Entering, LockOf, Promise!Enter
<1>4. ASSUME NEW t \in Threads, NEW o \in Objects, Leaving(t, o)
      PROVE  Promise!Exit(t, o)
  BY Zenon, <1>4 DEF Leaving, LockOf, Promise!Exit, Promise!Free, NewBlock
<1> QED BY Zenon, <1>2, <1>3, <1>4 DEF LockStep, Promise!Next

(* Where two threads do not race for the first lock of an object, the sync blocks record
   exactly what the program holds: one owner per object, who has entered as often as the
   block counts, and no lock is left behind by waiting, yielding, giving up or a retry. *)
THEOREM LocksAreHeldByOwners == Spec /\ ~Racing => []LockStateMatches
<1>1. IInv /\ [Next]_vars => IInv'
  BY LockStepStep
<1> QED BY <1>1, LockInit, LocksMatch, PTL DEF Spec

(* ... and Monitor implements RecursiveLock: Enter, TryEnter and Exit take effect once and
   atomically, however often the instruction was run again and whatever finalizers ran
   while it had yielded. *)
THEOREM MonitorsAreRecursiveLocks == Spec /\ ~Racing => IsRecursiveLock
<1>1. Init => Promise!Init
  <2> SUFFICES ASSUME Init PROVE Promise!Init
    OBVIOUS
  <2>1. \A o \in Objects : (IF index[o] = 0 THEN NewBlock ELSE blocks[index[o]]) = NewBlock
    BY InitFree DEF LockOf
  <2> QED BY Zenon, <2>1 DEF Init, Promise!Init, Promise!Free, NewBlock
<1>2. IInv /\ [Next]_vars => IInv' /\ [Promise!Next]_<<[o \in Objects |-> IF index[o] = 0 THEN NewBlock ELSE blocks[index[o]]], entered>>
  BY Zenon, LockStepStep, LockStepAllowed
<1> QED BY <1>1, <1>2, LockInit, PTL DEF Spec, Promise!Spec, IsRecursiveLock
=============================================================================
