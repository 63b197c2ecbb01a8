---------------------------- MODULE CallsProofs ----------------------------
(***************************************************************************)
(* For every program, every signature and any depth of calls: the frames   *)
(* partition the evaluation stack, what a caller left there is what it     *)
(* finds again, a byref reaches the home it was taken of or none, and the  *)
(* home of a struct under construction outlives its constructor.           *)
(*                                                                         *)
(* The argument is about frames and stack alone (StackInv).  A handler     *)
(* composes three changes, each of which keeps StackInv: the top frame is  *)
(* replaced by one with the same arguments, whatever happens above them    *)
(* (TopReplaced); a frame is put on top of the stack (FramePushed); the    *)
(* top frame goes with its slots (FramePopped).  Only a store through a    *)
(* byref reaches a frame further down, and only its homes (HomeStored).    *)
(***************************************************************************)
EXTENDS Calls, Integers, TLAPS

Target == {m \in Method : Args(m) = 1}
Instructions == {Any, Ret} \cup UNION {Code(m) : m \in Method}

(* What a struct under construction can hold, and the values of the stack.  A
   byref carries the number of its block, which is its serial. *)
Content == {Null} \cup Constants
Structs == [k : {"struct"}, content : Content]
Serials == 1..(MaxSerial + 1)
Value ==
    Constants \cup {Null, Hole, This} \cup {Byref(n, n) : n \in Serials} \cup Structs
        \cup [k : {"boxed"}, content : Content \cup Structs] \cup {Delegate(<<m>>) : m \in Target}

Homes ==
    {h \in UNION {[D -> [block : Serials, value : Value]] : D \in SUBSET Serials} :
        \A s \in DOMAIN h : h[s].block = s}

Cast == [targets : Seq(Target), next : Nat, args : {<<v>> : v \in Value}]

Frame ==
    [method : Method, arguments : Nat, base : Nat, height : Nat, at : Instructions, want : Int,
     finalizer : BOOLEAN, multicast : {NoCast} \cup Cast, action : {"none", "void", "value"},
     result : [slot : Nat, serial : Nat], homes : Homes, searched : BOOLEAN,
     invoked : Seq(Method), last : Value, below : Seq(Value)]

(* What a frame says of itself: its slots in their order, what it found below
   them, the method of a multicast, and a first home where it needs one. *)
FrameRight(f) ==
    /\ f.base = f.arguments + Args(f.method) + Locals(f.method)
    /\ Len(f.below) = f.arguments
    /\ f.multicast # NoCast => f.method = Invoke
    /\ Homed(f.method) => \E s \in DOMAIN f.homes : \A x \in DOMAIN f.homes : s <= x

Frames == {f \in Frame : FrameRight(f)}

(* The struct a frame constructs: in a home of the caller, its result in the
   caller's last operand. *)
ReceiverRight(fs, st, i, r) ==
    /\ i > 1 /\ fs[i - 1].height > 0
    /\ r.serial \in DOMAIN fs[i - 1].homes
    /\ fs[i - 1].homes[r.serial].value \in Content
    /\ r.slot = fs[i].arguments /\ st[r.slot] = Hole

Ends(f) == f.base + f.height

(* The frames meet, one on top of the other; what each found below it is still
   there; serials of homes were issued, and to one frame; results find their way. *)
Meet(fs, st) ==
    \A i \in 1..Len(fs) : Ends(fs[i]) = IF i = Len(fs) THEN Len(st) ELSE fs[i + 1].arguments
Ordered(fs) == \A i, j \in 1..Len(fs) : i < j => Ends(fs[i]) <= fs[j].arguments
BelowKept(fs, st) == \A i \in 1..Len(fs) : \A k \in 1..fs[i].arguments : st[k] = fs[i].below[k]
HomesIssued(fs, se) == \A i \in 1..Len(fs) : \A s \in DOMAIN fs[i].homes : s <= se
HomesApart(fs) ==
    \A i, j \in 1..Len(fs) : i # j => DOMAIN fs[i].homes \cap DOMAIN fs[j].homes = {}
ReceiversRight(fs, st) ==
    \A i \in 1..Len(fs) : fs[i].result # NoResult => ReceiverRight(fs, st, i, fs[i].result)

StackInv(fs, st, se) ==
    /\ fs \in Seq(Frames) /\ st \in Seq(Value) /\ se \in 0..(MaxSerial + 1)
    /\ Meet(fs, st) /\ Ordered(fs) /\ BelowKept(fs, st)
    /\ HomesIssued(fs, se) /\ HomesApart(fs) /\ ReceiversRight(fs, st)

Statuses == {"running", "throwing", "returned", "exited", "threw", "aborted"}
Machines ==
    [frames : Seq(Frames), stack : Seq(Value), serial : 0..(MaxSerial + 1),
     type : {"uninit", "running", "done", "failed"}, processing : BOOLEAN,
     status : Statuses, blocks : Nat]

MInv(m) == m \in Machines /\ StackInv(m.frames, m.stack, m.serial) /\ m.blocks = m.serial

(* A thread that goes on has a frame to go on in. *)
Grounded(m) == m.status \in {"running", "throwing"} => m.frames # <<>>

IInv ==
    /\ MInv(Machine) /\ Grounded(Machine)
    /\ pending \in Nat /\ died \in 0..MaxFinalizers /\ pending <= died

-----------------------------------------------------------------------------
(* Frames *)

(* The bounds and the signatures are natural numbers. *)
LEMMA Bounds ==
    /\ MaxSerial \in Nat /\ MaxFrames \in Nat /\ MaxFinalizers \in Nat
    /\ \A m \in Method : Args(m) \in Nat /\ Locals(m) \in Nat
    /\ Entry \in Method /\ Cctor \in Method /\ Finalizer \in Method /\ Invoke \in Method
    /\ Args(Entry) = 0 /\ Args(Cctor) = 0 /\ Args(Finalizer) = 1 /\ Args(Invoke) = 2
  BY CallsAssumption

(* Sums and differences, for steps whose numbers are fields of frames. *)
LEMMA Arithmetic ==
    /\ \A a, b \in Nat : a + b \in Nat /\ a <= a + b /\ b <= a + b /\ (a + b) - b = a
    /\ \A a, b \in Nat : a > 0 => a + b > b
    /\ \A a, b \in Nat : a < b => a <= b
    /\ \A a, b \in Nat : a - b \in Int
  OBVIOUS

(* Comparisons of natural numbers. *)
LEMMA Order ==
    /\ \A a, b \in Nat : (a > b => b <= a) /\ (a <= b => a < b + 1)
    /\ \A a \in Nat : (~(a > 0) => a = 0) /\ (a > 0 => a - 1 \in Nat) /\ a + 0 = a
    /\ \A a, b, c \in Nat : (a <= b => a <= b + c) /\ (a <= c => a <= b + c)
    /\ \A a, b \in Nat : a <= b => \A k \in 1..a : k \in 1..b
    /\ \A a, b, c \in Nat : a - b + c \in Int
  OBVIOUS

(* The slots of a stack are slots of the stack with one more on it. *)
LEMMA OneMore ==
    ASSUME NEW n \in Nat
    PROVE  \A k \in 1..n : k \in 1..(n + 1)
  OBVIOUS

(* What fits in a part of a stack of l slots fits in the whole of it. *)
LEMMA Whole ==
    ASSUME NEW b \in Nat, NEW h \in Nat, NEW l, l = b + h, NEW n \in Nat
    PROVE  (n <= b => n <= l) /\ (n <= h => n <= l) /\ (h >= n => l >= n)
  OBVIOUS

(* The slots of n arguments from a on, and l locals, lie below e. *)
LEMMA ArgumentSlots ==
    ASSUME NEW a \in Nat, NEW n \in Nat, NEW l \in Nat, NEW e \in Nat, a + n + l <= e
    PROVE  \A i \in 1..n : a + i \in 1..e
  OBVIOUS

(* The operands of a constructor: its arguments, and the result under them. *)
LEMMA ConstructorSlots ==
    ASSUME NEW a \in Nat, NEW h \in Nat, NEW n \in Nat
    PROVE  h + (n + 1) > n /\ a + 1 = (a + (n + 1)) - n
  OBVIOUS

(* The element under one that has been appended. *)
LEMMA Under ==
    ASSUME NEW S, NEW q \in Seq(S), Len(q) > 0, NEW e
    PROVE  /\ Len(q) + 1 > 1 /\ Len(q) + 1 > 0
           /\ Append(q, e)[(Len(q) + 1) - 1] = q[Len(q)]
  OBVIOUS

(* A method gives back one operand or none. *)
LEMMA GivenNatural == \A c : Given(c) \in Nat
  BY DEF Given

(* The elements of a sequence over S are in S. *)
LEMMA ElementsOf ==
    ASSUME NEW S, NEW q \in Seq(S)
    PROVE  Len(q) \in Nat /\ \A i \in 1..Len(q) : q[i] \in S
  OBVIOUS

(* The last element of a sequence is replaced. *)
LEMMA LastReplaced ==
    ASSUME NEW S, NEW q \in Seq(S), NEW e \in S, Len(q) > 0
    PROVE  /\ [q EXCEPT ![Len(q)] = e] \in Seq(S) /\ Len([q EXCEPT ![Len(q)] = e]) = Len(q)
           /\ [q EXCEPT ![Len(q)] = e][Len(q)] = e
           /\ \A i \in 1..(Len(q) - 1) : [q EXCEPT ![Len(q)] = e][i] = q[i]
  OBVIOUS

(* The first n elements of a sequence. *)
LEMMA Prefix ==
    ASSUME NEW S, NEW q \in Seq(S), NEW n \in 0..Len(q)
    PROVE  /\ SubSeq(q, 1, n) \in Seq(S) /\ Len(SubSeq(q, 1, n)) = n
           /\ \A i \in 1..n : SubSeq(q, 1, n)[i] = q[i]
  OBVIOUS

(* One sequence after the other. *)
LEMMA Joined ==
    ASSUME NEW S, NEW q \in Seq(S), NEW p \in Seq(S)
    PROVE  /\ q \o p \in Seq(S) /\ Len(q \o p) = Len(q) + Len(p)
           /\ \A i \in 1..Len(q) : (q \o p)[i] = q[i]
           /\ \A i \in 1..Len(p) : (q \o p)[Len(q) + i] = p[i]
  OBVIOUS

(* The same for stacks. *)
LEMMA StacksJoined ==
    ASSUME NEW q \in Seq(Value), NEW p \in Seq(Value)
    PROVE  /\ q \o p \in Seq(Value) /\ Len(q \o p) = Len(q) + Len(p)
           /\ \A i \in 1..Len(q) : (q \o p)[i] = q[i]
           /\ \A i \in 1..Len(p) : (q \o p)[Len(q) + i] = p[i]
  OBVIOUS

(* A sequence of equal elements, as the locals of a fresh frame. *)
LEMMA Constantly ==
    ASSUME NEW S, NEW e \in S, NEW n \in Nat
    PROVE  [i \in 1..n |-> e] \in Seq(S) /\ Len([i \in 1..n |-> e]) = n
  OBVIOUS

(* Sequences with the same elements. *)
LEMMA SameSequence ==
    ASSUME NEW S, NEW q \in Seq(S), NEW p \in Seq(S), Len(p) = Len(q),
           \A i \in 1..Len(q) : p[i] = q[i]
    PROVE  p = q
  OBVIOUS

(* An element makes a sequence of one. *)
LEMMA OneElement ==
    ASSUME NEW S, NEW e \in S
    PROVE  <<e>> \in Seq(S) /\ Len(<<e>>) = 1
  OBVIOUS

(* A sequence of one element. *)
LEMMA OneLong ==
    ASSUME NEW S, NEW q \in Seq(S), Len(q) = 1
    PROVE  q[1] \in S /\ q = <<q[1]>>
<1> DEFINE e == q[1]
<1>1. e \in S
    OBVIOUS
<1>2. \E r \in Seq(S) : r = <<e>> /\ Len(r) = 1 /\ r[1] = e
    BY <1>1
<1>3. \A r \in Seq(S) : Len(r) = 1 /\ r[1] = q[1] => r = q
    OBVIOUS
<1>4. QED
    BY <1>1, <1>2, <1>3

(* An element in front of a sequence. *)
LEMMA InFront ==
    ASSUME NEW S, NEW e \in S, NEW q \in Seq(S)
    PROVE  <<e>> \o q \in Seq(S) /\ Len(<<e>> \o q) = 1 + Len(q) /\ (<<e>> \o q)[1] = e
  OBVIOUS

(* The fields of a frame. *)
LEMMA FrameFacts ==
    ASSUME NEW f \in Frames
    PROVE  /\ f.method \in Method /\ f.homes \in Homes /\ f.below \in Seq(Value)
           /\ f.result \in [slot : Nat, serial : Nat] /\ f.multicast \in {NoCast} \cup Cast
           /\ f.action \in {"none", "void", "value"} /\ FrameRight(f)
  BY DEF Frames, Frame

(* The order of its slots. *)
LEMMA FrameSlots ==
    ASSUME NEW f \in Frames
    PROVE  /\ f.arguments \in Nat /\ f.base \in Nat /\ f.height \in Nat /\ Ends(f) \in Nat
           /\ f.arguments <= f.base /\ f.base <= Ends(f) /\ Ends(f) = f.base + f.height
           /\ f.base = f.arguments + Args(f.method) + Locals(f.method)
           /\ Len(f.below) = f.arguments
<1>1. f \in Frame /\ FrameRight(f)
    BY DEF Frames
<1>2. f.method \in Method /\ f.arguments \in Nat /\ f.base \in Nat /\ f.height \in Nat
    BY <1>1 DEF Frame
<1>3. Args(f.method) \in Nat /\ Locals(f.method) \in Nat
    BY <1>2, Bounds
<1>4. QED
    BY SMTT(30), <1>1, <1>2, <1>3 DEF FrameRight, Ends

(* Values without content. *)
LEMMA PlainValues ==
    Null \in Value /\ Hole \in Value /\ This \in Value /\ \A s \in Serials : Byref(s, s) \in Value
  BY DEF Value

(* The two numbers of a byref. *)
LEMMA ByrefParts == \A n, b : Byref(n, b).serial = n /\ Byref(n, b).block = b
  BY DEF Byref

(* The homes of a frame: a block for every serial, with its number. *)
LEMMA HomesFacts ==
    ASSUME NEW h \in Homes
    PROVE  /\ DOMAIN h \subseteq Serials
           /\ h = [s \in DOMAIN h |-> h[s]]
           /\ \A s \in DOMAIN h : h[s] \in [block : Serials, value : Value] /\ h[s].block = s
<1>1. PICK D \in SUBSET Serials : h \in [D -> [block : Serials, value : Value]]
    BY DEF Homes
<1>2. QED
    BY <1>1 DEF Homes

(* Functions of that form are homes. *)
LEMMA HomesIntro ==
    ASSUME NEW D \in SUBSET Serials, NEW h \in [D -> [block : Serials, value : Value]],
           \A s \in D : h[s].block = s
    PROVE  h \in Homes
  BY DEF Homes

-----------------------------------------------------------------------------
(* What handlers do to frames and stack *)

(* Every frame lies within the stack. *)
LEMMA FramesInStack ==
    ASSUME NEW fs, NEW st, NEW se, StackInv(fs, st, se), NEW i \in 1..Len(fs)
    PROVE  /\ fs[i] \in Frames /\ fs[i].arguments \in Nat /\ Ends(fs[i]) \in Nat /\ Len(st) \in Nat
           /\ fs[i].arguments <= Ends(fs[i]) /\ Ends(fs[i]) <= Len(st)
<1>1. fs \in Seq(Frames) /\ st \in Seq(Value) /\ Meet(fs, st) /\ Ordered(fs)
    BY Zenon DEF StackInv
<1>2. Len(fs) \in Nat /\ Len(st) \in Nat /\ Len(fs) \in 1..Len(fs) /\ fs[i] \in Frames /\ fs[Len(fs)] \in Frames
    BY <1>1, ElementsOf
<1>3. Ends(fs[Len(fs)]) = Len(st)
    BY <1>1, <1>2 DEF Meet
<1>4. i < Len(fs) => Ends(fs[i]) <= fs[Len(fs)].arguments
    BY <1>1, <1>2 DEF Ordered
<1>5. /\ fs[i].arguments \in Nat /\ fs[i].base \in Nat /\ Ends(fs[i]) \in Nat
      /\ fs[i].arguments <= fs[i].base /\ fs[i].base <= Ends(fs[i])
    BY <1>2, FrameSlots
<1>6. /\ fs[Len(fs)].arguments \in Nat /\ fs[Len(fs)].base \in Nat
      /\ fs[Len(fs)].arguments <= fs[Len(fs)].base /\ fs[Len(fs)].base <= Ends(fs[Len(fs)])
    BY <1>2, FrameSlots
<1>7. QED
    BY SMTT(30), <1>2, <1>3, <1>4, <1>5, <1>6

(* The serials of a frame's homes were issued. *)
LEMMA SerialsIssued ==
    ASSUME NEW fs, NEW st, NEW se, StackInv(fs, st, se), NEW i \in 1..Len(fs),
           NEW s \in DOMAIN fs[i].homes
    PROVE  s \in Nat /\ s <= se
<1>1. fs[i].homes \in Homes
    BY FramesInStack, FrameFacts
<1>2. s \in Nat
  <2>1. s \in Serials
      BY Zenon, <1>1, HomesFacts
  <2>2. QED
      BY <2>1, Bounds DEF Serials
<1>3. HomesIssued(fs, se)
    BY Zenon DEF StackInv
<1>4. QED
    BY <1>2, <1>3 DEF HomesIssued

(* The slot r.slot of a result is an operand of the caller of frame i. *)
SlotRight(fs, st, i, r) ==
    /\ i > 1 /\ i - 1 \in 1..Len(fs) /\ r.slot = fs[i].arguments /\ st[r.slot] = Hole
    /\ r.slot \in 1..fs[i].arguments /\ r.slot > fs[i - 1].arguments

(* Where a result is awaited, its slot is there. *)
LEMMA SlotOfCaller ==
    ASSUME NEW fs, NEW st, NEW se, StackInv(fs, st, se), NEW i \in 1..Len(fs),
           NEW r, ReceiverRight(fs, st, i, r)
    PROVE  SlotRight(fs, st, i, r)
<1>1. i > 1 /\ fs[i - 1].height > 0 /\ r.slot = fs[i].arguments /\ st[r.slot] = Hole
    BY DEF ReceiverRight
<1>2. Ordered(fs) /\ fs \in Seq(Frames)
    BY Zenon DEF StackInv
<1>3. Len(fs) \in Nat /\ i - 1 \in 1..Len(fs)
    BY <1>1, <1>2, ElementsOf
<1>4. Ends(fs[i - 1]) <= fs[i].arguments
    BY <1>2, <1>3 DEF Ordered
<1>5. fs[i - 1] \in Frames /\ fs[i].arguments \in Nat
    BY <1>3, FramesInStack
<1>6. /\ fs[i - 1].arguments \in Nat /\ fs[i - 1].base \in Nat /\ fs[i - 1].height \in Nat
      /\ fs[i - 1].arguments <= fs[i - 1].base /\ Ends(fs[i - 1]) = fs[i - 1].base + fs[i - 1].height
    BY <1>5, FrameSlots
<1>7. QED
    BY SMTT(30), <1>1, <1>3, <1>4, <1>5, <1>6 DEF SlotRight

(* The top frame is replaced, with everything above its arguments; homes it
   gains have serials that were never issued. *)
Replaces(fs, st, se, g, st2, se2) ==
    /\ Len(fs) > 0
    /\ g.arguments = fs[Len(fs)].arguments /\ g.below = fs[Len(fs)].below
    /\ Ends(g) = Len(st2) /\ \A k \in 1..g.arguments : st2[k] = st[k]
    /\ se <= se2
    /\ \A s \in DOMAIN g.homes : s \in DOMAIN fs[Len(fs)].homes \/ s \in (se + 1)..se2
    /\ g.result # NoResult => ReceiverRight(fs, st, Len(fs), g.result)

(* Replacing the top frame so keeps the frames in order. *)
LEMMA TopReplaced ==
    ASSUME NEW fs, NEW st, NEW se, StackInv(fs, st, se),
           NEW g \in Frames, NEW st2 \in Seq(Value), NEW se2 \in 0..(MaxSerial + 1),
           Replaces(fs, st, se, g, st2, se2)
    PROVE  StackInv([fs EXCEPT ![Len(fs)] = g], st2, se2)
<1> DEFINE n == Len(fs)
           gs == [fs EXCEPT ![n] = g]
<1>1. fs \in Seq(Frames) /\ st \in Seq(Value) /\ se \in Nat /\ se2 \in Nat
    BY Bounds DEF StackInv
<1>2. n \in Nat /\ n > 0 /\ n = Len(fs)
    BY <1>1, ElementsOf DEF Replaces
<1>3. Meet(fs, st) /\ Ordered(fs) /\ BelowKept(fs, st)
    BY Zenon DEF StackInv
<1>4. HomesIssued(fs, se) /\ HomesApart(fs) /\ ReceiversRight(fs, st)
    BY Zenon DEF StackInv
<1>5. gs \in Seq(Frames) /\ Len(gs) = n /\ gs[n] = g /\ \A i \in 1..(n - 1) : gs[i] = fs[i]
    BY <1>1, <1>2, LastReplaced
<1>6. gs = [fs EXCEPT ![Len(fs)] = g]
    OBVIOUS
<1> HIDE DEF gs, n
<1>8. \A i \in 1..n : gs[i].arguments = fs[i].arguments /\ gs[i].below = fs[i].below
    BY <1>2, <1>5 DEF Replaces
<1>9. \A i \in 1..n : fs[i].arguments \in Nat /\ fs[i].arguments <= g.arguments
  <2> SUFFICES ASSUME NEW i \in 1..n PROVE fs[i].arguments \in Nat /\ fs[i].arguments <= g.arguments
      OBVIOUS
  <2>1. fs[i].arguments \in Nat /\ Ends(fs[i]) \in Nat /\ fs[i].arguments <= Ends(fs[i])
      BY <1>2, FramesInStack
  <2>2. i < n => Ends(fs[i]) <= fs[n].arguments
      BY <1>2, <1>3 DEF Ordered
  <2>3. g.arguments = fs[n].arguments /\ g.arguments \in Nat
      BY <1>2, FrameSlots DEF Replaces
  <2>4. QED
      BY <2>1, <2>2, <2>3, <1>2
<1>10. \A i \in 1..n : Ends(gs[i]) = IF i = n THEN Len(st2) ELSE gs[i + 1].arguments
  <2>1. Ends(g) = Len(st2)
      BY DEF Replaces
  <2> SUFFICES ASSUME NEW i \in 1..n, i # n PROVE Ends(gs[i]) = gs[i + 1].arguments
      BY <1>5, <2>1
  <2>2. Ends(fs[i]) = fs[i + 1].arguments
      BY <1>2, <1>3 DEF Meet
  <2>3. i \in 1..(n - 1) /\ i + 1 \in 1..n
      BY <1>2
  <2>4. QED
      BY <1>5, <1>8, <2>2, <2>3
<1>11. \A i, j \in 1..n : i < j => Ends(gs[i]) <= gs[j].arguments
  <2> SUFFICES ASSUME NEW i \in 1..n, NEW j \in 1..n, i < j PROVE Ends(gs[i]) <= gs[j].arguments
      OBVIOUS
  <2>1. Ends(fs[i]) <= fs[j].arguments
      BY <1>2, <1>3 DEF Ordered
  <2>2. gs[i] = fs[i]
      BY <1>2, <1>5
  <2>3. QED
      BY <1>8, <2>1, <2>2
<1>12. \A i \in 1..n : \A k \in 1..gs[i].arguments : st2[k] = gs[i].below[k]
  <2> SUFFICES ASSUME NEW i \in 1..n, NEW k \in 1..fs[i].arguments PROVE st2[k] = fs[i].below[k]
      BY <1>8
  <2>1. st[k] = fs[i].below[k]
      BY <1>2, <1>3 DEF BelowKept
  <2>2. k \in 1..g.arguments
      BY <1>9, FrameSlots
  <2>3. QED
      BY <2>1, <2>2 DEF Replaces
<1>13. \A i \in 1..n : \A s \in DOMAIN fs[i].homes : s \in Nat /\ s <= se
    BY <1>2, SerialsIssued
<1>14. \A s \in DOMAIN g.homes : s \in DOMAIN fs[n].homes \/ s \in (se + 1)..se2
    BY <1>2 DEF Replaces
<1>15. se <= se2
    BY DEF Replaces
<1>16. \A i \in 1..n : \A s \in DOMAIN gs[i].homes : s <= se2
  <2> SUFFICES ASSUME NEW i \in 1..n, NEW s \in DOMAIN gs[i].homes PROVE s <= se2
      OBVIOUS
  <2>1. CASE i = n
    <3>1. s \in DOMAIN fs[n].homes \/ s \in (se + 1)..se2
        BY Zenon, <1>5, <1>14, <2>1
    <3>2. s \in DOMAIN fs[n].homes => s \in Nat /\ s <= se
        BY Zenon, <1>13, <2>1
    <3>3. QED
        BY <1>1, <1>15, <3>1, <3>2
  <2>2. CASE i # n
    <3>1. i \in 1..(n - 1)
        BY <1>2, <2>2
    <3>2. s \in Nat /\ s <= se
        BY Zenon, <1>5, <1>13, <3>1
    <3>3. QED
        BY <1>1, <1>15, <3>2
  <2>3. QED
      BY Zenon, <2>1, <2>2
<1>17. \A i, j \in 1..n : i # j => DOMAIN gs[i].homes \cap DOMAIN gs[j].homes = {}
  <2>1. \A i, j \in 1..n : i # j => DOMAIN fs[i].homes \cap DOMAIN fs[j].homes = {}
      BY <1>2, <1>4 DEF HomesApart
  <2>2. \A i \in 1..(n - 1) : DOMAIN fs[i].homes \cap DOMAIN g.homes = {}
    <3> SUFFICES ASSUME NEW i \in 1..(n - 1), NEW s \in DOMAIN fs[i].homes, s \in DOMAIN g.homes PROVE FALSE
        OBVIOUS
    <3>1. i \in 1..n /\ n \in 1..n /\ i # n
        BY <1>2
    <3>2. s \in Nat /\ s <= se /\ s \notin DOMAIN fs[n].homes
        BY <3>1, <2>1, <1>13
    <3>3. QED
        BY SMTT(30), <3>2, <1>1, <1>14
  <2>3. QED
      BY SMTT(30), <1>2, <1>5, <2>1, <2>2
<1>18. \A i \in 1..n : gs[i].result # NoResult => ReceiverRight(gs, st2, i, gs[i].result)
  <2> SUFFICES ASSUME NEW i \in 1..n, NEW r, r = gs[i].result, r # NoResult
               PROVE  ReceiverRight(gs, st2, i, r)
      OBVIOUS
  <2>1. ReceiverRight(fs, st, i, r)
    <3>1. CASE i = n
        BY <1>2, <1>5, <3>1 DEF Replaces
    <3>2. CASE i # n
        BY <1>2, <1>4, <1>5, <3>2 DEF ReceiversRight
    <3>3. QED
        BY <3>1, <3>2
  <2>2. i > 1 /\ r.slot = fs[i].arguments /\ r.slot \in 1..fs[i].arguments /\ st[r.slot] = Hole
    <3>1. i \in 1..Len(fs)
        BY <1>2
    <3>2. SlotRight(fs, st, i, r)
        BY Zenon, <2>1, <3>1, SlotOfCaller
    <3>3. QED
        BY Zenon, <3>2 DEF SlotRight
  <2>3. gs[i - 1] = fs[i - 1]
      BY <1>2, <1>5, <2>2
  <2>4. r.slot \in 1..g.arguments
      BY <1>9, <2>2, FrameSlots
  <2>5. st2[r.slot] = Hole
      BY <2>2, <2>4 DEF Replaces
  <2>6. QED
      BY Zenon, <1>8, <2>1, <2>2, <2>3, <2>5 DEF ReceiverRight
<1>19. StackInv(gs, st2, se2)
    BY Zenon, <1>5, <1>10, <1>11, <1>12, <1>16, <1>17, <1>18
       DEF StackInv, Meet, Ordered, BelowKept, HomesIssued, HomesApart, ReceiversRight
<1>20. QED
    BY <1>6, <1>19

(* A frame is put on top: its arguments begin where the stack ended. *)
Pushes(fs, st, se, g, st2, se2) ==
    /\ g.arguments = Len(st) /\ g.below = st
    /\ Ends(g) = Len(st2) /\ \A k \in 1..Len(st) : st2[k] = st[k]
    /\ se <= se2 /\ \A s \in DOMAIN g.homes : s \in (se + 1)..se2
    /\ g.result = NoResult

(* Putting a frame on top so keeps the frames in order. *)
LEMMA FramePushed ==
    ASSUME NEW fs, NEW st, NEW se, StackInv(fs, st, se),
           NEW g \in Frames, NEW st2 \in Seq(Value), NEW se2 \in 0..(MaxSerial + 1),
           Pushes(fs, st, se, g, st2, se2)
    PROVE  StackInv(Append(fs, g), st2, se2)
<1> DEFINE n == Len(fs)
           gs == Append(fs, g)
<1>1. fs \in Seq(Frames) /\ st \in Seq(Value) /\ se \in Nat /\ se2 \in Nat
    BY Bounds DEF StackInv
<1>2. n \in Nat /\ n = Len(fs) /\ Len(st) \in Nat
    BY <1>1, ElementsOf
<1>3. Meet(fs, st) /\ Ordered(fs) /\ BelowKept(fs, st)
    BY Zenon DEF StackInv
<1>4. HomesIssued(fs, se) /\ HomesApart(fs) /\ ReceiversRight(fs, st)
    BY Zenon DEF StackInv
<1>5. gs \in Seq(Frames) /\ Len(gs) = n + 1 /\ gs[n + 1] = g /\ \A i \in 1..n : gs[i] = fs[i]
    BY <1>1, <1>2
<1>6. gs = Append(fs, g)
    OBVIOUS
<1> HIDE DEF gs, n
<1>8. g.arguments = Len(st) /\ g.below = st /\ Ends(g) = Len(st2) /\ \A k \in 1..Len(st) : st2[k] = st[k]
    BY DEF Pushes
<1>10. \A i \in 1..n : Ends(fs[i]) \in Nat /\ fs[i].arguments \in Nat
                       /\ fs[i].arguments <= Ends(fs[i]) /\ Ends(fs[i]) <= Len(st)
    BY <1>2, FramesInStack
<1>11. \A i \in 1..(n + 1) : Ends(gs[i]) = IF i = n + 1 THEN Len(st2) ELSE gs[i + 1].arguments
  <2>1. ASSUME NEW i \in 1..n PROVE Ends(fs[i]) = gs[i + 1].arguments
    <3>1. Ends(fs[i]) = IF i = n THEN Len(st) ELSE fs[i + 1].arguments
        BY <1>2, <1>3 DEF Meet
    <3>2. CASE i = n
        BY <1>5, <1>8, <3>1, <3>2
    <3>3. CASE i # n
        BY <1>2, <1>5, <3>1, <3>3
    <3>4. QED
        BY <3>2, <3>3
  <2>2. ASSUME NEW i \in 1..(n + 1)
        PROVE  Ends(gs[i]) = IF i = n + 1 THEN Len(st2) ELSE gs[i + 1].arguments
    <3>1. CASE i = n + 1
        BY Zenon, <1>5, <1>8, <3>1
    <3>2. CASE i # n + 1
      <4>1. i \in 1..n
          BY <1>2, <3>2
      <4>2. QED
          BY Zenon, <1>5, <2>1, <3>2, <4>1
    <3>3. QED
        BY Zenon, <3>1, <3>2
  <2>3. QED
      BY Zenon, <2>2
<1>12. \A i, j \in 1..(n + 1) : i < j => Ends(gs[i]) <= gs[j].arguments
  <2> SUFFICES ASSUME NEW i \in 1..n, NEW j \in 1..(n + 1), i < j PROVE Ends(fs[i]) <= gs[j].arguments
      BY <1>2, <1>5
  <2>1. CASE j = n + 1
      BY <1>5, <1>8, <1>10, <2>1
  <2>2. CASE j # n + 1
    <3>1. j \in 1..n
        BY <1>2, <2>2
    <3>2. gs[j] = fs[j]
        BY Zenon, <1>5, <3>1
    <3>3. QED
        BY Zenon, <1>2, <1>3, <3>1, <3>2 DEF Ordered
  <2>3. QED
      BY <2>1, <2>2
<1>13. \A i \in 1..(n + 1) : \A k \in 1..gs[i].arguments : st2[k] = gs[i].below[k]
  <2>1. \A i \in 1..n : \A k \in 1..fs[i].arguments : st2[k] = fs[i].below[k]
    <3> SUFFICES ASSUME NEW i \in 1..n, NEW k \in 1..fs[i].arguments PROVE st2[k] = fs[i].below[k]
        OBVIOUS
    <3>1. st[k] = fs[i].below[k]
        BY <1>2, <1>3 DEF BelowKept
    <3>2. k \in 1..Len(st)
        BY <1>2, <1>10
    <3>3. QED
        BY <1>8, <3>1, <3>2
  <2>2. QED
      BY SMTT(30), <1>2, <1>5, <1>8, <2>1
<1>14. \A i \in 1..n : \A s \in DOMAIN fs[i].homes : s \in Nat /\ s <= se
    BY <1>2, SerialsIssued
<1>15. se <= se2 /\ \A s \in DOMAIN g.homes : s \in (se + 1)..se2
    BY DEF Pushes
<1>16. \A i \in 1..(n + 1) : \A s \in DOMAIN gs[i].homes : s <= se2
    BY SMTT(30), <1>1, <1>2, <1>5, <1>14, <1>15
<1>17. \A i, j \in 1..(n + 1) : i # j => DOMAIN gs[i].homes \cap DOMAIN gs[j].homes = {}
  <2>1. \A i, j \in 1..n : i # j => DOMAIN fs[i].homes \cap DOMAIN fs[j].homes = {}
      BY <1>2, <1>4 DEF HomesApart
  <2>2. \A i \in 1..n : DOMAIN fs[i].homes \cap DOMAIN g.homes = {}
      BY <1>1, <1>14, <1>15
  <2>3. QED
      BY <1>2, <1>5, <2>1, <2>2
<1>18. \A i \in 1..(n + 1) : gs[i].result # NoResult => ReceiverRight(gs, st2, i, gs[i].result)
  <2>1. g.result = NoResult
      BY DEF Pushes
  <2> SUFFICES ASSUME NEW i \in 1..n, NEW r, r = fs[i].result, r # NoResult
               PROVE  ReceiverRight(gs, st2, i, r)
      BY <1>2, <1>5, <2>1
  <2>2. ReceiverRight(fs, st, i, r)
      BY <1>2, <1>4 DEF ReceiversRight
  <2>3. i > 1 /\ r.slot = fs[i].arguments /\ r.slot \in 1..fs[i].arguments /\ st[r.slot] = Hole
    <3>1. i \in 1..Len(fs)
        BY <1>2
    <3>2. SlotRight(fs, st, i, r)
        BY Zenon, <2>2, <3>1, SlotOfCaller
    <3>3. QED
        BY Zenon, <3>2 DEF SlotRight
  <2>4. gs[i - 1] = fs[i - 1] /\ gs[i] = fs[i]
      BY <1>2, <1>5, <2>3
  <2>5. r.slot \in 1..Len(st)
      BY <1>2, <1>10, <2>3
  <2>6. QED
      BY Zenon, <1>8, <2>2, <2>3, <2>4, <2>5 DEF ReceiverRight
<1>19. StackInv(gs, st2, se2)
    BY Zenon, <1>5, <1>11, <1>12, <1>13, <1>16, <1>17, <1>18
       DEF StackInv, Meet, Ordered, BelowKept, HomesIssued, HomesApart, ReceiversRight
<1>20. QED
    BY <1>6, <1>19

(* The top frame goes, and with it every slot from its arguments on. *)
LEMMA FramePopped ==
    ASSUME NEW fs, NEW st, NEW se, StackInv(fs, st, se), Len(fs) > 0
    PROVE  StackInv(SubSeq(fs, 1, Len(fs) - 1), SubSeq(st, 1, fs[Len(fs)].arguments), se)
<1> DEFINE n == Len(fs)
           a == fs[n].arguments
           gs == SubSeq(fs, 1, n - 1)
           st2 == SubSeq(st, 1, a)
<1>1. fs \in Seq(Frames) /\ st \in Seq(Value) /\ se \in 0..(MaxSerial + 1)
    BY DEF StackInv
<1>2. n \in Nat /\ n > 0 /\ n = Len(fs) /\ Len(st) \in Nat
    BY <1>1, ElementsOf
<1>3. Meet(fs, st) /\ Ordered(fs) /\ BelowKept(fs, st)
    BY Zenon DEF StackInv
<1>4. HomesIssued(fs, se) /\ HomesApart(fs) /\ ReceiversRight(fs, st)
    BY Zenon DEF StackInv
<1>6. a \in Nat /\ a <= Len(st) /\ a = fs[n].arguments
    BY <1>2, FramesInStack
<1>5. n - 1 \in 0..Len(fs) /\ a \in 0..Len(st)
    BY <1>2, <1>6
<1>7. gs \in Seq(Frames) /\ Len(gs) = n - 1 /\ \A i \in 1..(n - 1) : gs[i] = fs[i]
    BY Zenon, <1>1, <1>5, Prefix
<1>8. st2 \in Seq(Value) /\ Len(st2) = a /\ \A k \in 1..a : st2[k] = st[k]
    BY <1>1, <1>5, Prefix
<1>9. gs = SubSeq(fs, 1, Len(fs) - 1) /\ st2 = SubSeq(st, 1, fs[Len(fs)].arguments)
    OBVIOUS
<1> HIDE DEF gs, n, a, st2
<1>10. \A i \in 1..(n - 1) : Ends(fs[i]) <= a /\ Ends(fs[i]) \in Nat
                             /\ fs[i].arguments \in Nat /\ fs[i].arguments <= Ends(fs[i])
  <2> SUFFICES ASSUME NEW i \in 1..(n - 1)
               PROVE  Ends(fs[i]) <= a /\ Ends(fs[i]) \in Nat
                      /\ fs[i].arguments \in Nat /\ fs[i].arguments <= Ends(fs[i])
      OBVIOUS
  <2>1. Ends(fs[i]) <= fs[n].arguments
      BY <1>2, <1>3 DEF Ordered
  <2>2. i \in 1..Len(fs)
      BY <1>2
  <2>3. QED
      BY <1>6, <2>1, <2>2, FramesInStack
<1>11. \A i \in 1..(n - 1) : Ends(gs[i]) = IF i = n - 1 THEN Len(st2) ELSE gs[i + 1].arguments
  <2> SUFFICES ASSUME NEW i \in 1..(n - 1) PROVE Ends(fs[i]) = IF i = n - 1 THEN a ELSE gs[i + 1].arguments
      BY <1>7, <1>8
  <2>1. Ends(fs[i]) = fs[i + 1].arguments
      BY <1>2, <1>3 DEF Meet
  <2>2. QED
      BY <1>2, <1>6, <1>7, <2>1
<1>12. \A i, j \in 1..(n - 1) : i < j => Ends(gs[i]) <= gs[j].arguments
    BY SMTT(30), <1>2, <1>3, <1>7 DEF Ordered
<1>13. \A i \in 1..(n - 1) : \A k \in 1..gs[i].arguments : st2[k] = gs[i].below[k]
  <2> SUFFICES ASSUME NEW i \in 1..(n - 1), NEW k \in 1..fs[i].arguments PROVE st2[k] = fs[i].below[k]
      BY <1>7
  <2>1. st[k] = fs[i].below[k]
      BY <1>2, <1>3 DEF BelowKept
  <2>2. k \in 1..a
      BY <1>6, <1>10
  <2>3. QED
      BY <1>8, <2>1, <2>2
<1>14. \A i \in 1..(n - 1) : \A s \in DOMAIN gs[i].homes : s <= se
    BY <1>2, <1>4, <1>7 DEF HomesIssued
<1>15. \A i, j \in 1..(n - 1) : i # j => DOMAIN gs[i].homes \cap DOMAIN gs[j].homes = {}
    BY SMTT(30), <1>2, <1>4, <1>7 DEF HomesApart
<1>16. \A i \in 1..(n - 1) : gs[i].result # NoResult => ReceiverRight(gs, st2, i, gs[i].result)
  <2> SUFFICES ASSUME NEW i \in 1..(n - 1), NEW r, r = fs[i].result, r # NoResult
               PROVE  ReceiverRight(gs, st2, i, r)
      BY <1>7
  <2>1. ReceiverRight(fs, st, i, r)
      BY <1>2, <1>4 DEF ReceiversRight
  <2>2. i > 1 /\ r.slot = fs[i].arguments /\ r.slot \in 1..fs[i].arguments /\ st[r.slot] = Hole
    <3>1. i \in 1..Len(fs)
        BY <1>2
    <3>2. SlotRight(fs, st, i, r)
        BY Zenon, <2>1, <3>1, SlotOfCaller
    <3>3. QED
        BY Zenon, <3>2 DEF SlotRight
  <2>3. gs[i - 1] = fs[i - 1] /\ gs[i] = fs[i]
      BY SMTT(30), <1>2, <1>7, <2>2
  <2>4. r.slot \in 1..a
      BY <1>6, <1>10, <2>2
  <2>5. QED
      BY Zenon, <1>8, <2>1, <2>2, <2>3, <2>4 DEF ReceiverRight
<1>17. StackInv(gs, st2, se)
    BY Zenon, <1>1, <1>7, <1>8, <1>11, <1>12, <1>13, <1>14, <1>15, <1>16
       DEF StackInv, Meet, Ordered, BelowKept, HomesIssued, HomesApart, ReceiversRight
<1>18. QED
    BY <1>9, <1>17

(* A store through a byref changes the content of one home. *)
LEMMA HomeStored ==
    ASSUME NEW fs, NEW st, NEW se, StackInv(fs, st, se), NEW o \in 1..Len(fs),
           NEW s \in DOMAIN fs[o].homes, NEW v \in Constants
    PROVE  StackInv([fs EXCEPT ![o].homes[s].value = v], st, se)
<1> DEFINE n == Len(fs)
           h == [fs[o].homes EXCEPT ![s].value = v]
           f == [fs[o] EXCEPT !.homes = h]
           gs == [fs EXCEPT ![o] = f]
<1>1. fs \in Seq(Frames) /\ st \in Seq(Value) /\ se \in 0..(MaxSerial + 1)
    BY DEF StackInv
<1>2. n \in Nat /\ n = Len(fs) /\ fs[o] \in Frames
    BY <1>1, ElementsOf
<1>3. Meet(fs, st) /\ Ordered(fs) /\ BelowKept(fs, st)
    BY Zenon DEF StackInv
<1>4. HomesIssued(fs, se) /\ HomesApart(fs) /\ ReceiversRight(fs, st)
    BY Zenon DEF StackInv
<1>5. /\ h \in Homes /\ DOMAIN h = DOMAIN fs[o].homes /\ h[s].value = v
      /\ \A x \in DOMAIN h : x # s => h[x] = fs[o].homes[x]
  <2> DEFINE old == fs[o].homes
  <2>1. old \in Homes
      BY <1>2, FrameFacts
  <2> HIDE DEF old
  <2>2. /\ DOMAIN old \subseteq Serials /\ old = [x \in DOMAIN old |-> old[x]]
        /\ \A x \in DOMAIN old : old[x] \in [block : Serials, value : Value] /\ old[x].block = x
      BY <2>1, HomesFacts
  <2>3. v \in Value
      BY DEF Value
  <2>4. s \in DOMAIN old
      BY DEF old
  <2> DEFINE new == [old EXCEPT ![s].value = v]
  <2>5. /\ DOMAIN new = DOMAIN old /\ new[s] = [old[s] EXCEPT !.value = v]
        /\ \A x \in DOMAIN old : x # s => new[x] = old[x]
      BY <2>2, <2>4
  <2>6. new = [x \in DOMAIN old |-> new[x]]
      BY <2>2, <2>4
  <2> HIDE DEF new
  <2>7. new[s] \in [block : Serials, value : Value] /\ new[s].block = s /\ new[s].value = v
      BY <2>2, <2>3, <2>4, <2>5
  <2>8. \A x \in DOMAIN old : new[x] \in [block : Serials, value : Value] /\ new[x].block = x
      BY <2>2, <2>5, <2>7
  <2>9. new \in [DOMAIN old -> [block : Serials, value : Value]]
      BY <2>6, <2>8
  <2>10. new \in Homes
      BY Zenon, <2>2, <2>8, <2>9, HomesIntro
  <2>11. h = new
      BY DEF new, old
  <2>12. QED
      BY Zenon, <2>5, <2>7, <2>10, <2>11 DEF old
<1> HIDE DEF h
<1>6. /\ f \in Frames /\ f.homes = h /\ f.arguments = fs[o].arguments /\ f.base = fs[o].base
      /\ f.height = fs[o].height /\ f.below = fs[o].below /\ f.result = fs[o].result
  <2>1. fs[o] \in Frame /\ FrameRight(fs[o])
      BY <1>2 DEF Frames
  <2>2. /\ f \in Frame /\ f.homes = h /\ f.arguments = fs[o].arguments /\ f.base = fs[o].base
        /\ f.height = fs[o].height /\ f.below = fs[o].below /\ f.result = fs[o].result
        /\ f.method = fs[o].method /\ f.multicast = fs[o].multicast
      BY Zenon, <1>5, <2>1 DEF Frame
  <2>3. FrameRight(f)
      BY <1>5, <2>1, <2>2 DEF FrameRight
  <2>4. QED
      BY <2>2, <2>3 DEF Frames
<1> HIDE DEF f
<1>7. gs \in Seq(Frames) /\ Len(gs) = n /\ gs[o] = f /\ \A i \in 1..n : i # o => gs[i] = fs[i]
    BY <1>1, <1>2, <1>6
<1>8. gs = [fs EXCEPT ![o].homes[s].value = v]
    BY DEF f, h
<1> HIDE DEF gs, n
<1>9. \A i \in 1..n : /\ gs[i].arguments = fs[i].arguments /\ gs[i].below = fs[i].below
                      /\ gs[i].height = fs[i].height /\ gs[i].base = fs[i].base
                      /\ gs[i].result = fs[i].result /\ DOMAIN gs[i].homes = DOMAIN fs[i].homes
    BY Zenon, <1>2, <1>5, <1>6, <1>7
<1>10. \A i \in 1..n : Ends(gs[i]) = Ends(fs[i])
    BY <1>9 DEF Ends
<1>11. \A i \in 1..n : \A x \in DOMAIN fs[i].homes :
           fs[i].homes[x].value \in Content => gs[i].homes[x].value \in Content
  <2> SUFFICES ASSUME NEW i \in 1..n, NEW x \in DOMAIN fs[i].homes, fs[i].homes[x].value \in Content
               PROVE  gs[i].homes[x].value \in Content
      BY Zenon
  <2>1. CASE i # o
      BY <1>7, <2>1
  <2>2. CASE i = o /\ x # s
      BY Zenon, <1>5, <1>6, <1>7, <2>2
  <2>3. CASE i = o /\ x = s
      BY Zenon, <1>5, <1>6, <1>7, <2>3 DEF Content
  <2>4. QED
      BY <2>1, <2>2, <2>3
<1>12. Meet(gs, st)
    BY <1>2, <1>3, <1>7, <1>9, <1>10 DEF Meet
<1>13. Ordered(gs) /\ BelowKept(gs, st)
    BY <1>2, <1>3, <1>7, <1>9, <1>10 DEF Ordered, BelowKept
<1>14. HomesIssued(gs, se) /\ HomesApart(gs)
  <2>1. HomesIssued(gs, se)
      BY <1>2, <1>4, <1>7, <1>9 DEF HomesIssued
  <2>2. HomesApart(gs)
      BY <1>2, <1>4, <1>7, <1>9 DEF HomesApart
  <2>3. QED
      BY Zenon, <2>1, <2>2
<1>15. ReceiversRight(gs, st)
  <2> SUFFICES ASSUME NEW i \in 1..n, NEW r, r = fs[i].result, r # NoResult
               PROVE  ReceiverRight(gs, st, i, r)
      BY Zenon, <1>7, <1>9 DEF ReceiversRight
  <2>1. ReceiverRight(fs, st, i, r)
      BY <1>2, <1>4 DEF ReceiversRight
  <2>2. i > 1 /\ i - 1 \in 1..n
      BY <1>2, <2>1 DEF ReceiverRight
  <2>3. QED
      BY Zenon, <1>9, <1>11, <2>1, <2>2 DEF ReceiverRight
<1>16. QED
    BY Zenon, <1>1, <1>7, <1>8, <1>12, <1>13, <1>14, <1>15 DEF StackInv

-----------------------------------------------------------------------------
(* Frames that differ in one field *)

(* g has the place, the homes and the duties of f. *)
Kin(f, g) ==
    /\ g.method = f.method /\ g.arguments = f.arguments /\ g.base = f.base /\ g.below = f.below
    /\ g.homes = f.homes /\ g.result = f.result
Like(f, g) == Kin(f, g) /\ g.height = f.height

(* Operands are counted. *)
LEMMA HeightSet ==
    ASSUME NEW f \in Frames, NEW h \in Nat
    PROVE  /\ [f EXCEPT !.height = h] \in Frames /\ Kin(f, [f EXCEPT !.height = h])
           /\ [f EXCEPT !.height = h].height = h
           /\ [f EXCEPT !.height = h].multicast = f.multicast
           /\ [f EXCEPT !.height = h].action = f.action
<1> DEFINE g == [f EXCEPT !.height = h]
<1>1. f \in Frame /\ FrameRight(f)
    BY DEF Frames
<1>2. /\ g \in Frame /\ Kin(f, g) /\ g.height = h /\ g.multicast = f.multicast /\ g.action = f.action
    BY Zenon, <1>1 DEF Frame, Kin
<1> HIDE DEF g
<1>3. FrameRight(g)
    BY Zenon, <1>1, <1>2 DEF FrameRight, Kin
<1>4. g \in Frames
    BY <1>2, <1>3 DEF Frames
<1>5. QED
    BY <1>2, <1>4 DEF g

(* The instruction is read or left. *)
LEMMA AtSet ==
    ASSUME NEW f \in Frames, NEW a \in Instructions, NEW w \in Int
    PROVE  /\ [f EXCEPT !.at = a, !.want = w] \in Frames
           /\ Like(f, [f EXCEPT !.at = a, !.want = w])
           /\ [f EXCEPT !.at = a, !.want = w].multicast = f.multicast
           /\ [f EXCEPT !.at = a, !.want = w].action = f.action
           /\ [f EXCEPT !.at = a] \in Frames /\ Like(f, [f EXCEPT !.at = a])
<1> DEFINE g == [f EXCEPT !.at = a, !.want = w]
           e == [f EXCEPT !.at = a]
<1>1. f \in Frame /\ FrameRight(f)
    BY DEF Frames
<1>2. g \in Frame /\ Like(f, g) /\ g.multicast = f.multicast /\ g.action = f.action
    BY Zenon, <1>1 DEF Frame, Kin, Like
<1>3. e \in Frame /\ Like(f, e) /\ e.multicast = f.multicast
    BY Zenon, <1>1 DEF Frame, Kin, Like
<1> HIDE DEF g, e
<1>4. FrameRight(g) /\ FrameRight(e)
    BY Zenon, <1>1, <1>2, <1>3 DEF FrameRight, Kin, Like
<1>5. g \in Frames /\ e \in Frames
    BY <1>2, <1>3, <1>4 DEF Frames
<1>6. QED
    BY <1>2, <1>3, <1>5 DEF g, e

(* A multicast notes the target it runs and what one returned. *)
LEMMA CastNoted ==
    ASSUME NEW f \in Frames, NEW m \in Method, NEW v \in Value
    PROVE  /\ [f EXCEPT !.invoked = Append(@, m)] \in Frames
           /\ Like(f, [f EXCEPT !.invoked = Append(@, m)])
           /\ [f EXCEPT !.last = v] \in Frames /\ Like(f, [f EXCEPT !.last = v])
<1> DEFINE g == [f EXCEPT !.invoked = Append(@, m)]
           e == [f EXCEPT !.last = v]
<1>1. f \in Frame /\ FrameRight(f)
    BY DEF Frames
<1>2. Append(f.invoked, m) \in Seq(Method)
    BY <1>1 DEF Frame
<1>3. g \in Frame /\ Like(f, g) /\ g.multicast = f.multicast
    BY Zenon, <1>1, <1>2 DEF Frame, Kin, Like
<1>4. e \in Frame /\ Like(f, e) /\ e.multicast = f.multicast
    BY Zenon, <1>1 DEF Frame, Kin, Like
<1> HIDE DEF g, e
<1>5. FrameRight(g) /\ FrameRight(e)
    BY Zenon, <1>1, <1>3, <1>4 DEF FrameRight, Kin, Like
<1>6. g \in Frames /\ e \in Frames
    BY <1>3, <1>4, <1>5 DEF Frames
<1>7. QED
    BY <1>3, <1>4, <1>6 DEF g, e

(* A conversion is left with the frame or taken from it; a finalizer is marked. *)
LEMMA DutySet ==
    ASSUME NEW f \in Frames, NEW a \in {"none", "void", "value"}, NEW b \in BOOLEAN
    PROVE  /\ [f EXCEPT !.action = a] \in Frames /\ Like(f, [f EXCEPT !.action = a])
           /\ [f EXCEPT !.action = a].action = a
           /\ [f EXCEPT !.finalizer = TRUE, !.searched = b] \in Frames
           /\ Like(f, [f EXCEPT !.finalizer = TRUE, !.searched = b])
<1> DEFINE g == [f EXCEPT !.action = a]
           e == [f EXCEPT !.finalizer = TRUE, !.searched = b]
<1>1. f \in Frame /\ FrameRight(f)
    BY DEF Frames
<1>2. g \in Frame /\ Like(f, g) /\ g.multicast = f.multicast /\ g.action = a
    BY Zenon, <1>1 DEF Frame, Kin, Like
<1>3. e \in Frame /\ Like(f, e) /\ e.multicast = f.multicast
    BY Zenon, <1>1 DEF Frame, Kin, Like
<1> HIDE DEF g, e
<1>4. FrameRight(g) /\ FrameRight(e)
    BY Zenon, <1>1, <1>2, <1>3 DEF FrameRight, Kin, Like
<1>5. g \in Frames /\ e \in Frames
    BY <1>2, <1>3, <1>4 DEF Frames
<1>6. QED
    BY <1>2, <1>3, <1>5 DEF g, e

(* The targets a multicast has before it. *)
LEMMA CastSet ==
    ASSUME NEW f \in Frames, f.method = Invoke, NEW c \in Cast
    PROVE  /\ [f EXCEPT !.multicast = c] \in Frames /\ Like(f, [f EXCEPT !.multicast = c])
           /\ [f EXCEPT !.multicast = c].multicast = c
<1> DEFINE g == [f EXCEPT !.multicast = c]
<1>1. f \in Frame /\ FrameRight(f)
    BY DEF Frames
<1>2. g \in Frame /\ Like(f, g) /\ g.multicast = c
    BY Zenon, <1>1 DEF Frame, Kin, Like
<1> HIDE DEF g
<1>3. FrameRight(g)
    BY <1>1, <1>2 DEF FrameRight, Kin, Like
<1>4. g \in Frames
    BY <1>2, <1>3 DEF Frames
<1>5. QED
    BY <1>2, <1>4 DEF g

(* Where a constructor's result is to go. *)
LEMMA ResultSet ==
    ASSUME NEW f \in Frames, NEW r \in [slot : Nat, serial : Nat]
    PROVE  /\ [f EXCEPT !.result = r] \in Frames /\ [f EXCEPT !.result = r].result = r
           /\ [f EXCEPT !.result = r].arguments = f.arguments
           /\ [f EXCEPT !.result = r].below = f.below
           /\ [f EXCEPT !.result = r].homes = f.homes
           /\ Ends([f EXCEPT !.result = r]) = Ends(f)
<1> DEFINE g == [f EXCEPT !.result = r]
<1>1. f \in Frame /\ FrameRight(f)
    BY DEF Frames
<1>2. /\ g \in Frame /\ g.result = r /\ g.method = f.method /\ g.arguments = f.arguments
      /\ g.base = f.base /\ g.below = f.below /\ g.homes = f.homes /\ g.height = f.height
      /\ g.multicast = f.multicast
    BY Zenon, <1>1 DEF Frame
<1> HIDE DEF g
<1>3. FrameRight(g)
    BY <1>1, <1>2 DEF FrameRight
<1>4. g \in Frames
    BY <1>2, <1>3 DEF Frames
<1>5. QED
    BY <1>2, <1>4 DEF g, Ends

(* A home is added to a frame, above those it has. *)
LEMMA HomeAdded ==
    ASSUME NEW f \in Frames, NEW s \in Serials, NEW v \in Value,
           \A x \in DOMAIN f.homes : x < s
    PROVE  LET g == [f EXCEPT !.homes = Install(@, s, s, v)]
           IN  /\ g \in Frames /\ g.method = f.method /\ g.arguments = f.arguments
               /\ g.base = f.base /\ g.below = f.below /\ g.result = f.result
               /\ g.height = f.height /\ DOMAIN g.homes = DOMAIN f.homes \cup {s}
               /\ g.homes[s].value = v
<1> DEFINE h == Install(f.homes, s, s, v)
           g == [f EXCEPT !.homes = h]
<1>1. f \in Frame /\ FrameRight(f)
    BY DEF Frames
<1>2. /\ DOMAIN f.homes \subseteq Serials
      /\ \A x \in DOMAIN f.homes : f.homes[x] \in [block : Serials, value : Value] /\ f.homes[x].block = x
    BY FrameFacts, HomesFacts
<1>3. /\ DOMAIN h = DOMAIN f.homes \cup {s} /\ h[s] = [block |-> s, value |-> v]
      /\ h = [x \in DOMAIN h |-> h[x]] /\ \A x \in DOMAIN f.homes : x # s => h[x] = f.homes[x]
    BY Zenon DEF Install
<1> HIDE DEF h
<1>4. h[s] \in [block : Serials, value : Value] /\ h[s].block = s /\ h[s].value = v
    BY <1>3
<1>5. \A x \in DOMAIN h : h[x] \in [block : Serials, value : Value] /\ h[x].block = x
    BY <1>2, <1>3, <1>4
<1>6. h \in [DOMAIN h -> [block : Serials, value : Value]] /\ DOMAIN h \in SUBSET Serials
    BY <1>2, <1>3, <1>5
<1>7. h \in Homes
    BY <1>5, <1>6, HomesIntro
<1>8. /\ g \in Frame /\ g.method = f.method /\ g.arguments = f.arguments /\ g.base = f.base
      /\ g.below = f.below /\ g.result = f.result /\ g.height = f.height /\ g.homes = h
      /\ g.multicast = f.multicast
    BY Zenon, <1>1, <1>7 DEF Frame
<1> HIDE DEF g
<1>9. Homed(f.method) => \E y \in DOMAIN h : \A x \in DOMAIN h : y <= x
  <2> SUFFICES ASSUME NEW y \in DOMAIN f.homes, \A x \in DOMAIN f.homes : y <= x
               PROVE  \A x \in DOMAIN h : y <= x
      BY <1>1, <1>3 DEF FrameRight
  <2>1. y < s /\ y \in Nat /\ s \in Nat
      BY <1>2, Bounds DEF Serials
  <2>2. QED
      BY <1>3, <2>1
<1>10. FrameRight(g)
    BY <1>1, <1>8, <1>9 DEF FrameRight
<1>11. g \in Frames
    BY <1>8, <1>10 DEF Frames
<1>12. QED
    BY <1>3, <1>4, <1>8, <1>11 DEF g, h

-----------------------------------------------------------------------------
(* Machines *)

Keeps(m, r) == r.status = m.status /\ r.type = m.type /\ r.processing = m.processing

(* r is m after steps that stay in the current frame. *)
InFrame(m, r) ==
    /\ MInv(r) /\ Len(r.frames) = Len(m.frames) /\ r.serial = m.serial /\ Keeps(m, r)
    /\ \A i \in 1..(Len(m.frames) - 1) : r.frames[i] = m.frames[i]
    /\ Kin(Top(m), Top(r))

(* The parts of a machine. *)
LEMMA MachineParts ==
    ASSUME NEW m, MInv(m)
    PROVE  /\ m \in Machines /\ StackInv(m.frames, m.stack, m.serial) /\ m.blocks = m.serial
           /\ m.frames \in Seq(Frames) /\ m.stack \in Seq(Value) /\ m.serial \in Nat
           /\ m.serial <= MaxSerial + 1 /\ Len(m.frames) \in Nat /\ Len(m.stack) \in Nat
  BY Bounds, ElementsOf DEF MInv, Machines

(* The current frame: it ends at the top of the stack. *)
LEMMA TopParts ==
    ASSUME NEW m, MInv(m), Len(m.frames) > 0
    PROVE  /\ Top(m) = m.frames[Len(m.frames)] /\ Top(m) \in Frames /\ Ends(Top(m)) = Len(m.stack)
           /\ Top(m).arguments \in Nat /\ Top(m).base \in Nat /\ Top(m).height \in Nat
           /\ Len(m.stack) = Top(m).base + Top(m).height /\ Top(m).arguments <= Top(m).base
           /\ Top(m).method \in Method
<1>1. m.frames \in Seq(Frames) /\ StackInv(m.frames, m.stack, m.serial) /\ Len(m.frames) \in Nat
    BY MachineParts
<1>2. Top(m) = m.frames[Len(m.frames)] /\ Len(m.frames) \in 1..Len(m.frames)
    BY <1>1 DEF Top, Depth
<1>3. Top(m) \in Frames
    BY <1>1, <1>2, ElementsOf
<1>4. Meet(m.frames, m.stack)
    BY <1>1 DEF StackInv
<1>5. Ends(Top(m)) = Len(m.stack)
    BY Zenon, <1>2, <1>4 DEF Meet
<1>6. QED
    BY Zenon, <1>2, <1>3, <1>5, FrameSlots, FrameFacts

(* Writing the current frame leaves the rest of the machine. *)
LEMMA WithTopParts ==
    ASSUME NEW m \in Machines, Len(m.frames) > 0, NEW g \in Frames
    PROVE  /\ WithTop(m, g) \in Machines
           /\ WithTop(m, g).frames = [m.frames EXCEPT ![Len(m.frames)] = g]
           /\ WithTop(m, g).stack = m.stack /\ WithTop(m, g).serial = m.serial
           /\ WithTop(m, g).blocks = m.blocks /\ Keeps(m, WithTop(m, g))
           /\ Len(WithTop(m, g).frames) = Len(m.frames) /\ Top(WithTop(m, g)) = g
           /\ \A i \in 1..(Len(m.frames) - 1) : WithTop(m, g).frames[i] = m.frames[i]
<1> DEFINE r == WithTop(m, g)
           gs == [m.frames EXCEPT ![Len(m.frames)] = g]
<1>1. m.frames \in Seq(Frames)
    BY DEF Machines
<1>2. /\ gs \in Seq(Frames) /\ Len(gs) = Len(m.frames) /\ gs[Len(m.frames)] = g
      /\ \A i \in 1..(Len(m.frames) - 1) : gs[i] = m.frames[i]
    BY <1>1, LastReplaced
<1> HIDE DEF gs
<1>3. r = [m EXCEPT !.frames = gs]
    BY DEF WithTop, Depth, gs
<1> HIDE DEF r
<1>4. /\ r \in Machines /\ r.frames = gs /\ r.stack = m.stack /\ r.serial = m.serial
      /\ r.blocks = m.blocks /\ Keeps(m, r)
    BY Zenon, <1>2, <1>3 DEF Machines, Keeps
<1>5. Top(r) = g
    BY <1>2, <1>4 DEF Top, Depth
<1>6. QED
    BY Zenon, <1>2, <1>4, <1>5 DEF r, gs

(* Writing the stack leaves the rest of the machine. *)
LEMMA StackParts ==
    ASSUME NEW m \in Machines, NEW st \in Seq(Value)
    PROVE  /\ [m EXCEPT !.stack = st] \in Machines
           /\ [m EXCEPT !.stack = st].frames = m.frames /\ [m EXCEPT !.stack = st].stack = st
           /\ [m EXCEPT !.stack = st].serial = m.serial /\ [m EXCEPT !.stack = st].blocks = m.blocks
           /\ Keeps(m, [m EXCEPT !.stack = st])
  BY Zenon DEF Machines, Keeps

(* The thread stops, or goes on. *)
LEMMA StopKeeps ==
    ASSUME NEW m, MInv(m), NEW why \in Statuses
    PROVE  /\ MInv(Stop(m, why)) /\ Stop(m, why).status = why
           /\ Stop(m, why).frames = m.frames /\ Stop(m, why).serial = m.serial
<1> DEFINE r == Stop(m, why)
<1>1. /\ r \in Machines /\ r.frames = m.frames /\ r.stack = m.stack /\ r.serial = m.serial
      /\ r.blocks = m.blocks /\ r.status = why
    BY DEF Stop, MInv, Machines
<1>2. QED
    BY Zenon, <1>1 DEF MInv

(* A frame of the same place takes over, with other operands. *)
LEMMA TopChanged ==
    ASSUME NEW m, MInv(m), Len(m.frames) > 0, NEW g \in Frames, NEW st \in Seq(Value),
           Kin(Top(m), g), Ends(g) = Len(st), \A k \in 1..g.arguments : st[k] = m.stack[k]
    PROVE  /\ InFrame(m, WithTop([m EXCEPT !.stack = st], g))
           /\ Top(WithTop([m EXCEPT !.stack = st], g)) = g
           /\ WithTop([m EXCEPT !.stack = st], g).stack = st
<1> DEFINE q == [m EXCEPT !.stack = st]
           r == WithTop(q, g)
           fs == m.frames
<1>1. m \in Machines /\ StackInv(fs, m.stack, m.serial) /\ m.blocks = m.serial
    BY Zenon, MachineParts
<1>2. /\ q \in Machines /\ q.frames = fs /\ q.stack = st /\ q.serial = m.serial
      /\ q.blocks = m.blocks /\ Keeps(m, q)
    BY <1>1, StackParts
<1> HIDE DEF q
<1>3. /\ r \in Machines /\ r.frames = [fs EXCEPT ![Len(fs)] = g] /\ r.stack = st
      /\ r.serial = m.serial /\ r.blocks = m.blocks /\ Keeps(q, r) /\ Top(r) = g
      /\ Len(r.frames) = Len(fs) /\ \A i \in 1..(Len(fs) - 1) : r.frames[i] = fs[i]
    BY <1>2, WithTopParts
<1> HIDE DEF r
<1>4. Top(m) = fs[Len(fs)] /\ m.serial \in 0..(MaxSerial + 1) /\ Len(fs) \in 1..Len(fs)
  <2>1. Top(m) = fs[Len(fs)] /\ m.serial \in 0..(MaxSerial + 1)
      BY Zenon, <1>1, MachineParts, TopParts DEF StackInv
  <2>2. Len(fs) \in Nat /\ Len(fs) > 0
      BY Zenon, MachineParts
  <2>3. \A n \in Nat : n > 0 => n \in 1..n
      OBVIOUS
  <2>4. QED
      BY Zenon, <2>1, <2>2, <2>3
<1>5. g.result # NoResult => ReceiverRight(fs, m.stack, Len(fs), g.result)
  <2>1. ReceiversRight(fs, m.stack)
      BY Zenon, <1>1 DEF StackInv
  <2>2. g.result = fs[Len(fs)].result
      BY Zenon, <1>4 DEF Kin
  <2>3. QED
      BY Zenon, <1>4, <2>1, <2>2 DEF ReceiversRight
<1>6. Replaces(fs, m.stack, m.serial, g, st, m.serial)
  <2>1. g.arguments = fs[Len(fs)].arguments /\ g.below = fs[Len(fs)].below /\ g.homes = fs[Len(fs)].homes
      BY <1>4 DEF Kin
  <2>2. m.serial <= m.serial
      BY <1>4, Bounds
  <2>3. QED
      BY Zenon, <1>5, <2>1, <2>2 DEF Replaces
<1>7. StackInv(r.frames, st, m.serial)
    BY <1>1, <1>3, <1>4, <1>6, TopReplaced
<1>8. MInv(r)
    BY Zenon, <1>1, <1>3, <1>7 DEF MInv
<1>9. Keeps(m, r)
    BY Zenon, <1>2, <1>3 DEF Keeps
<1>10. QED
    BY Zenon, <1>3, <1>8, <1>9 DEF InFrame, q, r

(* A frame like it takes over. *)
LEMMA TopLike ==
    ASSUME NEW m, MInv(m), Len(m.frames) > 0, NEW g \in Frames, Like(Top(m), g)
    PROVE  /\ InFrame(m, WithTop(m, g)) /\ Top(WithTop(m, g)) = g
           /\ WithTop(m, g).stack = m.stack
<1>1. m \in Machines /\ m.stack \in Seq(Value)
    BY MachineParts
<1>2. Kin(Top(m), g) /\ Ends(g) = Len(m.stack)
    BY Zenon, TopParts DEF Like, Kin, Ends
<1>3. [m EXCEPT !.stack = m.stack] = m
    BY <1>1 DEF Machines
<1>4. QED
    BY <1>1, <1>2, <1>3, TopChanged

(* Operands are pushed: onto the current frame's, or onto a stack without frames. *)
LEMMA PushKeeps ==
    ASSUME NEW m, MInv(m), Len(m.frames) > 0, NEW vs \in Seq(Value)
    PROVE  /\ InFrame(m, PushAll(m, vs)) /\ PushAll(m, vs).stack = m.stack \o vs
           /\ Top(PushAll(m, vs)).height = Top(m).height + Len(vs)
           /\ Top(PushAll(m, vs)).multicast = Top(m).multicast
           /\ Top(PushAll(m, vs)).action = Top(m).action
<1> DEFINE h == Top(m).height + Len(vs)
           g == [Top(m) EXCEPT !.height = h]
           st == m.stack \o vs
<1>1. m.stack \in Seq(Value) /\ Len(m.stack) \in Nat /\ Len(vs) \in Nat
    BY MachineParts, ElementsOf
<1>2. /\ Top(m) \in Frames /\ Top(m).height \in Nat /\ Top(m).base \in Nat /\ Top(m).arguments \in Nat
      /\ Len(m.stack) = Top(m).base + Top(m).height /\ Top(m).arguments <= Top(m).base
    BY Zenon, TopParts
<1>3. st \in Seq(Value) /\ Len(st) = Len(m.stack) + Len(vs) /\ \A i \in 1..Len(m.stack) : st[i] = m.stack[i]
    BY <1>1, Joined
<1>4. h \in Nat
    BY <1>1, <1>2
<1>5. PushAll(m, vs) = WithTop([m EXCEPT !.stack = st], g)
    BY DEF PushAll, Depth
<1>6. g \in Frames /\ Kin(Top(m), g) /\ g.height = h /\ g.multicast = Top(m).multicast /\ g.action = Top(m).action
    BY <1>2, <1>4, HeightSet
<1> HIDE DEF g, st
<1>7. Ends(g) = Len(st) /\ g.arguments = Top(m).arguments
    BY <1>1, <1>2, <1>3, <1>6 DEF Ends, Kin
<1>8. \A k \in 1..g.arguments : st[k] = m.stack[k]
    BY SMTT(30), <1>1, <1>2, <1>3, <1>7
<1>9. /\ InFrame(m, WithTop([m EXCEPT !.stack = st], g))
      /\ Top(WithTop([m EXCEPT !.stack = st], g)) = g
      /\ WithTop([m EXCEPT !.stack = st], g).stack = st
    BY <1>3, <1>6, <1>7, <1>8, TopChanged, Zenon
<1>10. InFrame(m, PushAll(m, vs)) /\ Top(PushAll(m, vs)) = g /\ PushAll(m, vs).stack = st
    BY <1>5, <1>9, Zenon
<1>11. st = m.stack \o vs
    BY DEF st
<1>12. QED
    BY Zenon, <1>6, <1>10, <1>11

(* The same without a frame, where nothing counts operands. *)
LEMMA BarePush ==
    ASSUME NEW m, MInv(m), Len(m.frames) = 0, NEW vs \in Seq(Value)
    PROVE  /\ MInv(PushAll(m, vs)) /\ PushAll(m, vs).frames = m.frames
           /\ PushAll(m, vs).stack = m.stack \o vs /\ PushAll(m, vs).serial = m.serial
           /\ Keeps(m, PushAll(m, vs))
<1> DEFINE st == m.stack \o vs
           r == [m EXCEPT !.stack = st]
<1>1. m \in Machines /\ m.stack \in Seq(Value) /\ StackInv(m.frames, m.stack, m.serial) /\ m.blocks = m.serial
    BY MachineParts
<1>2. st \in Seq(Value)
    BY <1>1, Joined
<1> HIDE DEF st
<1>3. /\ r \in Machines /\ r.frames = m.frames /\ r.stack = st /\ r.serial = m.serial
      /\ r.blocks = m.blocks /\ Keeps(m, r)
    BY <1>1, <1>2, StackParts
<1>4. StackInv(m.frames, st, m.serial)
    BY <1>1, <1>2
       DEF StackInv, Meet, Ordered, BelowKept, HomesIssued, HomesApart, ReceiversRight
<1>5. PushAll(m, vs) = r
    BY DEF PushAll, Depth, st
<1>6. QED
    BY <1>1, <1>3, <1>4, <1>5 DEF MInv, st

(* Operands of the current frame are dropped. *)
LEMMA DropKeeps ==
    ASSUME NEW m, MInv(m), Len(m.frames) > 0, NEW n \in Nat, n <= Top(m).height
    PROVE  /\ InFrame(m, Drop(m, n)) /\ Drop(m, n).stack = SubSeq(m.stack, 1, Len(m.stack) - n)
           /\ Len(Drop(m, n).stack) = Len(m.stack) - n
           /\ Top(Drop(m, n)).height = Top(m).height - n
           /\ Top(Drop(m, n)) = [Top(m) EXCEPT !.height = Top(m).height - n]
           /\ Top(Drop(m, n)).multicast = Top(m).multicast
           /\ Top(Drop(m, n)).action = Top(m).action
<1> DEFINE h == Top(m).height - n
           g == [Top(m) EXCEPT !.height = h]
           st == SubSeq(m.stack, 1, Len(m.stack) - n)
<1>1. m.stack \in Seq(Value) /\ Len(m.stack) \in Nat
    BY MachineParts
<1>2. /\ Top(m) \in Frames /\ Top(m).height \in Nat /\ Top(m).base \in Nat /\ Top(m).arguments \in Nat
      /\ Len(m.stack) = Top(m).base + Top(m).height /\ Top(m).arguments <= Top(m).base
    BY Zenon, TopParts
<1>3. h \in Nat /\ Len(m.stack) - n \in 0..Len(m.stack)
    BY SMTT(30), <1>1, <1>2
<1>4. st \in Seq(Value) /\ Len(st) = Len(m.stack) - n /\ \A i \in 1..(Len(m.stack) - n) : st[i] = m.stack[i]
    BY Zenon, <1>1, <1>3, Prefix
<1>5. Drop(m, n) = WithTop([m EXCEPT !.stack = st], g)
    BY DEF Drop, Truncate
<1>6. g \in Frames /\ Kin(Top(m), g) /\ g.height = h /\ g.multicast = Top(m).multicast /\ g.action = Top(m).action
    BY Zenon, <1>2, <1>3, HeightSet
<1>7. g = [Top(m) EXCEPT !.height = Top(m).height - n] /\ st = SubSeq(m.stack, 1, Len(m.stack) - n)
    OBVIOUS
<1> HIDE DEF g, st
<1>8. Ends(g) = Len(st) /\ g.arguments = Top(m).arguments
    BY <1>1, <1>2, <1>4, <1>6 DEF Ends, Kin
<1>9. \A k \in 1..g.arguments : k \in 1..(Len(m.stack) - n)
    BY SMTT(30), <1>1, <1>2, <1>8
<1>10. \A k \in 1..g.arguments : st[k] = m.stack[k]
    BY <1>4, <1>9
<1>11. /\ InFrame(m, WithTop([m EXCEPT !.stack = st], g))
       /\ Top(WithTop([m EXCEPT !.stack = st], g)) = g
       /\ WithTop([m EXCEPT !.stack = st], g).stack = st
    BY <1>4, <1>6, <1>8, <1>10, TopChanged, Zenon
<1>12. InFrame(m, Drop(m, n)) /\ Top(Drop(m, n)) = g /\ Drop(m, n).stack = st
    BY <1>5, <1>11, Zenon
<1>13. QED
    BY <1>4, <1>6, <1>7, <1>12

-----------------------------------------------------------------------------
(* Calls *)

(* The frame of a method whose arguments are the last values of the stack. *)
NewFrameRight(m, c, g) ==
    /\ g \in Frames /\ g.method = c /\ g.result = NoResult /\ g.multicast = NoCast
    /\ g.arguments = Len(m.stack) - Args(c) /\ g.height = 0
    /\ g.below = SubSeq(m.stack, 1, Len(m.stack) - Args(c))
    /\ Ends(g) = Len(m.stack) + Locals(c)
    /\ \A s \in DOMAIN g.homes : Homed(c) /\ s = m.serial + 1

(* Frames are created so (call_frame). *)
LEMMA NewFrameOf ==
    ASSUME NEW m, NEW c \in Method, m.stack \in Seq(Value), Len(m.stack) >= Args(c),
           m.serial \in 0..MaxSerial, m.blocks = m.serial
    PROVE  NewFrameRight(m, c, NewFrame(m, c))
<1> DEFINE base == Len(m.stack) - Args(c)
           s == m.serial + 1
           first == IF Args(c) > 0 THEN m.stack[base + 1] ELSE Null
           homes == IF Homed(c) THEN Install(NoHomes, s, s, first) ELSE NoHomes
           below == SubSeq(m.stack, 1, base)
           g == NewFrame(m, c)
<1>1. Args(c) \in Nat /\ Locals(c) \in Nat /\ Len(m.stack) \in Nat /\ MaxSerial \in Nat
    BY Zenon, Bounds, ElementsOf
<1>2. base \in 0..Len(m.stack) /\ base \in Nat /\ s \in Serials
    BY SMTT(30), <1>1 DEF Serials
<1>3. below \in Seq(Value) /\ Len(below) = base
    BY <1>2, Prefix
<1>4. first \in Value
  <2>1. Null \in Value
      BY PlainValues
  <2>2. Args(c) > 0 => base + 1 \in 1..Len(m.stack)
      BY SMTT(30), <1>1
  <2>3. QED
      BY <2>1, <2>2, ElementsOf
<1>5. g = [method |-> c, arguments |-> base, base |-> base + Args(c) + Locals(c),
           height |-> 0, at |-> Any, want |-> 0, finalizer |-> FALSE,
           multicast |-> NoCast, action |-> "none", result |-> NoResult, homes |-> homes,
           searched |-> TRUE, invoked |-> <<>>, last |-> Null, below |-> below]
    BY Zenon DEF NewFrame, IssueHomeSerial
<1> HIDE DEF below, first
<1>6. homes \in Homes /\ (Homed(c) => DOMAIN homes = {s}) /\ (~Homed(c) => DOMAIN homes = {})
  <2>1. CASE Homed(c)
    <3>1. homes = [x \in {s} |-> [block |-> s, value |-> first]]
        BY Zenon, <2>1 DEF Install, NoHomes
    <3>0. [block |-> s, value |-> first] \in [block : Serials, value : Value]
        BY <1>2, <1>4
    <3>2. homes \in [{s} -> [block : Serials, value : Value]] /\ {s} \in SUBSET Serials
        BY Zenon, <1>2, <3>0, <3>1
    <3>3. \A x \in {s} : homes[x].block = x
        BY <3>1
    <3>4. homes \in Homes
        BY Zenon, <3>2, <3>3, HomesIntro
    <3>5. QED
        BY Zenon, <2>1, <3>2, <3>4
  <2>2. CASE ~Homed(c)
    <3>1. homes \in [{} -> [block : Serials, value : Value]] /\ {} \in SUBSET Serials
        BY Zenon, <2>2 DEF NoHomes
    <3>2. homes \in Homes
        BY Zenon, <3>1, HomesIntro
    <3>3. QED
        BY Zenon, <2>2, <3>1, <3>2
  <2>3. QED
      BY Zenon, <2>1, <2>2
<1> HIDE DEF homes
<1>7. base + Args(c) + Locals(c) \in Nat /\ base + Args(c) + Locals(c) = Len(m.stack) + Locals(c)
  <2>1. \A n, a, l \in Nat : n >= a => (n - a) + a + l \in Nat /\ (n - a) + a + l = n + l
      OBVIOUS
  <2>2. QED
      BY ZenonT(60), <1>1, <2>1
<1>8. /\ Any \in Instructions /\ Null \in Value /\ <<>> \in Seq(Method)
      /\ NoResult \in [slot : Nat, serial : Nat] /\ NoCast \in {NoCast} \cup Cast
  <2>1. Any \in Instructions
      BY Zenon DEF Instructions
  <2>2. Null \in Value
      BY PlainValues
  <2>3. NoResult \in [slot : Nat, serial : Nat]
      BY DEF NoResult
  <2>4. QED
      BY <2>1, <2>2, <2>3
<1> HIDE DEF base, g
<1>9. /\ g \in Frame /\ g.method = c /\ g.arguments = base /\ g.base = base + Args(c) + Locals(c)
      /\ g.height = 0 /\ g.multicast = NoCast /\ g.result = NoResult /\ g.homes = homes /\ g.below = below
  <2>1. /\ g.method = c /\ g.arguments = base /\ g.base = base + Args(c) + Locals(c)
        /\ g.height = 0 /\ g.multicast = NoCast /\ g.result = NoResult /\ g.homes = homes
        /\ g.below = below
      BY <1>5
  <2>2. g \in Frame
      BY <1>2, <1>3, <1>5, <1>6, <1>7, <1>8 DEF Frame
  <2>3. QED
      BY Zenon, <2>1, <2>2
<1>10. Homed(c) => \E y \in DOMAIN homes : \A x \in DOMAIN homes : y <= x
    BY SMTT(30), <1>2, <1>6, Bounds DEF Serials
<1>11. FrameRight(g)
    BY Zenon, <1>3, <1>9, <1>10 DEF FrameRight
<1>12. g \in Frames
    BY <1>9, <1>11 DEF Frames
<1>13. Ends(g) = Len(m.stack) + Locals(c)
    BY <1>1, <1>7, <1>9 DEF Ends
<1>14. base = Len(m.stack) - Args(c) /\ below = SubSeq(m.stack, 1, Len(m.stack) - Args(c))
    BY DEF base, below
<1>15. NewFrameRight(m, c, g)
    BY Zenon, <1>6, <1>9, <1>12, <1>13, <1>14 DEF NewFrameRight
<1>16. QED
    BY <1>15 DEF g

(* r is m after a call of c: a frame of c on top of the frames fs, which have
   given up the arguments. *)
Called(m, r, c, fs) ==
    /\ MInv(r) /\ Keeps(m, r)
    /\ r.frames = Append(fs, NewFrame(m, c)) /\ Len(r.frames) = Len(fs) + 1
    /\ Top(r) = NewFrame(m, c) /\ NewFrameRight(m, c, Top(r))
    /\ \A k \in 1..Len(m.stack) : r.stack[k] = m.stack[k]

(* After a call there is a current frame, the new one. *)
LEMMA CalledTop ==
    ASSUME NEW m, NEW r, NEW c, NEW fs, Called(m, r, c, fs)
    PROVE  /\ MInv(r) /\ Len(r.frames) > 0 /\ NewFrameRight(m, c, Top(r))
           /\ Top(r) \in Frames /\ Top(r).method = c /\ Top(r).result = NoResult
<1>1. MInv(r) /\ r.frames = Append(fs, NewFrame(m, c)) /\ NewFrameRight(m, c, Top(r))
    BY Zenon DEF Called
<1>2. r.frames \in Seq(Frames)
    BY Zenon, <1>1, MachineParts
<1>3. Len(r.frames) > 0
    <2> DEFINE rs == r.frames
               g == NewFrame(m, c)
    <2>1. rs \in Seq(Frames) /\ rs = Append(fs, g)
        BY Zenon, <1>1, <1>2
    <2> HIDE DEF rs, g
    <2>2. Len(rs) > 0
        BY <2>1
    <2>3. QED
        BY Zenon, <2>2 DEF rs
<1>4. QED
    BY Zenon, <1>1, <1>3 DEF NewFrameRight

(* A frame is put on top of frames that have given up its arguments. *)
LEMMA CallOnto ==
    ASSUME NEW m, MInv(m), NEW c \in Method, Len(m.stack) >= Args(c), m.serial <= MaxSerial,
           NEW fs, StackInv(fs, SubSeq(m.stack, 1, Len(m.stack) - Args(c)), m.serial),
           NEW se, se = (IF Homed(c) THEN m.serial + 1 ELSE m.serial),
           NEW r, r \in [frames : {Append(fs, NewFrame(m, c))},
                         stack : {m.stack \o [i \in 1..Locals(c) |-> Null]}, serial : {se},
                         type : {m.type}, processing : {m.processing}, status : {m.status},
                         blocks : {se}]
    PROVE  Called(m, r, c, fs)
<1> DEFINE g == NewFrame(m, c)
           locals == [i \in 1..Locals(c) |-> Null]
           st == SubSeq(m.stack, 1, Len(m.stack) - Args(c))
           st2 == m.stack \o locals
<1>1. m \in Machines /\ m.stack \in Seq(Value) /\ m.serial \in Nat /\ Len(m.stack) \in Nat /\ m.blocks = m.serial
    BY Zenon, MachineParts
<1>2. Args(c) \in Nat /\ Locals(c) \in Nat /\ MaxSerial \in Nat
    BY Zenon, Bounds
<1>3. NewFrameRight(m, c, g)
    BY <1>1, <1>2, NewFrameOf
<1>4. locals \in Seq(Value) /\ Len(locals) = Locals(c)
  <2>1. Null \in Value
      BY Zenon, PlainValues
  <2>2. QED
      BY Zenon, <1>2, <2>1, Constantly
<1> HIDE DEF locals
<1>5. st2 \in Seq(Value) /\ Len(st2) = Len(m.stack) + Locals(c) /\ \A k \in 1..Len(m.stack) : st2[k] = m.stack[k]
    BY <1>1, <1>4, Joined
<1>6. Len(m.stack) - Args(c) \in 0..Len(m.stack)
    BY SMTT(30), <1>1, <1>2
<1>7. Len(st) = Len(m.stack) - Args(c) /\ \A k \in 1..(Len(m.stack) - Args(c)) : st[k] = m.stack[k]
    BY ZenonT(60), <1>1, <1>6, Prefix
<1>8. se \in 0..(MaxSerial + 1) /\ m.serial <= se
    BY SMTT(30), <1>1, <1>2
<1>9. r.frames = Append(fs, g) /\ r.stack = st2 /\ r.serial = se /\ r.blocks = se /\ Keeps(m, r)
    BY Zenon DEF Keeps, locals
<1>10. fs \in Seq(Frames) /\ g \in Frames /\ g.below = st
    BY Zenon, <1>3 DEF StackInv, NewFrameRight
<1> HIDE DEF g, st, st2
<1>11. Pushes(fs, st, m.serial, g, st2, se)
  <2>1. g.arguments = Len(st) /\ g.result = NoResult /\ Ends(g) = Len(st2)
      BY Zenon, <1>3, <1>5, <1>7 DEF NewFrameRight
  <2>2. \A k \in 1..Len(st) : st2[k] = st[k]
    <3>1. \A k \in 1..Len(st) : k \in 1..Len(m.stack)
        BY <1>1, <1>2, <1>7
    <3>2. QED
        BY Zenon, <1>5, <1>7, <3>1
  <2>3. \A s \in DOMAIN g.homes : s \in (m.serial + 1)..se
      BY <1>1, <1>3 DEF NewFrameRight
  <2>4. QED
      BY Zenon, <1>8, <1>10, <2>1, <2>2, <2>3 DEF Pushes
<1>12. StackInv(fs, st, m.serial)
    BY DEF st
<1>13. StackInv(Append(fs, g), st2, se)
    BY Zenon, <1>5, <1>8, <1>10, <1>11, <1>12, FramePushed
<1>14. r \in Machines
  <2>1. Append(fs, g) \in Seq(Frames)
      BY <1>10
  <2>2. /\ r \in [frames : {Append(fs, g)}, stack : {st2}, serial : {se}, type : {m.type},
                  processing : {m.processing}, status : {m.status}, blocks : {se}]
      BY Zenon DEF g, st2, locals
  <2>3. se \in Nat
      BY <1>2, <1>8
  <2>4. QED
      BY Zenon, <1>1, <1>5, <1>8, <2>1, <2>2, <2>3 DEF Machines
<1>15. MInv(r)
    BY <1>9, <1>13, <1>14 DEF MInv
<1>16. Len(r.frames) = Len(fs) + 1 /\ Top(r) = g
    BY <1>9, <1>10 DEF Top, Depth
<1>17. QED
    BY Zenon, <1>3, <1>5, <1>9, <1>15, <1>16 DEF Called, g, st2

(* call_frame, from a frame that holds the arguments. *)
LEMMA CallKeeps ==
    ASSUME NEW m, MInv(m), Len(m.frames) > 0, NEW c \in Method, Args(c) <= Top(m).height,
           m.serial <= MaxSerial
    PROVE  Called(m, CallFrame(m, c), c, Drop(m, Args(c)).frames)
<1> DEFINE f == [Top(m) EXCEPT !.height = @ - Args(c)]
           d == Drop(m, Args(c))
           fs == [m.frames EXCEPT ![Len(m.frames)] = f]
           locals == [i \in 1..Locals(c) |-> Null]
           se == IF Homed(c) THEN m.serial + 1 ELSE m.serial
           r == CallFrame(m, c)
<1>1. m \in Machines /\ m.stack \in Seq(Value) /\ m.serial \in Nat /\ Len(m.stack) \in Nat /\ m.blocks = m.serial
    BY MachineParts
<1>2. Args(c) \in Nat
    BY Bounds
<1>3. /\ MInv(d) /\ d.stack = SubSeq(m.stack, 1, Len(m.stack) - Args(c)) /\ d.serial = m.serial
    BY Zenon, <1>2, DropKeeps DEF InFrame
<1>4. d.frames = fs
  <2>1. m.frames \in Seq(Frames)
      BY MachineParts
  <2>2. d = [m EXCEPT !.stack = SubSeq(@, 1, Len(m.stack) - Args(c)), !.frames = fs]
      BY <1>1 DEF Drop, WithTop, Truncate, Depth, Machines
  <2>3. QED
      BY <1>1, <2>2 DEF Machines
<1>5. StackInv(fs, SubSeq(m.stack, 1, Len(m.stack) - Args(c)), m.serial)
    BY Zenon, <1>3, <1>4, MachineParts
<1>6. Len(m.stack) >= Args(c)
    BY <1>1, <1>2, TopParts
<1> HIDE DEF fs, d
<1>7. r \in [frames : {Append(fs, NewFrame(m, c))}, stack : {m.stack \o locals}, serial : {se},
             type : {m.type}, processing : {m.processing}, status : {m.status}, blocks : {se}]
  <2> DEFINE grown == [m EXCEPT !.stack = @ \o locals]
             homed == IF Homed(c) THEN [grown EXCEPT !.serial = IssueHomeSerial(m), !.blocks = @ + 1] ELSE grown
             shorter == WithTop(homed, [Top(m) EXCEPT !.height = @ - Args(c)])
  <2>0. Depth(m) # 0
      BY DEF Depth
  <2>1. r = [shorter EXCEPT !.frames = Append(@, NewFrame(m, c))]
      BY <2>0 DEF CallFrame
  <2>2. homed \in [frames : {m.frames}, stack : {m.stack \o locals}, serial : {se},
                   type : {m.type}, processing : {m.processing}, status : {m.status}, blocks : {se}]
      BY Zenon, <1>1 DEF Machines, IssueHomeSerial
  <2> HIDE DEF homed
  <2>3. shorter = [homed EXCEPT !.frames = fs]
      BY Zenon, <2>2 DEF WithTop, Depth, fs
  <2> HIDE DEF shorter
  <2>4. shorter \in [frames : {fs}, stack : {m.stack \o locals}, serial : {se},
                     type : {m.type}, processing : {m.processing}, status : {m.status}, blocks : {se}]
      BY Zenon, <2>2, <2>3
  <2>5. QED
      BY Zenon, <2>1, <2>4
<1>8. Called(m, r, c, fs)
    BY Zenon, <1>5, <1>6, <1>7, CallOnto
<1>9. QED
    BY <1>4, <1>8 DEF d

(* call_frame, of the runtime, when the program has no frame left. *)
LEMMA BareCall ==
    ASSUME NEW m, MInv(m), Len(m.frames) = 0, NEW c \in Method, Args(c) <= Len(m.stack),
           m.serial <= MaxSerial
    PROVE  Called(m, CallFrame(m, c), c, m.frames)
<1> DEFINE locals == [i \in 1..Locals(c) |-> Null]
           se == IF Homed(c) THEN m.serial + 1 ELSE m.serial
           st == SubSeq(m.stack, 1, Len(m.stack) - Args(c))
           r == CallFrame(m, c)
<1>1. /\ m \in Machines /\ m.stack \in Seq(Value) /\ Len(m.stack) \in Nat /\ m.blocks = m.serial
      /\ StackInv(m.frames, m.stack, m.serial) /\ m.serial \in Nat
    BY MachineParts
<1>2. Args(c) \in Nat /\ Len(m.stack) - Args(c) \in 0..Len(m.stack) /\ Len(m.stack) >= Args(c)
    BY SMTT(30), <1>1, Bounds
<1>3. st \in Seq(Value)
    BY Zenon, <1>1, <1>2, Prefix
<1> HIDE DEF st
<1>4. StackInv(m.frames, st, m.serial)
    BY <1>1, <1>3
       DEF StackInv, Meet, Ordered, BelowKept, HomesIssued, HomesApart, ReceiversRight
<1>5. r \in [frames : {Append(m.frames, NewFrame(m, c))}, stack : {m.stack \o locals}, serial : {se},
             type : {m.type}, processing : {m.processing}, status : {m.status}, blocks : {se}]
  <2> DEFINE grown == [m EXCEPT !.stack = @ \o locals]
             homed == IF Homed(c) THEN [grown EXCEPT !.serial = IssueHomeSerial(m), !.blocks = @ + 1] ELSE grown
  <2>1. r = [homed EXCEPT !.frames = Append(@, NewFrame(m, c))]
      BY DEF CallFrame, Depth
  <2>2. homed \in [frames : {m.frames}, stack : {m.stack \o locals}, serial : {se},
                   type : {m.type}, processing : {m.processing}, status : {m.status}, blocks : {se}]
      BY Zenon, <1>1 DEF Machines, IssueHomeSerial
  <2> HIDE DEF homed
  <2>3. QED
      BY Zenon, <2>1, <2>2
<1>6. QED
    BY Zenon, <1>2, <1>4, <1>5, CallOnto DEF st

Goes(r) == MInv(r) /\ Grounded(r)

(* With a frame left, the thread can go on. *)
LEMMA GoesOn ==
    ASSUME NEW r, MInv(r), Len(r.frames) > 0
    PROVE  Goes(r)
<1>1. r.frames # <<>>
    OBVIOUS
<1>2. QED
    BY <1>1 DEF Goes, Grounded

(* managed_frame_abort, then call_frame. *)
LEMMA LimitedCallKeeps ==
    ASSUME NEW m, MInv(m), Len(m.frames) > 0, NEW c \in Method, Args(c) <= Top(m).height,
           m.serial <= MaxSerial
    PROVE  Goes(LimitedCall(m, c))
<1>1. CASE Depth(m) + 1 > FrameLimit
  <2>1. LimitedCall(m, c) = Stop(m, "aborted")
      BY <1>1 DEF LimitedCall
  <2>2. MInv(Stop(m, "aborted")) /\ Stop(m, "aborted").status = "aborted"
      BY StopKeeps DEF Statuses
  <2>3. QED
      BY Zenon, <2>1, <2>2 DEF Goes, Grounded
<1>2. CASE ~(Depth(m) + 1 > FrameLimit)
  <2>1. LimitedCall(m, c) = CallFrame(m, c)
      BY <1>2 DEF LimitedCall
  <2>2. Called(m, CallFrame(m, c), c, Drop(m, Args(c)).frames)
      BY CallKeeps
  <2>3. MInv(CallFrame(m, c)) /\ Len(CallFrame(m, c).frames) = Len(Drop(m, Args(c)).frames) + 1
      BY Zenon, <2>2 DEF Called
  <2>4. Len(Drop(m, Args(c)).frames) = Len(m.frames) /\ Len(m.frames) \in Nat
      BY Zenon, DropKeeps, MachineParts, Bounds DEF InFrame
  <2>5. Goes(CallFrame(m, c))
      BY <2>3, <2>4, GoesOn
  <2>6. QED
      BY <2>1, <2>5
<1>3. QED
    BY <1>1, <1>2

(* What stays in a frame leaves a frame to go on in. *)
LEMMA InFrameGoes ==
    ASSUME NEW m, Len(m.frames) > 0, NEW r, InFrame(m, r)
    PROVE  Goes(r) /\ Len(r.frames) > 0
<1>1. MInv(r) /\ Len(r.frames) > 0
    BY DEF InFrame
<1>2. QED
    BY <1>1, GoesOn

(* Steps in a frame, one after the other. *)
LEMMA InFrameTwice ==
    ASSUME NEW m, NEW q, NEW r, InFrame(m, q), InFrame(q, r)
    PROVE  InFrame(m, r)
  BY Zenon DEF InFrame, Keeps, Kin

(* The instruction is read, left for good, or left with its operands counted. *)
LEMMA FetchKeeps ==
    ASSUME MInv(Machine), Len(frames) > 0, NEW i \in Instructions, NEW w \in Int
    PROVE  /\ InFrame(Machine, Fetch(i, w)) /\ Fetch(i, w).stack = stack
           /\ Top(Fetch(i, w)).height = Top(Machine).height
           /\ Top(Fetch(i, w)).multicast = Top(Machine).multicast
<1> DEFINE f == Top(Machine)
           v == IF f.at = Any THEN w ELSE f.want
           g == [f EXCEPT !.at = i, !.want = v]
<1>1. Machine.frames = frames /\ Machine.stack = stack
    BY Zenon DEF Machine
<1>2. f \in Frames /\ f.want \in Int
    BY Zenon, <1>1, TopParts DEF Frames, Frame
<1>3. Fetch(i, w) = WithTop(Machine, g)
    BY DEF Fetch
<1>4. g \in Frames /\ Like(f, g) /\ g.multicast = f.multicast
  <2>1. v \in Int
      BY <1>2
  <2> HIDE DEF v, f
  <2>2. QED
      BY Zenon, <1>2, <2>1, AtSet
<1> HIDE DEF g
<1>5. InFrame(Machine, WithTop(Machine, g)) /\ Top(WithTop(Machine, g)) = g /\ WithTop(Machine, g).stack = stack
    BY Zenon, <1>1, <1>4, TopLike
<1>6. QED
    BY Zenon, <1>3, <1>4, <1>5 DEF Like

(* Going to the next instruction stays in the frame. *)
LEMMA AdvanceKeeps ==
    ASSUME NEW m, MInv(m), Len(m.frames) > 0
    PROVE  InFrame(m, Advance(m))
<1> DEFINE i == IF Top(m).at[1] = "tail" /\ Top(m).at[3] THEN Ret ELSE Any
           g == [Top(m) EXCEPT !.at = i]
<1>1. i \in Instructions /\ Top(m) \in Frames /\ 0 \in Int
    BY TopParts DEF Instructions
<1>2. g \in Frames /\ Like(Top(m), g)
  <2> HIDE DEF i
  <2>1. QED
      BY Zenon, <1>1, AtSet
<1>3. Advance(m) = WithTop(m, g)
    BY DEF Advance
<1> HIDE DEF g
<1>4. QED
    BY <1>2, <1>3, TopLike

(* Taking the height as the announced one stays in the frame. *)
LEMMA SettleKeeps ==
    ASSUME NEW m, MInv(m), Len(m.frames) > 0
    PROVE  InFrame(m, Settle(m))
<1> DEFINE g == [Top(m) EXCEPT !.at = Any, !.want = Top(m).height]
<1>1. Any \in Instructions /\ Top(m) \in Frames /\ Top(m).height \in Int
    BY TopParts DEF Instructions
<1>2. g \in Frames /\ Like(Top(m), g)
    BY Zenon, <1>1, AtSet
<1>3. Settle(m) = WithTop(m, g)
    BY DEF Settle
<1> HIDE DEF g
<1>4. QED
    BY <1>2, <1>3, TopLike

(* Doing nothing stays in the frame. *)
LEMMA InFrameSelf ==
    ASSUME NEW m, MInv(m)
    PROVE  InFrame(m, m)
  BY Zenon DEF InFrame, Keeps, Kin

(* A target counts as run, and its result is noted, without a change of operands. *)
LEMMA NotesKeep ==
    ASSUME NEW m, MInv(m), Len(m.frames) > 0, NEW c \in Method, NEW v \in Value
    PROVE  /\ InFrame(m, Record(m, c)) /\ Record(m, c).stack = m.stack
           /\ Top(Record(m, c)).height = Top(m).height
           /\ InFrame(m, NoteResult(m, v)) /\ NoteResult(m, v).stack = m.stack
           /\ Top(NoteResult(m, v)).height = Top(m).height
<1> DEFINE f == [Top(m) EXCEPT !.invoked = Append(@, c)]
           g == [Top(m) EXCEPT !.last = v]
<1>1. Top(m) \in Frames
    BY Zenon, TopParts
<1>2. f \in Frames /\ Like(Top(m), f) /\ g \in Frames /\ Like(Top(m), g)
    BY <1>1, CastNoted
<1>3. Record(m, c) = m \/ Record(m, c) = WithTop(m, f)
    BY DEF Record
<1>4. NoteResult(m, v) = m \/ NoteResult(m, v) = WithTop(m, g)
    BY DEF NoteResult
<1> HIDE DEF f, g
<1>5. InFrame(m, m)
    BY InFrameSelf
<1>6. InFrame(m, WithTop(m, f)) /\ WithTop(m, f).stack = m.stack /\ Top(WithTop(m, f)).height = Top(m).height
    BY Zenon, <1>2, TopLike DEF Like
<1>7. InFrame(m, WithTop(m, g)) /\ WithTop(m, g).stack = m.stack /\ Top(WithTop(m, g)).height = Top(m).height
    BY Zenon, <1>2, TopLike DEF Like
<1>8. QED
    BY Zenon, <1>3, <1>4, <1>5, <1>6, <1>7

(* A method the runtime implements stays in the frame. *)
LEMMA RunInPlaceKeeps ==
    ASSUME NEW m, MInv(m), Len(m.frames) > 0, NEW c \in Method, Args(c) <= Top(m).height
    PROVE  InFrame(m, RunInPlace(m, c))
<1> DEFINE d == Drop(m, Args(c))
           p == Push(d, Null)
           n == NoteResult(p, Null)
           e == IF Returns(c) THEN n ELSE d
<1>1. Args(c) \in Nat /\ Null \in Value
    BY Bounds, PlainValues
<1>2. InFrame(m, d)
    BY <1>1, DropKeeps
<1>3. MInv(d) /\ Len(d.frames) > 0
    BY Zenon, <1>2 DEF InFrame
<1> HIDE DEF d
<1>4. InFrame(d, p)
  <2>1. <<Null>> \in Seq(Value)
      BY <1>1
  <2>2. QED
      BY Zenon, <1>3, <2>1, PushKeeps DEF Push
<1>5. MInv(p) /\ Len(p.frames) > 0
    BY Zenon, <1>3, <1>4 DEF InFrame
<1> HIDE DEF p
<1>6. InFrame(p, n)
    BY Zenon, <1>1, <1>5, NotesKeep, Bounds
<1> HIDE DEF n
<1>7. InFrame(m, p)
    BY <1>2, <1>4, InFrameTwice
<1>8. InFrame(m, n)
    BY <1>6, <1>7, InFrameTwice
<1>9. InFrame(m, e)
    BY <1>2, <1>8
<1>10. MInv(e) /\ Len(e.frames) > 0
    BY Zenon, <1>9 DEF InFrame
<1>11. RunInPlace(m, c) = IF Top(m).multicast # NoCast THEN e ELSE Advance(e)
    BY Zenon DEF RunInPlace, d, p, n
<1> HIDE DEF e
<1>12. InFrame(e, Advance(e))
    BY <1>10, AdvanceKeeps
<1>13. InFrame(m, Advance(e))
    BY <1>9, <1>12, InFrameTwice
<1>14. QED
    BY <1>9, <1>11, <1>13

(* The static constructor goes first, or has failed. *)
LEMMA TypeFirst ==
    ASSUME NEW m, MInv(m), Len(m.frames) > 0, m.serial <= MaxSerial
    PROVE  Goes(LimitedCall([m EXCEPT !.type = "running"], Cctor)) /\ Goes(Stop(m, "throwing"))
<1> DEFINE q == [m EXCEPT !.type = "running"]
<1>1. Goes(LimitedCall(q, Cctor))
  <2>1. MInv(q) /\ q.frames = m.frames /\ q.serial = m.serial
    <3>1. m \in Machines /\ StackInv(m.frames, m.stack, m.serial) /\ m.blocks = m.serial
        BY MachineParts
    <3>2. /\ q \in Machines /\ q.frames = m.frames /\ q.stack = m.stack /\ q.serial = m.serial
          /\ q.blocks = m.blocks
        BY Zenon, <3>1 DEF Machines
    <3>3. QED
        BY <3>1, <3>2 DEF MInv
  <2> HIDE DEF q
  <2>2. Len(q.frames) > 0 /\ q.serial <= MaxSerial
      BY <2>1
  <2>3. Top(q).height \in Nat
      BY Zenon, <2>1, <2>2, TopParts
  <2>4. Cctor \in Method /\ Args(Cctor) <= Top(q).height
      BY <2>3, Bounds
  <2>5. QED
      BY <2>1, <2>2, <2>4, LimitedCallKeeps
<1>2. Goes(Stop(m, "throwing"))
  <2>1. MInv(Stop(m, "throwing")) /\ Len(Stop(m, "throwing").frames) > 0
      BY StopKeeps DEF Statuses
  <2>2. QED
      BY <2>1, GoesOn
<1>3. QED
    BY <1>1, <1>2

(* dispatch_method *)
LEMMA DispatchGoes ==
    ASSUME NEW m, MInv(m), Len(m.frames) > 0, NEW c \in Method, Args(c) <= Top(m).height,
           m.serial <= MaxSerial
    PROVE  Goes(Dispatch(m, c))
<1> DEFINE q == [m EXCEPT !.type = "running"]
           n == Record(m, c)
<1>1. Goes(LimitedCall(q, Cctor)) /\ Goes(Stop(m, "throwing"))
    BY TypeFirst
<1>3. InFrame(m, n) /\ Top(n).height = Top(m).height
    BY Zenon, NotesKeep, PlainValues
<1>4. MInv(n) /\ Len(n.frames) > 0 /\ n.serial <= MaxSerial /\ Args(c) <= Top(n).height
    BY Zenon, <1>3 DEF InFrame
<1>5. Dispatch(m, c) \in {LimitedCall(q, Cctor), Stop(m, "throwing"), RunInPlace(n, c), LimitedCall(n, c)}
    BY DEF Dispatch
<1> HIDE DEF n, q
<1>6. Goes(RunInPlace(n, c))
  <2>1. InFrame(n, RunInPlace(n, c))
      BY <1>4, RunInPlaceKeeps
  <2>2. QED
      BY <1>4, <2>1, InFrameGoes
<1>7. Goes(LimitedCall(n, c))
    BY <1>4, LimitedCallKeeps
<1>8. QED
    BY Zenon, <1>1, <1>5, <1>6, <1>7

-----------------------------------------------------------------------------
(* Operands *)

(* The last operands are values of the stack. *)
LEMMA LastOperands ==
    ASSUME NEW m, MInv(m), NEW n \in Nat, n <= Len(m.stack)
    PROVE  /\ Last(m, n) \in Seq(Value) /\ Len(Last(m, n)) = n
           /\ n > 0 => Last(m, n)[1] \in Value /\ Last(m, n)[1] = m.stack[Len(m.stack) - n + 1]
<1> DEFINE st == m.stack
<1>1. st \in Seq(Value) /\ Len(st) \in Nat
    BY MachineParts
<1>2. Last(m, n) = SubSeq(st, Len(st) - n + 1, Len(st))
    BY DEF Last
<1> HIDE DEF st
<1>3. n <= Len(st)
    BY DEF st
<1>4. SubSeq(st, Len(st) - n + 1, Len(st)) \in Seq(Value)
    BY <1>1, <1>3
<1>5. Len(SubSeq(st, Len(st) - n + 1, Len(st))) = n
    BY <1>1, <1>3
<1>6. n > 0 => SubSeq(st, Len(st) - n + 1, Len(st))[1] = st[Len(st) - n + 1]
    BY <1>1, <1>3
<1>7. n > 0 => st[Len(st) - n + 1] \in Value
    BY <1>1, <1>3
<1>8. QED
    BY Zenon, <1>2, <1>4, <1>5, <1>6, <1>7 DEF st

(* What the kind of a value says of it: only what code can load is packed, a
   delegate has targets, a byref has a serial, and what is boxed is data. *)
LEMMA KindOf ==
    ASSUME NEW v \in Value
    PROVE  /\ v.k = "packed" => v \in Constants
           /\ v.k = "delegate" => v \in Constants \/ \E t \in Target : v = Delegate(<<t>>)
           /\ v.k = "byref" => \E n \in Serials : v = Byref(n, n)
           /\ v.k = "struct" => v \in Structs
           /\ v.k = "data" => v \in Constants
<1>1. CASE v \in Constants
    BY Zenon, <1>1, ConstantsAssumption
<1>2. CASE v \in {Null, Hole, This}
    BY <1>2 DEF Null, Hole, This
<1>3. CASE \E n \in Serials : v = Byref(n, n)
    BY <1>3 DEF Byref
<1>4. CASE v \in Structs
    BY <1>4 DEF Structs
<1>5. CASE v \in [k : {"boxed"}, content : Content \cup Structs]
    BY Zenon, <1>5
<1>6. CASE \E t \in Target : v = Delegate(<<t>>)
    BY <1>6 DEF Delegate
<1>7. QED
    BY Zenon, <1>1, <1>2, <1>3, <1>4, <1>5, <1>6 DEF Value

(* box_value gives a value. *)
LEMMA BoxedValue ==
    ASSUME NEW v \in Value
    PROVE  Box(v) \in Value
<1>1. CASE v.k \in {"data", "struct"}
  <2>1. v \in Content \cup Structs
      BY <1>1, KindOf DEF Content
  <2>2. Boxed(v) \in [k : {"boxed"}, content : Content \cup Structs]
      BY <2>1 DEF Boxed
  <2>3. Boxed(v) \in Value
      BY <2>2 DEF Value
  <2>4. QED
      BY <1>1, <2>3 DEF Box
<1>2. CASE v.k \notin {"data", "struct"}
    BY <1>2 DEF Box
<1>3. QED
    BY <1>1, <1>2

(* The targets of a delegate. *)
LEMMA TargetsOf ==
    ASSUME NEW v \in Value, v.k = "delegate"
    PROVE  v.targets \in Seq(Target) /\ Len(v.targets) > 0
<1>1. CASE v \in Constants
  <2>1. v.targets \in Seq(Target) /\ v.targets # <<>>
      BY Zenon, <1>1, ConstantsAssumption DEF Target
  <2>2. QED
      BY <2>1
<1>2. CASE \E t \in Target : v = Delegate(<<t>>)
  <2>1. PICK t \in Target : v = Delegate(<<t>>)
      BY <1>2
  <2>2. v.targets = <<t>>
      BY Zenon, <2>1 DEF Delegate
  <2>3. QED
      BY <2>2
<1>3. QED
    BY <1>1, <1>2, KindOf

-----------------------------------------------------------------------------
(* Returning *)

(* r is m without its top frame and the slots of that frame. *)
Popped(m, r) ==
    /\ MInv(r) /\ r.frames = SubSeq(m.frames, 1, Len(m.frames) - 1)
    /\ r.stack = SubSeq(m.stack, 1, Top(m).arguments)
    /\ r.serial = m.serial /\ r.status = m.status

(* The frame goes, whatever its end means for the type and the finalizers. *)
LEMMA PopKeeps ==
    ASSUME NEW m, MInv(m), Len(m.frames) > 0, NEW end \in {"done", "failed"}
    PROVE  /\ Popped(m, Truncate(FrameEnds(PopFrame(m), Top(m), end), Top(m).arguments))
           /\ Popped(m, Truncate(PopFrame(m), Top(m).arguments))
<1> DEFINE fs == SubSeq(m.frames, 1, Len(m.frames) - 1)
           st == SubSeq(m.stack, 1, Top(m).arguments)
           q == [m EXCEPT !.frames = fs, !.stack = st]
           t == IF Top(m).method = Cctor THEN end ELSE m.type
           b == IF Top(m).finalizer THEN FALSE ELSE m.processing
           r == [m EXCEPT !.frames = fs, !.stack = st, !.type = t, !.processing = b]
<1>1. m \in Machines /\ m.blocks = m.serial /\ StackInv(m.frames, m.stack, m.serial)
    BY MachineParts
<1>2. Top(m) = m.frames[Len(m.frames)]
    BY DEF Top, Depth
<1>3. StackInv(fs, st, m.serial)
    BY Zenon, <1>1, <1>2, FramePopped
<1>4. fs \in Seq(Frames) /\ st \in Seq(Value)
    BY <1>3 DEF StackInv
<1>5. Truncate(PopFrame(m), Top(m).arguments) = q
    BY <1>1 DEF Truncate, PopFrame, Depth, Machines
<1>6. Truncate(FrameEnds(PopFrame(m), Top(m), end), Top(m).arguments) = r
    BY ZenonT(60), <1>1 DEF Truncate, FrameEnds, PopFrame, Depth, Machines
<1> HIDE DEF fs, st, t, b
<1>7. /\ q \in Machines /\ q.frames = fs /\ q.stack = st /\ q.serial = m.serial
      /\ q.blocks = m.blocks /\ q.status = m.status
    BY Zenon, <1>1, <1>4 DEF Machines
<1>8. t \in {"uninit", "running", "done", "failed"} /\ b \in BOOLEAN
    BY Zenon, <1>1 DEF t, b, Machines
<1>9. /\ r \in Machines /\ r.frames = fs /\ r.stack = st /\ r.serial = m.serial
      /\ r.blocks = m.blocks /\ r.status = m.status
    BY Zenon, <1>1, <1>4, <1>8 DEF Machines
<1> HIDE DEF q, r
<1>10. MInv(q) /\ MInv(r)
    BY Zenon, <1>1, <1>3, <1>7, <1>9 DEF MInv
<1>11. Popped(m, q) /\ Popped(m, r)
    BY Zenon, <1>7, <1>9, <1>10 DEF Popped, fs, st
<1>12. QED
    BY Zenon, <1>5, <1>6, <1>11

(* The struct of result r is in a home of the current frame, its slot is one of
   the frame's own. *)
Receives(m, r) ==
    /\ Len(m.frames) > 0 /\ r.serial \in DOMAIN Top(m).homes
    /\ Top(m).homes[r.serial].value \in Content
    /\ r.slot \in 1..Len(m.stack) /\ r.slot > Top(m).arguments

(* A home of the current frame is the first one found. *)
LEMMA OwnHome ==
    ASSUME NEW m, MInv(m), Len(m.frames) > 0, NEW s \in DOMAIN Top(m).homes
    PROVE  Live(m, s) /\ HomeBlock(m, s) = Top(m).homes[s]
<1> DEFINE n == Len(m.frames)
<1>1. n \in Nat /\ n \in 1..n /\ Top(m) = m.frames[n]
    BY MachineParts, TopParts
<1>2. n \in FramesWith(m, s) /\ \A j \in FramesWith(m, s) : j \in 1..n
    BY Zenon, <1>1 DEF FramesWith, Depth
<1>3. \A j \in FramesWith(m, s) : j <= n
    BY <1>1, <1>2
<1> HIDE DEF n
<1>4. \A i \in FramesWith(m, s) : (\A j \in FramesWith(m, s) : j <= i) => i = n
    BY <1>1, <1>2, <1>3
<1>5. Owner(m, s) = n
    BY <1>2, <1>3, <1>4 DEF Owner
<1>6. Live(m, s)
    BY <1>2 DEF Live
<1>7. QED
    BY Zenon, <1>1, <1>5, <1>6 DEF HomeBlock

(* complete_constructor_receiver *)
LEMMA CompleteKeeps ==
    ASSUME NEW m, MInv(m), NEW r, r # NoResult => Receives(m, r)
    PROVE  /\ MInv(CompleteConstructor(m, r)) /\ CompleteConstructor(m, r).status = m.status
           /\ Len(CompleteConstructor(m, r).frames) = Len(m.frames)
<1>1. CASE r = NoResult
    BY <1>1 DEF CompleteConstructor
<1>2. CASE r # NoResult
  <2> DEFINE v == Struct(HomeBlock(m, r.serial).value)
             st == [m.stack EXCEPT ![r.slot] = v]
             q == [m EXCEPT !.stack = st]
  <2>1. /\ Len(m.frames) > 0 /\ r.serial \in DOMAIN Top(m).homes
        /\ Top(m).homes[r.serial].value \in Content
        /\ r.slot \in 1..Len(m.stack) /\ r.slot > Top(m).arguments
      BY Zenon, <1>2 DEF Receives
  <2>2. Live(m, r.serial) /\ HomeBlock(m, r.serial) = Top(m).homes[r.serial]
      BY Zenon, <2>1, OwnHome
  <2>3. v \in Value
    <3>1. v \in Structs
        BY Zenon, <2>1, <2>2 DEF Structs, Struct
    <3>2. QED
        BY <3>1 DEF Value
  <2>4. m \in Machines /\ m.stack \in Seq(Value) /\ Len(m.stack) \in Nat /\ m.frames \in Seq(Frames)
      BY MachineParts
  <2>5. CompleteConstructor(m, r) = q
      BY <1>2, <2>2 DEF CompleteConstructor
  <2> HIDE DEF v
  <2>6. st \in Seq(Value) /\ Len(st) = Len(m.stack) /\ \A k \in 1..Len(m.stack) : k # r.slot => st[k] = m.stack[k]
      BY <2>1, <2>3, <2>4
  <2> HIDE DEF st
  <2>7. /\ Top(m) \in Frames /\ Ends(Top(m)) = Len(st) /\ Top(m).arguments \in Nat
        /\ Top(m).arguments <= Len(m.stack) /\ Top(m) = m.frames[Len(m.frames)]
    <3>1. /\ Top(m) \in Frames /\ Ends(Top(m)) = Len(m.stack) /\ Top(m).arguments \in Nat
          /\ Top(m).base \in Nat /\ Top(m).height \in Nat /\ Top(m).arguments <= Top(m).base
          /\ Len(m.stack) = Top(m).base + Top(m).height /\ Top(m) = m.frames[Len(m.frames)]
        BY Zenon, <2>1, TopParts
    <3>2. Top(m).arguments <= Len(m.stack)
        BY Zenon, <3>1, Whole
    <3>3. QED
        BY Zenon, <2>6, <3>1, <3>2
  <2>8. \A k \in 1..Top(m).arguments : st[k] = m.stack[k]
      BY <2>1, <2>4, <2>6, <2>7
  <2>9. Kin(Top(m), Top(m))
      BY DEF Kin
  <2>10. InFrame(m, WithTop(q, Top(m)))
      BY <2>1, <2>6, <2>7, <2>8, <2>9, TopChanged, Zenon
  <2>11. q \in Machines /\ q.frames = m.frames
      BY <2>4, <2>6, StackParts
  <2> HIDE DEF q
  <2>12. WithTop(q, Top(m)) = q
    <3>1. [m.frames EXCEPT ![Len(m.frames)] = m.frames[Len(m.frames)]] = m.frames
        BY <2>4
    <3>2. WithTop(q, Top(m)) = [q EXCEPT !.frames = m.frames]
        BY <2>7, <2>11, <3>1 DEF WithTop, Depth
    <3>3. QED
        BY <2>11, <3>2 DEF Machines
  <2>13. QED
      BY Zenon, <2>5, <2>10, <2>12 DEF InFrame, Keeps
<1>3. QED
    BY Zenon, <1>1, <1>2

(* The conversion a reflected call left with the frame. *)
LEMMA ActionKeeps ==
    ASSUME NEW m, MInv(m)
    PROVE  /\ MInv(TakeAction(m)) /\ TakeAction(m).status \in {m.status, "aborted"}
           /\ Len(TakeAction(m).frames) = Len(m.frames)
<1> DEFINE g == [Top(m) EXCEPT !.action = "none"]
           q == WithTop(m, g)
<1>1. CASE Len(m.frames) = 0
    BY <1>1 DEF TakeAction, Depth
<1>2. CASE Len(m.frames) # 0
  <2>0. Len(m.frames) > 0
      BY <1>2, MachineParts
  <2>1. Top(m) \in Frames /\ Top(m).height \in Nat
      BY Zenon, <2>0, TopParts
  <2>2. g \in Frames /\ Like(Top(m), g)
      BY Zenon, <2>1, DutySet
  <2>3. \/ TakeAction(m) \in {m, Push(q, Null), Stop(q, "aborted")}
        \/ TakeAction(m) = Push(Drop(q, 1), Box(Last(m, 1)[1])) /\ Top(m).height # 0
      BY <1>2 DEF TakeAction, Depth
  <2> HIDE DEF g
  <2>4. InFrame(m, q) /\ Top(q) = g /\ q.stack = m.stack
      BY Zenon, <2>0, <2>2, TopLike
  <2>5. MInv(q) /\ Len(q.frames) = Len(m.frames) /\ q.status = m.status /\ Top(q).height = Top(m).height
      BY Zenon, <2>2, <2>4 DEF InFrame, Keeps, Like
  <2> HIDE DEF q
  <2>6. MInv(Push(q, Null)) /\ Push(q, Null).status = m.status /\ Len(Push(q, Null).frames) = Len(m.frames)
    <3>1. <<Null>> \in Seq(Value)
        BY PlainValues
    <3>2. InFrame(q, Push(q, Null))
        BY Zenon, <2>0, <2>5, <3>1, PushKeeps DEF Push
    <3>3. QED
        BY Zenon, <2>5, <3>2 DEF InFrame, Keeps
  <2>7. /\ MInv(Stop(q, "aborted")) /\ Stop(q, "aborted").status = "aborted"
        /\ Len(Stop(q, "aborted").frames) = Len(m.frames)
      BY Zenon, <2>5, StopKeeps DEF Statuses
  <2>8. ASSUME Top(m).height # 0
        PROVE  /\ MInv(Push(Drop(q, 1), Box(Last(m, 1)[1])))
               /\ Push(Drop(q, 1), Box(Last(m, 1)[1])).status = m.status
               /\ Len(Push(Drop(q, 1), Box(Last(m, 1)[1])).frames) = Len(m.frames)
    <3> DEFINE d == Drop(q, 1)
               v == Box(Last(m, 1)[1])
    <3>1. 1 <= Top(q).height /\ 1 <= Len(m.stack)
        BY <2>0, <2>1, <2>5, <2>8, TopParts
    <3>2. InFrame(q, d)
        BY <2>0, <2>5, <3>1, DropKeeps
    <3>3. MInv(d) /\ Len(d.frames) = Len(m.frames) /\ d.status = m.status
        BY Zenon, <2>5, <3>2 DEF InFrame, Keeps
    <3>4. v \in Value
        BY <3>1, LastOperands, BoxedValue
    <3> HIDE DEF d, v
    <3>5. <<v>> \in Seq(Value)
        BY <3>4
    <3>6. InFrame(d, Push(d, v))
        BY Zenon, <2>0, <3>3, <3>5, PushKeeps DEF Push
    <3>7. MInv(Push(d, v)) /\ Push(d, v).status = m.status /\ Len(Push(d, v).frames) = Len(m.frames)
        BY Zenon, <3>3, <3>6 DEF InFrame, Keeps
    <3>8. QED
        BY Zenon, <3>7 DEF d, v
  <2>9. CASE TakeAction(m) \in {m, Push(q, Null), Stop(q, "aborted")}
      BY <2>6, <2>7, <2>9
  <2>10. CASE TakeAction(m) = Push(Drop(q, 1), Box(Last(m, 1)[1])) /\ Top(m).height # 0
      BY <2>8, <2>10, Zenon
  <2>11. QED
      BY Zenon, <2>3, <2>9, <2>10
<1>3. QED
    BY <1>1, <1>2

(* What the popped frame returns goes on top of the stack, which has a frame or
   none; what is left of the frame below is as it was. *)
LEMMA GivenBack ==
    ASSUME NEW m, MInv(m), NEW v \in Value
    PROVE  LET r == NoteResult(Push(m, v), v)
           IN  /\ MInv(r) /\ r.status = m.status /\ Len(r.frames) = Len(m.frames)
               /\ Len(r.stack) = Len(m.stack) + 1
               /\ Len(m.frames) > 0 => Kin(Top(m), Top(r))
<1> DEFINE p == Push(m, v)
           r == NoteResult(p, v)
<1>1. <<v>> \in Seq(Value) /\ Len(<<v>>) = 1
    OBVIOUS
<1>2. Len(m.stack \o <<v>>) = Len(m.stack) + 1
    BY <1>1, MachineParts, Joined
<1>3. CASE Len(m.frames) > 0
  <2>1. InFrame(m, p) /\ p.stack = m.stack \o <<v>>
      BY Zenon, <1>1, <1>3, PushKeeps DEF Push
  <2>2. MInv(p) /\ Len(p.frames) > 0
      BY Zenon, <1>3, <2>1 DEF InFrame
  <2> HIDE DEF p
  <2>3. InFrame(p, r) /\ r.stack = p.stack
      BY Zenon, <2>2, NotesKeep, Bounds
  <2> HIDE DEF r
  <2>4. InFrame(m, r)
      BY Zenon, <2>1, <2>3, InFrameTwice
  <2>5. MInv(r) /\ r.status = m.status /\ Len(r.frames) = Len(m.frames) /\ Kin(Top(m), Top(r))
      BY Zenon, <2>4 DEF InFrame, Keeps
  <2>6. Len(r.stack) = Len(m.stack) + 1
      BY <1>2, <2>1, <2>3
  <2>7. QED
      BY Zenon, <2>5, <2>6 DEF r, p
<1>4. CASE ~(Len(m.frames) > 0)
  <2>1. Len(m.frames) = 0
      BY <1>4, MachineParts
  <2>2. MInv(p) /\ p.frames = m.frames /\ p.stack = m.stack \o <<v>> /\ Keeps(m, p)
      BY Zenon, <1>1, <2>1, BarePush DEF Push
  <2>3. r = p
      BY <2>1, <2>2 DEF NoteResult, Depth
  <2> HIDE DEF p
  <2>4. MInv(r) /\ r.status = m.status /\ Len(r.frames) = Len(m.frames) /\ Len(r.stack) = Len(m.stack) + 1
      BY Zenon, <1>2, <2>2, <2>3 DEF Keeps
  <2>5. QED
      BY <1>4, <2>4 DEF p
<1>5. QED
    BY Zenon, <1>3, <1>4

(* Under a frame that constructs a struct is the frame that receives it. *)
LEMMA ReceiverBelow ==
    ASSUME NEW m, MInv(m), Len(m.frames) > 0, Top(m).result # NoResult, NEW p, Popped(m, p)
    PROVE  /\ Receives(p, Top(m).result) /\ Top(p).height > 0
           /\ Top(m).result.slot = Len(p.stack) /\ p.stack[Len(p.stack)] = Hole
<1> DEFINE n == Len(m.frames)
           r == Top(m).result
           a == Top(m).arguments
<1>1. /\ n \in Nat /\ n \in 1..n /\ Top(m) = m.frames[n] /\ StackInv(m.frames, m.stack, m.serial)
      /\ m.frames \in Seq(Frames) /\ m.stack \in Seq(Value) /\ Len(m.stack) \in Nat
    BY MachineParts, TopParts
<1>2. ReceiversRight(m.frames, m.stack)
    BY Zenon, <1>1 DEF StackInv
<1>3. ReceiverRight(m.frames, m.stack, n, r)
    BY Zenon, <1>1, <1>2 DEF ReceiversRight
<1> HIDE DEF n, r
<1>4. /\ n > 1 /\ r.slot = m.frames[n].arguments /\ m.stack[r.slot] = Hole
      /\ r.slot \in 1..m.frames[n].arguments /\ r.slot > m.frames[n - 1].arguments
  <2>1. n \in 1..Len(m.frames)
      BY <1>1 DEF n
  <2>2. SlotRight(m.frames, m.stack, n, r)
      BY Zenon, <1>1, <1>3, <2>1, SlotOfCaller
  <2>3. QED
      BY Zenon, <2>2 DEF SlotRight
<1>5. /\ m.frames[n - 1].height > 0 /\ r.serial \in DOMAIN m.frames[n - 1].homes
      /\ m.frames[n - 1].homes[r.serial].value \in Content
    BY Zenon, <1>3 DEF ReceiverRight
<1>6. a \in 0..Len(m.stack) /\ a = m.frames[n].arguments
  <2>1. /\ Top(m).arguments \in Nat /\ Top(m).base \in Nat /\ Top(m).height \in Nat
        /\ Top(m).arguments <= Top(m).base /\ Len(m.stack) = Top(m).base + Top(m).height
      BY Zenon, TopParts
  <2>2. QED
      BY SMTT(30), <1>1, <2>1
<1> HIDE DEF a
<1>7. p.frames = SubSeq(m.frames, 1, n - 1) /\ p.stack = SubSeq(m.stack, 1, a)
    BY DEF Popped, n, a
<1>8. n - 1 \in 0..Len(m.frames)
    BY <1>1, <1>4 DEF n
<1>9. Len(p.frames) = n - 1 /\ \A i \in 1..(n - 1) : p.frames[i] = m.frames[i]
    BY <1>1, <1>7, <1>8, Prefix
<1>10. Len(p.stack) = a /\ \A k \in 1..a : p.stack[k] = m.stack[k]
    BY <1>1, <1>6, <1>7, Prefix
<1>11. Top(p) = m.frames[n - 1] /\ Len(p.frames) > 0
    BY <1>1, <1>4, <1>9 DEF Top, Depth
<1>12. r.slot = Len(p.stack) /\ r.slot \in 1..Len(p.stack) /\ p.stack[Len(p.stack)] = Hole
    BY Zenon, <1>4, <1>6, <1>10
<1>13. Receives(p, r)
    BY Zenon, <1>4, <1>5, <1>11, <1>12 DEF Receives
<1>14. QED
    BY Zenon, <1>5, <1>11, <1>12, <1>13 DEF r

(* return_frame *)
LEMMA ReturnKeeps ==
    ASSUME NEW m, MInv(m), Len(m.frames) > 0, m.status = "running",
           Returns(Top(m).method) => Len(m.stack) > 0
    PROVE  MInv(ReturnFrame(m)) /\ ReturnFrame(m).status \in {"running", "aborted"}
<1> DEFINE f == Top(m)
           v == m.stack[f.base + f.height]
           p == Truncate(FrameEnds(PopFrame(m), f, "done"), f.arguments)
           r == NoteResult(Push(p, v), v)
           g == IF Returns(f.method) THEN r ELSE p
           d == CompleteConstructor(g, f.result)
<1>1. Popped(m, p)
    BY Zenon, PopKeeps
<1>2. MInv(p) /\ p.status = "running" /\ Len(p.stack) \in Nat
    BY Zenon, <1>1, MachineParts DEF Popped
<1>3. f.result # NoResult => Receives(p, f.result)
    BY Zenon, <1>1, ReceiverBelow
<1>4. ReturnFrame(m) = IF d.status = "running" THEN TakeAction(d) ELSE d
    BY Zenon DEF ReturnFrame
<1> HIDE DEF p
<1>5. Returns(f.method) => /\ MInv(r) /\ r.status = "running" /\ Len(r.frames) = Len(p.frames)
                           /\ Len(r.stack) = Len(p.stack) + 1
                           /\ Len(p.frames) > 0 => Kin(Top(p), Top(r))
  <2> SUFFICES ASSUME Returns(f.method)
               PROVE  /\ MInv(r) /\ r.status = "running" /\ Len(r.frames) = Len(p.frames)
                      /\ Len(r.stack) = Len(p.stack) + 1
                      /\ Len(p.frames) > 0 => Kin(Top(p), Top(r))
      BY Zenon
  <2>1. v \in Value
    <3>1. f.base + f.height = Len(m.stack) /\ m.stack \in Seq(Value) /\ Len(m.stack) \in Nat
        BY Zenon, TopParts, MachineParts
    <3>2. Len(m.stack) \in 1..Len(m.stack)
        BY <3>1
    <3>3. QED
        BY Zenon, <3>1, <3>2, ElementsOf
  <2> HIDE DEF v
  <2>2. QED
      BY Zenon, <1>2, <2>1, GivenBack
<1> HIDE DEF v, r
<1>6. MInv(g) /\ g.status = "running" /\ (f.result # NoResult => Receives(g, f.result))
  <2>1. CASE Returns(f.method)
    <3>1. g = r
        BY <2>1
    <3>2. f.result # NoResult => Receives(r, f.result)
      <4> SUFFICES ASSUME f.result # NoResult PROVE Receives(r, f.result)
          BY Zenon
      <4>1. /\ Len(p.frames) > 0 /\ f.result.serial \in DOMAIN Top(p).homes
            /\ Top(p).homes[f.result.serial].value \in Content
            /\ f.result.slot \in 1..Len(p.stack) /\ f.result.slot > Top(p).arguments
          BY Zenon, <1>3 DEF Receives
      <4>2. /\ Len(r.frames) > 0 /\ Top(r).homes = Top(p).homes
            /\ Top(r).arguments = Top(p).arguments
          BY Zenon, <1>5, <2>1, <4>1 DEF Kin
      <4>3. f.result.slot \in 1..Len(r.stack)
        <5>1. \A k \in 1..Len(p.stack) : k \in 1..(Len(p.stack) + 1)
            BY Zenon, <1>2, OneMore
        <5>2. QED
            BY Zenon, <1>5, <2>1, <4>1, <5>1
      <4>4. QED
          BY Zenon, <4>1, <4>2, <4>3 DEF Receives
    <3>3. QED
        BY Zenon, <1>5, <2>1, <3>1, <3>2
  <2>2. CASE ~Returns(f.method)
      BY Zenon, <1>2, <1>3, <2>2
  <2>3. QED
      BY Zenon, <2>1, <2>2
<1> HIDE DEF g, f
<1>7. MInv(d) /\ d.status = "running"
    BY Zenon, <1>6, CompleteKeeps
<1> HIDE DEF d
<1>8. MInv(TakeAction(d)) /\ TakeAction(d).status \in {d.status, "aborted"}
    BY <1>7, ActionKeeps
<1>9. QED
    BY <1>4, <1>7, <1>8

(* handle_return *)
LEMMA ReturnGoes ==
    ASSUME NEW m, MInv(m), Len(m.frames) > 0, m.status = "running",
           Returns(Top(m).method) => Len(m.stack) > 0
    PROVE  Goes(HandleReturn(m))
<1> DEFINE r == ReturnFrame(m)
<1>1. MInv(r) /\ r.status \in {"running", "aborted"}
    BY Zenon, ReturnKeeps
<1>2. \/ HandleReturn(m) = r /\ r.status # "running"
      \/ HandleReturn(m) = Stop(r, "returned")
      \/ HandleReturn(m) \in {r, Advance(r)} /\ Len(r.frames) # 0
    BY Zenon DEF HandleReturn, Depth
<1> HIDE DEF r
<1>3. CASE HandleReturn(m) = r /\ r.status # "running"
    BY Zenon, <1>1, <1>3 DEF Goes, Grounded
<1>4. CASE HandleReturn(m) = Stop(r, "returned")
  <2>1. MInv(Stop(r, "returned")) /\ Stop(r, "returned").status = "returned"
      BY Zenon, <1>1, StopKeeps DEF Statuses
  <2>2. QED
      BY Zenon, <1>4, <2>1 DEF Goes, Grounded
<1>5. CASE HandleReturn(m) \in {r, Advance(r)} /\ Len(r.frames) # 0
  <2>1. Len(r.frames) > 0
      BY <1>1, <1>5, MachineParts
  <2>2. InFrame(r, r) /\ InFrame(r, Advance(r))
      BY <1>1, <2>1, InFrameSelf, AdvanceKeeps
  <2>3. Goes(r) /\ Goes(Advance(r))
      BY <2>1, <2>2, InFrameGoes
  <2>4. QED
      BY <1>5, <2>3
<1>6. QED
    BY Zenon, <1>2, <1>3, <1>4, <1>5

-----------------------------------------------------------------------------
(* Calls that keep or give a duty *)

(* The frame called from q is to leave its result res in the last operand of q's
   top frame under the arguments. *)
Awaits(q, c, res) ==
    /\ res \in [slot : Nat, serial : Nat] /\ Top(q).height > Args(c)
    /\ res.serial \in DOMAIN Top(q).homes /\ Top(q).homes[res.serial].value \in Content
    /\ res.slot = Len(q.stack) - Args(c) /\ q.stack[res.slot] = Hole

(* A call whose result is awaited there keeps the invariant (constructor_frame). *)
LEMMA ResultGiven ==
    ASSUME NEW q, MInv(q), Len(q.frames) > 0, NEW c \in Method, q.serial <= MaxSerial,
           NEW res, Awaits(q, c, res)
    PROVE  Goes(WithTop(CallFrame(q, c), [Top(CallFrame(q, c)) EXCEPT !.result = res]))
<1> DEFINE r == CallFrame(q, c)
           d == Drop(q, Args(c))
           g == [Top(r) EXCEPT !.result = res]
           w == WithTop(r, g)
           n == Len(r.frames)
<1>1. Args(c) \in Nat /\ Args(c) <= Top(q).height /\ Top(q).height \in Nat
  <2>1. Args(c) \in Nat /\ Top(q).height \in Nat /\ Top(q).height > Args(c)
      BY Zenon, Bounds, TopParts DEF Awaits
  <2>2. QED
      BY Zenon, <2>1, Order
<1>2. Called(q, r, c, d.frames)
    BY Zenon, <1>1, CallKeeps
<1>3. InFrame(q, d) /\ Top(d).height = Top(q).height - Args(c)
    BY <1>1, DropKeeps
<1>4. MInv(d) /\ Len(d.frames) > 0 /\ Top(d).homes = Top(q).homes
    BY Zenon, <1>3 DEF InFrame, Kin
<1>5. Top(d) = d.frames[Len(d.frames)] /\ Len(d.frames) \in Nat /\ d.frames \in Seq(Frames)
    BY Zenon, <1>4, MachineParts, TopParts
<1> HIDE DEF r, d
<1>6. /\ MInv(r) /\ r.frames = Append(d.frames, NewFrame(q, c)) /\ n = Len(d.frames) + 1
      /\ NewFrameRight(q, c, Top(r)) /\ \A k \in 1..Len(q.stack) : r.stack[k] = q.stack[k]
    BY Zenon, <1>2 DEF Called
<1>7. /\ r \in Machines /\ StackInv(r.frames, r.stack, r.serial) /\ r.blocks = r.serial
      /\ r.stack \in Seq(Value) /\ r.serial \in Nat /\ r.serial <= MaxSerial + 1
    BY Zenon, <1>6, MachineParts
<1>8. r.frames[n - 1] = Top(d) /\ n > 1 /\ n > 0
  <2>1. /\ Len(d.frames) + 1 > 1 /\ Len(d.frames) + 1 > 0
        /\ Append(d.frames, NewFrame(q, c))[(Len(d.frames) + 1) - 1] = d.frames[Len(d.frames)]
      BY Zenon, <1>4, <1>5, Under
  <2>2. QED
      BY Zenon, <1>5, <1>6, <2>1
<1>9. Top(r) = r.frames[n] /\ Top(r) \in Frames /\ Ends(Top(r)) = Len(r.stack) /\ n > 0
    BY Zenon, <1>6, <1>8, TopParts
<1>10. /\ g \in Frames /\ g.result = res /\ g.arguments = Top(r).arguments
       /\ g.below = Top(r).below /\ g.homes = Top(r).homes /\ Ends(g) = Ends(Top(r))
    BY <1>9, ResultSet DEF Awaits
<1> HIDE DEF g
<1>11. ReceiverRight(r.frames, r.stack, n, res)
  <2>1. Top(d).height > 0
      BY <1>1, <1>3 DEF Awaits
  <2>2. Top(r).arguments = Len(q.stack) - Args(c) /\ Top(r).arguments \in Nat
      BY Zenon, <1>6, <1>9, FrameSlots DEF NewFrameRight
  <2>3. res.slot \in 1..Len(q.stack)
    <3>1. Len(q.stack) = Top(q).base + Top(q).height /\ Top(q).base \in Nat
        BY Zenon, TopParts
    <3>2. QED
        BY SMTT(30), <1>1, <3>1 DEF Awaits
  <2>4. r.stack[res.slot] = Hole
      BY Zenon, <1>6, <2>3 DEF Awaits
  <2>5. QED
      BY Zenon, <1>4, <1>8, <1>9, <2>1, <2>2, <2>4 DEF ReceiverRight, Awaits
<1>12. Replaces(r.frames, r.stack, r.serial, g, r.stack, r.serial)
  <2>1. r.serial <= r.serial
      BY <1>7
  <2>2. QED
      BY Zenon, <1>9, <1>10, <1>11, <2>1 DEF Replaces
<1>13. r.serial \in 0..(MaxSerial + 1)
    BY <1>7, Bounds
<1>14. StackInv([r.frames EXCEPT ![n] = g], r.stack, r.serial)
    BY Zenon, <1>7, <1>10, <1>12, <1>13, TopReplaced
<1>15. /\ w \in Machines /\ w.frames = [r.frames EXCEPT ![n] = g] /\ w.stack = r.stack
       /\ w.serial = r.serial /\ w.blocks = r.blocks /\ Len(w.frames) = n
    BY Zenon, <1>7, <1>9, <1>10, WithTopParts
<1> HIDE DEF w, n
<1>16. MInv(w)
    BY Zenon, <1>7, <1>14, <1>15 DEF MInv
<1>17. Len(w.frames) > 0
    BY Zenon, <1>9, <1>15
<1>18. Goes(w)
    BY <1>16, <1>17, GoesOn
<1>19. QED
    BY <1>18 DEF w, g, r

(* What is called on top of the frame below the current one. *)
LEMMA PlaceTaken ==
    ASSUME NEW m, MInv(m), Len(m.frames) > 0, NEW vs \in Seq(Value)
    PROVE  LET p == Truncate(PopFrame(m), Top(m).arguments)
               q == PushAll(p, vs)
           IN  /\ Popped(m, p) /\ MInv(q) /\ Len(q.frames) = Len(p.frames) /\ q.status = m.status
               /\ q.serial = m.serial /\ q.stack = p.stack \o vs
               /\ Len(p.stack) \in Nat /\ Len(vs) \in Nat /\ Len(q.stack) = Len(p.stack) + Len(vs)
               /\ \A k \in 1..Len(p.stack) : q.stack[k] = p.stack[k]
               /\ Len(p.frames) > 0 => /\ InFrame(p, q) /\ Top(p).height \in Nat
                                       /\ Top(q).height = Top(p).height + Len(vs)
<1> DEFINE p == Truncate(PopFrame(m), Top(m).arguments)
           q == PushAll(p, vs)
<1>1. Popped(m, p)
    BY Zenon, PopKeeps
<1>2. MInv(p) /\ p.status = m.status /\ p.serial = m.serial
    BY Zenon, <1>1 DEF Popped
<1> HIDE DEF p
<1>3. p.stack \in Seq(Value) /\ Len(p.stack) \in Nat /\ Len(vs) \in Nat /\ Len(p.frames) \in Nat
    BY Zenon, <1>2, MachineParts, ElementsOf
<1>4. Len(p.stack \o vs) = Len(p.stack) + Len(vs) /\ \A k \in 1..Len(p.stack) : (p.stack \o vs)[k] = p.stack[k]
    BY <1>3, Joined
<1>5. CASE Len(p.frames) > 0
  <2>1. InFrame(p, q) /\ q.stack = p.stack \o vs /\ Top(q).height = Top(p).height + Len(vs)
      BY Zenon, <1>2, <1>5, PushKeeps
  <2>2. Top(p).height \in Nat
      BY Zenon, <1>2, <1>5, TopParts
  <2> HIDE DEF q
  <2>3. MInv(q) /\ Len(q.frames) = Len(p.frames) /\ q.status = m.status /\ q.serial = m.serial
      BY Zenon, <1>2, <2>1 DEF InFrame, Keeps
  <2>4. QED
      BY Zenon, <1>1, <1>3, <1>4, <2>1, <2>2, <2>3 DEF q, p
<1>6. CASE ~(Len(p.frames) > 0)
  <2>1. Len(p.frames) = 0
      BY <1>3, <1>6
  <2>2. MInv(q) /\ q.frames = p.frames /\ q.stack = p.stack \o vs /\ q.serial = p.serial /\ Keeps(p, q)
      BY Zenon, <1>2, <2>1, BarePush
  <2> HIDE DEF q
  <2>3. Len(q.frames) = Len(p.frames) /\ q.status = m.status /\ q.serial = m.serial
      BY Zenon, <1>2, <2>2 DEF Keeps
  <2>4. QED
      BY Zenon, <1>1, <1>3, <1>4, <1>6, <2>2, <2>3 DEF q, p
<1>7. QED
    BY Zenon, <1>5, <1>6

(* A tail call or a jmp: the frame is replaced. *)
LEMMA ReplaceGoes ==
    ASSUME NEW m, MInv(m), Len(m.frames) > 0, m.serial <= MaxSerial, NEW c \in Method,
           NEW vs \in Seq(Value), Len(vs) = Args(c)
    PROVE  Goes(Replace(m, vs, c))
<1> DEFINE p == Truncate(PopFrame(m), Top(m).arguments)
           q == PushAll(p, vs)
<1>1. /\ MInv(q) /\ Len(q.frames) = Len(p.frames) /\ q.serial = m.serial
      /\ Len(p.stack) \in Nat /\ Len(vs) \in Nat /\ Len(q.stack) = Len(p.stack) + Len(vs)
      /\ Len(p.frames) > 0 => Top(p).height \in Nat /\ Top(q).height = Top(p).height + Len(vs)
    BY Zenon, PlaceTaken
<1>2. Replace(m, vs, c) = LimitedCall(q, c)
    BY Zenon DEF Replace
<1> HIDE DEF p, q
<1>3. q.serial <= MaxSerial
    BY <1>1
<1>4. CASE Len(q.frames) > 0
  <2>1. Args(c) <= Top(q).height
      BY <1>1, <1>4
  <2>2. QED
      BY Zenon, <1>1, <1>2, <1>3, <1>4, <2>1, LimitedCallKeeps
<1>5. CASE ~(Len(q.frames) > 0)
  <2>1. Len(q.frames) = 0 /\ Args(c) <= Len(q.stack)
      BY <1>1, <1>5, MachineParts
  <2>2. Called(q, CallFrame(q, c), c, q.frames)
      BY Zenon, <1>1, <1>3, <2>1, BareCall
  <2>3. MInv(CallFrame(q, c)) /\ Len(CallFrame(q, c).frames) > 0
      BY <2>1, <2>2 DEF Called
  <2>5. Goes(CallFrame(q, c))
      BY Zenon, <2>3, GoesOn
  <2>6. MInv(Stop(q, "aborted")) /\ Stop(q, "aborted").status = "aborted"
      BY Zenon, <1>1, StopKeeps DEF Statuses
  <2>7. Goes(Stop(q, "aborted"))
      BY Zenon, <2>6 DEF Goes, Grounded
  <2>8. QED
      BY Zenon, <1>2, <2>5, <2>7 DEF LimitedCall
<1>6. QED
    BY Zenon, <1>4, <1>5

(* jmp: the frame that takes over takes the duty to return a struct as well. *)
LEMMA JumpGoes ==
    ASSUME NEW m, MInv(m), Len(m.frames) > 0, m.serial <= MaxSerial, NEW c \in Method,
           NEW vs \in Seq(Value), Len(vs) = Args(c), Replace(m, vs, c).status = "running"
    PROVE  LET r == Replace(m, vs, c) IN Goes(WithTop(r, [Top(r) EXCEPT !.result = Top(m).result]))
<1> DEFINE p == Truncate(PopFrame(m), Top(m).arguments)
           q == PushAll(p, vs)
           r == Replace(m, vs, c)
           res == Top(m).result
<1>1. /\ Popped(m, p) /\ MInv(q) /\ Len(q.frames) = Len(p.frames) /\ q.status = m.status
      /\ q.serial = m.serial /\ Len(p.stack) \in Nat /\ Len(vs) \in Nat
      /\ Len(q.stack) = Len(p.stack) + Len(vs) /\ \A k \in 1..Len(p.stack) : q.stack[k] = p.stack[k]
      /\ Len(p.frames) > 0 => /\ InFrame(p, q) /\ Top(p).height \in Nat
                              /\ Top(q).height = Top(p).height + Len(vs)
    BY Zenon, PlaceTaken
<1>2. r = LimitedCall(q, c)
    BY Zenon DEF Replace
<1>3. MInv(r)
    BY Zenon, ReplaceGoes DEF Goes
<1> HIDE DEF p, q, r
<1>4. r = CallFrame(q, c)
  <2>1. Stop(q, "aborted").status = "aborted"
      BY Zenon, <1>1, StopKeeps DEF Statuses
  <2>2. r # Stop(q, "aborted")
      BY <2>1 DEF r
  <2>3. QED
      BY Zenon, <1>2, <2>2 DEF LimitedCall
<1>5. Args(c) \in Nat /\ q.serial <= MaxSerial
    BY Zenon, <1>1, Bounds
<1>6. Called(q, r, c, Drop(q, Args(c)).frames) \/ Called(q, r, c, q.frames)
  <2>1. CASE Len(q.frames) > 0
    <3>1. Args(c) <= Top(q).height
        BY <1>1, <1>5, <2>1
    <3>2. QED
        BY Zenon, <1>1, <1>4, <1>5, <2>1, <3>1, CallKeeps
  <2>2. CASE ~(Len(q.frames) > 0)
    <3>1. Len(q.frames) = 0 /\ Args(c) <= Len(q.stack)
      <4>1. Len(q.frames) \in Nat
          BY Zenon, <1>1, MachineParts
      <4>2. Len(q.frames) = 0
          BY Zenon, <2>2, <4>1, Order
      <4>3. QED
          BY <1>1, <1>5, <4>2
    <3>2. QED
        BY Zenon, <1>1, <1>4, <1>5, <3>1, BareCall
  <2>3. QED
      BY Zenon, <2>1, <2>2
<1>7. CASE res = NoResult
  <2> DEFINE g == [Top(r) EXCEPT !.result = res]
  <2>1. NewFrameRight(q, c, Top(r))
      BY Zenon, <1>6 DEF Called
  <2>2. Top(r) \in Frames /\ Top(r).result = NoResult
      BY Zenon, <2>1 DEF NewFrameRight
  <2>3. g = Top(r)
      BY <1>7, <2>2 DEF Frames, Frame
  <2>4. Len(r.frames) > 0
      BY Zenon, <1>6, CalledTop
  <2>5. Like(Top(r), g)
      BY Zenon, <2>3 DEF Like, Kin
  <2> HIDE DEF g
  <2>6. InFrame(r, WithTop(r, g))
      BY Zenon, <1>3, <2>2, <2>3, <2>4, <2>5, TopLike
  <2>7. Goes(WithTop(r, g))
      BY Zenon, <2>4, <2>6, InFrameGoes
  <2>8. QED
      BY <2>7 DEF g, r
<1>8. CASE res # NoResult
  <2>1. /\ Receives(p, res) /\ Top(p).height > 0
        /\ res.slot = Len(p.stack) /\ p.stack[Len(p.stack)] = Hole
      BY Zenon, <1>1, <1>8, ReceiverBelow
  <2>2. Len(p.frames) > 0 /\ Len(q.frames) > 0
      BY Zenon, <1>1, <2>1 DEF Receives
  <2>3. Top(q).homes = Top(p).homes
      BY Zenon, <1>1, <2>2 DEF InFrame, Kin
  <2>4. res \in [slot : Nat, serial : Nat]
      BY Zenon, TopParts, FrameFacts
  <2>5. Awaits(q, c, res)
    <3>1. Top(q).height > Args(c) /\ res.slot = Len(q.stack) - Args(c)
      <4>1. /\ Top(q).height = Top(p).height + Args(c) /\ Len(q.stack) = Len(p.stack) + Args(c)
            /\ Top(p).height \in Nat /\ Len(p.stack) \in Nat
          BY Zenon, <1>1, <2>2
      <4>2. /\ Top(p).height + Args(c) > Args(c)
            /\ (Len(p.stack) + Args(c)) - Args(c) = Len(p.stack)
          BY Zenon, <1>5, <2>1, <4>1, Arithmetic
      <4>3. QED
          BY Zenon, <2>1, <4>1, <4>2
    <3>2. q.stack[res.slot] = Hole
        BY Zenon, <1>1, <2>1 DEF Receives
    <3>3. QED
        BY Zenon, <2>1, <2>3, <2>4, <3>1, <3>2 DEF Awaits, Receives
  <2>6. Goes(WithTop(r, [Top(r) EXCEPT !.result = res]))
      BY Zenon, <1>1, <1>4, <1>5, <2>2, <2>5, ResultGiven
  <2>7. QED
      BY <2>6 DEF r
<1>9. QED
    BY <1>7, <1>8

(* A home the caller of a constructor gains for the struct. *)
LEMMA StructHomed ==
    ASSUME NEW m, MInv(m), Len(m.frames) > 0, m.serial <= MaxSerial
    PROVE  LET s == m.serial + 1
               g == [Top(m) EXCEPT !.homes = Install(@, s, s, Null)]
               r == WithTop([m EXCEPT !.serial = s, !.blocks = @ + 1], g)
           IN  /\ MInv(r) /\ Len(r.frames) = Len(m.frames) /\ r.serial = s /\ r.stack = m.stack
               /\ Top(r).height = Top(m).height /\ s \in Serials
               /\ s \in DOMAIN Top(r).homes /\ Top(r).homes[s].value \in Content
<1> DEFINE s == m.serial + 1
           g == [Top(m) EXCEPT !.homes = Install(@, s, s, Null)]
           q == [m EXCEPT !.serial = s, !.blocks = @ + 1]
           r == WithTop(q, g)
           fs == m.frames
<1>1. /\ m \in Machines /\ StackInv(fs, m.stack, m.serial) /\ m.blocks = m.serial
      /\ m.serial \in Nat /\ m.stack \in Seq(Value) /\ Len(fs) \in Nat
    BY Zenon, MachineParts
<1>2. s \in Serials /\ s \in 0..(MaxSerial + 1) /\ s \in Nat /\ MaxSerial \in Nat
    BY SMTT(30), <1>1, Bounds DEF Serials
<1>3. Top(m) = fs[Len(fs)] /\ Top(m) \in Frames /\ Ends(Top(m)) = Len(m.stack) /\ Len(fs) \in 1..Len(fs)
    BY <1>1, TopParts
<1>4. \A x \in DOMAIN Top(m).homes : x < s
  <2>1. \A x \in DOMAIN Top(m).homes : x \in Nat /\ x <= m.serial
      BY Zenon, <1>1, <1>3, SerialsIssued
  <2>2. QED
      BY Zenon, <1>1, <2>1, Order
<1>5. /\ q \in Machines /\ q.frames = fs /\ q.stack = m.stack /\ q.serial = s /\ q.blocks = s
    BY Zenon, <1>1, <1>2 DEF Machines
<1> HIDE DEF q, s
<1>6. /\ g \in Frames /\ g.arguments = Top(m).arguments /\ g.base = Top(m).base
      /\ g.below = Top(m).below /\ g.result = Top(m).result /\ g.height = Top(m).height
      /\ DOMAIN g.homes = DOMAIN Top(m).homes \cup {s} /\ g.homes[s].value = Null
  <2> DEFINE f == Top(m)
  <2>1. f \in Frames /\ Null \in Value /\ \A x \in DOMAIN f.homes : x < s
      BY Zenon, <1>3, <1>4, PlainValues
  <2> HIDE DEF f
  <2>2. LET e == [f EXCEPT !.homes = Install(@, s, s, Null)]
        IN  /\ e \in Frames /\ e.method = f.method /\ e.arguments = f.arguments
            /\ e.base = f.base /\ e.below = f.below /\ e.result = f.result
            /\ e.height = f.height /\ DOMAIN e.homes = DOMAIN f.homes \cup {s}
            /\ e.homes[s].value = Null
      BY <1>2, <2>1, HomeAdded, ZenonT(60)
  <2>3. QED
      BY <2>2, Zenon DEF f
<1> HIDE DEF g
<1>7. /\ r \in Machines /\ r.frames = [fs EXCEPT ![Len(fs)] = g] /\ r.stack = m.stack
      /\ r.serial = s /\ r.blocks = s /\ Len(r.frames) = Len(fs) /\ Top(r) = g
  <2>1. /\ r \in Machines /\ r.frames = [q.frames EXCEPT ![Len(q.frames)] = g] /\ r.stack = q.stack
        /\ r.serial = q.serial /\ r.blocks = q.blocks /\ Len(r.frames) = Len(q.frames) /\ Top(r) = g
      BY Zenon, <1>5, <1>6, WithTopParts
  <2>2. QED
      BY Zenon, <1>5, <2>1
<1> HIDE DEF r
<1>8. Replaces(fs, m.stack, m.serial, g, m.stack, s)
  <2>1. Ends(g) = Len(m.stack)
      BY Zenon, <1>3, <1>6 DEF Ends
  <2>2. \A x \in DOMAIN g.homes : x \in DOMAIN fs[Len(fs)].homes \/ x \in (m.serial + 1)..s
    <3>1. s \in (m.serial + 1)..s
        BY <1>1 DEF s
    <3>2. QED
        BY Zenon, <1>3, <1>6, <3>1
  <2>3. m.serial <= s
      BY <1>1 DEF s
  <2>4. g.result # NoResult => ReceiverRight(fs, m.stack, Len(fs), g.result)
    <3>1. ReceiversRight(fs, m.stack)
        BY Zenon, <1>1 DEF StackInv
    <3>2. QED
        BY Zenon, <1>3, <1>6, <3>1 DEF ReceiversRight
  <2>5. QED
      BY Zenon, <1>3, <1>6, <2>1, <2>2, <2>3, <2>4 DEF Replaces
<1>9. StackInv([fs EXCEPT ![Len(fs)] = g], m.stack, s)
    BY Zenon, <1>1, <1>2, <1>6, <1>8, TopReplaced
<1>10. MInv(r)
    BY Zenon, <1>7, <1>9 DEF MInv
<1>11. g.homes[s].value \in Content
    BY Zenon, <1>6 DEF Content
<1>12. QED
    BY Zenon, <1>2, <1>6, <1>7, <1>10, <1>11 DEF r, q, g, s

(* prepare_constructor_receiver and constructor_frame *)
LEMMA ConstructorGoes ==
    ASSUME NEW m, MInv(m), Len(m.frames) > 0, m.serial < MaxSerial, NEW c \in Method,
           Args(c) > 0, Args(c) - 1 <= Top(m).height
    PROVE  Goes(ConstructorFrame(m, c))
<1> DEFINE params == Last(m, Args(c) - 1)
           d == Drop(m, Args(c) - 1)
           s == m.serial + 1
           h == WithTop([d EXCEPT !.serial = s, !.blocks = @ + 1],
                        [Top(d) EXCEPT !.homes = Install(@, s, s, Null)])
           vs == <<Hole, Byref(s, s)>> \o params
           q == PushAll(h, vs)
           res == [slot |-> Len(h.stack) + 1, serial |-> s]
<1>1. Args(c) \in Nat /\ Args(c) - 1 \in Nat /\ m.serial \in Nat /\ MaxSerial \in Nat /\ m.blocks = m.serial
    BY Zenon, Bounds, MachineParts, Order
<1>2. Args(c) - 1 <= Len(m.stack)
  <2>1. Top(m).base \in Nat /\ Top(m).height \in Nat /\ Len(m.stack) = Top(m).base + Top(m).height
      BY Zenon, TopParts
  <2> DEFINE n == Args(c) - 1
             base == Top(m).base
             height == Top(m).height
             size == Len(m.stack)
  <2>2. n \in Nat /\ n <= height /\ base \in Nat /\ height \in Nat /\ size = base + height
      BY Zenon, <1>1, <2>1
  <2> HIDE DEF n, base, height, size
  <2>3. n <= size
      BY <2>2
  <2>4. QED
      BY Zenon, <2>3 DEF n, size
<1>3. params \in Seq(Value) /\ Len(params) = Args(c) - 1
    BY Zenon, <1>1, <1>2, LastOperands
<1>4. InFrame(m, d)
    BY <1>1, DropKeeps
<1>5. MInv(d) /\ Len(d.frames) > 0 /\ d.serial = m.serial
    BY Zenon, <1>4 DEF InFrame
<1>6. ConstructorFrame(m, c) = WithTop(CallFrame(q, c), [Top(CallFrame(q, c)) EXCEPT !.result = res])
    BY <1>1 DEF ConstructorFrame, IssueHomeSerial
<1> HIDE DEF params, d
<1>7. /\ MInv(h) /\ Len(h.frames) > 0 /\ h.serial = s /\ s \in Serials
      /\ s \in DOMAIN Top(h).homes /\ Top(h).homes[s].value \in Content
  <2>1. d.serial <= MaxSerial
      BY <1>1, <1>5
  <2>2. QED
      BY Zenon, <1>5, <2>1, StructHomed
<1>8. h.stack \in Seq(Value) /\ Len(h.stack) \in Nat /\ Top(h).height \in Nat
    BY Zenon, <1>7, MachineParts, TopParts
<1> HIDE DEF h
<1>9. vs \in Seq(Value) /\ Len(vs) = Args(c) + 1 /\ vs[1] = Hole
  <2> DEFINE two == <<Hole, Byref(s, s)>>
  <2>1. two \in Seq(Value) /\ Len(two) = 2 /\ two[1] = Hole
      BY <1>7, PlainValues
  <2> HIDE DEF two, s
  <2>2. vs = two \o params
      BY DEF two
  <2> HIDE DEF vs
  <2>3. /\ vs \in Seq(Value) /\ Len(vs) = Len(two) + Len(params)
        /\ \A i \in 1..Len(two) : vs[i] = two[i]
      BY Zenon, <1>3, <2>1, <2>2, StacksJoined
  <2>4. QED
      BY <1>1, <1>3, <2>1, <2>3
<1> HIDE DEF vs, s
<1>10. /\ InFrame(h, q) /\ q.stack = h.stack \o vs /\ Top(q).height = Top(h).height + Len(vs)
    BY Zenon, <1>7, <1>9, PushKeeps
<1>11. MInv(q) /\ Len(q.frames) > 0 /\ q.serial = s /\ Top(q).homes = Top(h).homes
    BY Zenon, <1>7, <1>10 DEF InFrame, Kin
<1> HIDE DEF q
<1>12. q.serial <= MaxSerial /\ s \in Nat
    BY <1>1, <1>11 DEF s
<1>13. Awaits(q, c, res)
  <2>1. res \in [slot : Nat, serial : Nat] /\ res.slot = Len(h.stack) + 1 /\ res.serial = s
      BY <1>8, <1>12
  <2> HIDE DEF res
  <2>2. Len(q.stack) = Len(h.stack) + Len(vs) /\ q.stack[Len(h.stack) + 1] = vs[1]
    <3>1. /\ Len(q.stack) = Len(h.stack) + Len(vs)
          /\ \A i \in 1..Len(vs) : q.stack[Len(h.stack) + i] = vs[i]
      <4>1. /\ Len(h.stack \o vs) = Len(h.stack) + Len(vs)
            /\ \A i \in 1..Len(vs) : (h.stack \o vs)[Len(h.stack) + i] = vs[i]
        <5> DEFINE hs == h.stack
        <5>1. hs \in Seq(Value) /\ vs \in Seq(Value)
            BY Zenon, <1>8, <1>9
        <5> HIDE DEF hs
        <5>2. Len(hs \o vs) = Len(hs) + Len(vs) /\ \A i \in 1..Len(vs) : (hs \o vs)[Len(hs) + i] = vs[i]
            BY <5>1, Joined
        <5>3. QED
            BY Zenon, <5>2 DEF hs
      <4>2. QED
          BY <1>10, <4>1, Zenon
    <3>2. 1 \in 1..Len(vs)
        BY <1>1, <1>9
    <3>3. QED
        BY <3>1, <3>2, Zenon
  <2>3. Top(q).height > Args(c) /\ res.slot = Len(q.stack) - Args(c)
    <3>1. Top(q).height = Top(h).height + (Args(c) + 1) /\ Len(q.stack) = Len(h.stack) + (Args(c) + 1)
        BY Zenon, <1>9, <1>10, <2>2
    <3>2. /\ Top(h).height + (Args(c) + 1) > Args(c)
          /\ Len(h.stack) + 1 = (Len(h.stack) + (Args(c) + 1)) - Args(c)
        BY Zenon, <1>1, <1>8, ConstructorSlots
    <3>3. QED
        BY Zenon, <2>1, <3>1, <3>2
  <2>4. QED
      BY Zenon, <1>7, <1>9, <1>11, <2>1, <2>2, <2>3 DEF Awaits
<1> HIDE DEF res
<1>14. QED
    BY <1>6, <1>11, <1>12, <1>13, ResultGiven

(* Delegates: one target is dispatched, several get a frame of their own. *)
LEMMA DelegateGoes ==
    ASSUME NEW m, MInv(m), Len(m.frames) > 0, m.serial <= MaxSerial, Top(m).height >= 2,
           Last(m, 2)[1].k \in {"delegate", "null"}
    PROVE  Goes(InvokeDelegate(m))
<1> DEFINE v == Last(m, 2)[1]
           as == Last(m, 1)
           d == Drop(m, 2)
           q == PushAll(d, <<v>> \o as)
           r == CallFrame(q, Invoke)
           cast == [targets |-> v.targets, next |-> 0, args |-> as]
           w == WithTop(r, [Top(r) EXCEPT !.multicast = cast])
           p == PushAll(d, as)
<1>1. Len(m.stack) >= 2 /\ Len(m.stack) \in Nat /\ Top(m).height \in Nat
  <2>1. /\ Len(m.stack) \in Nat /\ Top(m).height \in Nat /\ Top(m).base \in Nat
        /\ Len(m.stack) = Top(m).base + Top(m).height
      BY Zenon, TopParts, MachineParts
  <2>2. 2 \in Nat
      OBVIOUS
  <2>3. QED
      BY Zenon, <2>1, <2>2, Whole
<1>2. v \in Value /\ as \in Seq(Value) /\ Len(as) = 1
  <2>1. 2 \in Nat /\ 1 \in Nat /\ 2 <= Len(m.stack) /\ 1 <= Len(m.stack) /\ 2 > 0
      BY <1>1
  <2>2. QED
      BY Zenon, <2>1, LastOperands
<1>3. InFrame(m, d)
    BY <1>1, DropKeeps
<1>4. MInv(d) /\ Len(d.frames) > 0 /\ d.serial <= MaxSerial /\ Top(d).height \in Nat
    BY Zenon, <1>3, TopParts DEF InFrame
<1>5. \/ InvokeDelegate(m) = Stop(d, "throwing")
      \/ v.k = "delegate" /\ InvokeDelegate(m) \in {w, Dispatch(p, v.targets[1])}
    BY DEF InvokeDelegate
<1> HIDE DEF v, as, d
<1>6. Goes(Stop(d, "throwing"))
  <2>1. MInv(Stop(d, "throwing")) /\ Len(Stop(d, "throwing").frames) > 0
      BY Zenon, <1>4, StopKeeps DEF Statuses
  <2>2. QED
      BY Zenon, <2>1, GoesOn
<1>7. ASSUME v.k = "delegate" PROVE Goes(Dispatch(p, v.targets[1]))
  <2>1. InFrame(d, p) /\ Top(p).height = Top(d).height + Len(as)
      BY Zenon, <1>2, <1>4, PushKeeps
  <2>2. MInv(p) /\ Len(p.frames) > 0 /\ p.serial <= MaxSerial
      BY Zenon, <1>4, <2>1 DEF InFrame
  <2> HIDE DEF p
  <2>3. v.targets \in Seq(Target) /\ Len(v.targets) > 0
      BY Zenon, <1>2, <1>7, TargetsOf
  <2>4. v.targets[1] \in Target
      BY <2>3
  <2>5. v.targets[1] \in Method /\ Args(v.targets[1]) <= Top(p).height
      BY <1>2, <1>4, <2>1, <2>4 DEF Target
  <2>6. QED
      BY Zenon, <2>2, <2>5, DispatchGoes
<1>8. ASSUME v.k = "delegate" PROVE Goes(w)
  <2>1. <<v>> \o as \in Seq(Value) /\ Len(<<v>> \o as) = 2
    <3>1. <<v>> \o as \in Seq(Value) /\ Len(<<v>> \o as) = 1 + Len(as)
        BY <1>2, InFront, ZenonT(60)
    <3> DEFINE vs == <<v>> \o as
    <3>2. vs \in Seq(Value) /\ Len(vs) = 1 + Len(as)
        BY <3>1, Zenon
    <3> HIDE DEF vs
    <3>3. vs \in Seq(Value) /\ Len(vs) = 2
        BY <1>2, <3>2
    <3>4. QED
        BY <3>3, Zenon DEF vs
  <2>2. InFrame(d, q) /\ Top(q).height = Top(d).height + 2
      BY Zenon, <1>4, <2>1, PushKeeps
  <2>3. MInv(q) /\ Len(q.frames) > 0 /\ q.serial <= MaxSerial
      BY Zenon, <1>4, <2>2 DEF InFrame
  <2> HIDE DEF q
  <2>4. Invoke \in Method /\ Args(Invoke) <= Top(q).height
      BY <1>4, <2>2, Bounds
  <2>5. Called(q, r, Invoke, Drop(q, Args(Invoke)).frames)
      BY Zenon, <2>3, <2>4, CallKeeps
  <2>7. MInv(r) /\ Len(r.frames) > 0 /\ NewFrameRight(q, Invoke, Top(r))
      BY Zenon, <2>5, CalledTop
  <2>8. Top(r) \in Frames /\ Top(r).method = Invoke
      BY Zenon, <2>7 DEF NewFrameRight
  <2> HIDE DEF r
  <2>9. cast \in Cast
    <3>1. v.targets \in Seq(Target)
        BY Zenon, <1>2, <1>8, TargetsOf
    <3>2. as[1] \in Value /\ as = <<as[1]>>
        BY <1>2, OneLong, Zenon
    <3>3. QED
        BY Zenon, <3>1, <3>2 DEF Cast
  <2> HIDE DEF cast
  <2> DEFINE g == [Top(r) EXCEPT !.multicast = cast]
  <2>10. g \in Frames /\ Like(Top(r), g)
      BY <2>8, <2>9, CastSet
  <2>11. w = WithTop(r, g)
      OBVIOUS
  <2> HIDE DEF g, w
  <2>12. InFrame(r, WithTop(r, g))
      BY Zenon, <2>7, <2>10, TopLike
  <2>13. QED
      BY Zenon, <2>7, <2>11, <2>12, InFrameGoes
<1>9. QED
    BY Zenon, <1>5, <1>6, <1>7, <1>8

-----------------------------------------------------------------------------
(* Steps *)

(* Where the machine is. *)
LEMMA AtMachine ==
    /\ Machine.frames = frames /\ Machine.stack = stack /\ Machine.serial = serial
    /\ Machine.type = type /\ Machine.processing = processing /\ Machine.status = status
    /\ Machine.blocks = blocks
  BY Zenon DEF Machine

(* A handler that leaves the machine as r leaves the variables so. *)
LEMMA Became ==
    ASSUME NEW r, MInv(r), Become(r)
    PROVE  Machine' = r
  BY Zenon DEF Become, Machine, MInv, Machines

(* Handlers that leave the heap alone keep the invariant when the machine does. *)
LEMMA StepKeeps ==
    ASSUME NEW r, IInv, Goes(r), Become(r), OnHeap
    PROVE  IInv'
<1>1. Machine' = r
    BY Zenon, Became DEF Goes
<1>2. (MInv(Machine) /\ Grounded(Machine))'
    BY <1>1 DEF Goes
<1>3. (pending \in Nat /\ died \in 0..MaxFinalizers /\ pending <= died)'
    BY DEF IInv, OnHeap
<1>4. QED
    BY Zenon, <1>2, <1>3 DEF IInv

(* An instruction of the current frame. *)
LEMMA Reading ==
    ASSUME NEW i, IInv, At(i)
    PROVE  /\ MInv(Machine) /\ Len(Machine.frames) > 0 /\ Machine.status = "running"
           /\ Len(frames) > 0 /\ i \in Instructions /\ Operands = Top(Machine).height
           /\ Operands \in Nat /\ Operands <= Len(Machine.stack)
<1>1. MInv(Machine)
    BY DEF IInv
<1>2. frames # <<>> /\ status = "running" /\ i \in Code(Top(Machine).method)
    BY Zenon DEF At
<1>3. frames \in Seq(Frames)
    BY Zenon, <1>1, MachineParts, AtMachine
<1>4. Len(frames) > 0
    BY <1>2, <1>3
<1>5. /\ Top(Machine).height \in Nat /\ Top(Machine).base \in Nat /\ Top(Machine).method \in Method
      /\ Len(Machine.stack) = Top(Machine).base + Top(Machine).height
    BY Zenon, <1>1, <1>4, AtMachine, TopParts
<1>6. i \in Instructions
    BY Zenon, <1>2, <1>5 DEF Instructions
<1>7. QED
    BY <1>1, <1>2, <1>4, <1>5, <1>6, AtMachine DEF Operands

(* What an instruction leaves settled, of operands only. *)
LEMMA SettleGoes ==
    ASSUME NEW m, NEW q, MInv(m), Len(m.frames) > 0, InFrame(m, q)
    PROVE  Goes(Settle(q))
<1>1. MInv(q) /\ Len(q.frames) > 0
    BY Zenon DEF InFrame
<1>2. InFrame(q, Settle(q))
    BY Zenon, <1>1, SettleKeeps
<1>3. QED
    BY Zenon, <1>1, <1>2, InFrameGoes

(* The frames stay with the machine stopped. *)
LEMMA StopGoes ==
    ASSUME NEW m, MInv(m), Len(m.frames) > 0, NEW why \in Statuses
    PROVE  Goes(Stop(m, why))
<1>1. MInv(Stop(m, why)) /\ Len(Stop(m, why).frames) > 0
    BY Zenon, StopKeeps
<1>2. QED
    BY Zenon, <1>1, GoesOn

(* Constants are loaded. *)
LEMMA LoadConstantKeeps ==
    ASSUME IInv, LoadConstant
    PROVE  IInv'
<1>1. PICK v \in Constants : /\ At(<<"load", v>>) /\ Operands < MaxOperands
                             /\ Become(Settle(Push(Machine, v))) /\ OnHeap
    BY Zenon DEF LoadConstant
<1>2. MInv(Machine) /\ Len(Machine.frames) > 0
    BY Zenon, <1>1, Reading
<1>3. v \in Value
    BY DEF Value
<1>4. <<v>> \in Seq(Value)
    BY <1>3
<1>5. InFrame(Machine, Push(Machine, v))
    BY Zenon, <1>2, <1>4, PushKeeps DEF Push
<1>6. Goes(Settle(Push(Machine, v)))
    BY <1>2, <1>5, SettleGoes
<1>7. QED
    BY Zenon, <1>1, <1>6, StepKeeps

(* An operand is popped. *)
LEMMA PopOperandKeeps ==
    ASSUME IInv, PopOperand
    PROVE  IInv'
<1>1. At(<<"pop">>) /\ Operands > 0 /\ Become(Settle(Drop(Machine, 1))) /\ OnHeap
    BY DEF PopOperand
<1>2. MInv(Machine) /\ Len(Machine.frames) > 0 /\ Operands = Top(Machine).height /\ Operands \in Nat
    BY Zenon, <1>1, Reading
<1>3. InFrame(Machine, Drop(Machine, 1))
  <2>1. 1 \in Nat /\ 1 <= Top(Machine).height
      BY <1>1, <1>2
  <2>2. QED
      BY <1>2, <2>1, DropKeeps, Zenon
<1>4. Goes(Settle(Drop(Machine, 1)))
    BY Zenon, <1>2, <1>3, SettleGoes
<1>5. QED
    BY <1>1, <1>4, StepKeeps

(* The first home of a frame whose method has one: its serial is its block's. *)
LEMMA FirstHome ==
    ASSUME NEW f \in Frames, Homed(f.method)
    PROVE  LET own == CHOOSE s \in DOMAIN f.homes : \A x \in DOMAIN f.homes : s <= x
           IN  own \in Serials /\ f.homes[own].block = own /\ f.homes[own].value \in Value
<1> DEFINE own == CHOOSE s \in DOMAIN f.homes : \A x \in DOMAIN f.homes : s <= x
<1>1. f.homes \in Homes /\ \E s \in DOMAIN f.homes : \A x \in DOMAIN f.homes : s <= x
    BY Zenon, FrameFacts DEF FrameRight
<1>2. own \in DOMAIN f.homes
    BY <1>1, Zenon
<1> HIDE DEF own
<1>3. /\ own \in Serials /\ f.homes[own] \in [block : Serials, value : Value]
      /\ f.homes[own].block = own
    BY Zenon, <1>1, <1>2, HomesFacts
<1>4. f.homes[own].value \in Value
    BY Zenon, <1>3
<1>5. QED
    BY Zenon, <1>3, <1>4 DEF own

(* ldarga, ldloca *)
LEMMA LoadAddressKeeps ==
    ASSUME IInv, LoadAddress
    PROVE  IInv'
<1> DEFINE homes == Top(Machine).homes
           own == CHOOSE s \in DOMAIN homes : \A x \in DOMAIN homes : s <= x
           v == Byref(own, homes[own].block)
<1>1. /\ At(<<"lda">>) /\ Homed(Top(Machine).method)
      /\ Become(Settle(Push(Machine, v))) /\ OnHeap
    BY Zenon DEF LoadAddress
<1>2. MInv(Machine) /\ Len(Machine.frames) > 0
    BY Zenon, <1>1, Reading
<1>3. Top(Machine) \in Frames
    BY Zenon, <1>2, TopParts
<1>4. own \in Serials /\ homes[own].block = own
    BY Zenon, <1>1, <1>3, FirstHome
<1> HIDE DEF own, homes
<1>5. <<v>> \in Seq(Value)
  <2>1. v \in Value
      BY Zenon, <1>4, PlainValues
  <2> HIDE DEF v
  <2>2. QED
      BY <2>1
<1> HIDE DEF v
<1>6. InFrame(Machine, Push(Machine, v))
    BY Zenon, <1>2, <1>5, PushKeeps DEF Push
<1>7. Goes(Settle(Push(Machine, v)))
    BY Zenon, <1>2, <1>6, SettleGoes
<1>8. QED
    BY Zenon, <1>1, <1>7, StepKeeps

(* A live serial is of one home, of one frame. *)
LEMMA LiveHome ==
    ASSUME NEW m, MInv(m), NEW s, Live(m, s)
    PROVE  /\ Owner(m, s) \in 1..Len(m.frames) /\ s \in DOMAIN m.frames[Owner(m, s)].homes
           /\ HomeBlock(m, s).value \in Value /\ HomeBlock(m, s).block = s
<1> DEFINE n == Len(m.frames)
           F == FramesWith(m, s)
           o == Owner(m, s)
<1>1. n \in Nat /\ m.frames \in Seq(Frames) /\ StackInv(m.frames, m.stack, m.serial)
    BY Zenon, MachineParts
<1>2. F = {i \in 1..n : s \in DOMAIN m.frames[i].homes}
    BY Zenon DEF FramesWith, Depth
<1>3. PICK i \in F : TRUE
    BY Zenon DEF Live
<1>4. HomesApart(m.frames)
    BY Zenon, <1>1 DEF StackInv
<1>5. \A j \in F : j = i
    BY Zenon, <1>2, <1>3, <1>4 DEF HomesApart
<1>6. \A j \in F : j <= i
    BY <1>1, <1>2, <1>3, <1>5
<1>7. o \in F
  <2>1. \E x \in F : \A j \in F : j <= x
      BY Zenon, <1>3, <1>6
  <2>2. QED
      BY <2>1, Zenon DEF Owner
<1> HIDE DEF F, o, n
<1>8. o \in 1..n /\ s \in DOMAIN m.frames[o].homes
    BY Zenon, <1>2, <1>7
<1>9. m.frames[o] \in Frames
    BY Zenon, <1>1, <1>8, ElementsOf DEF n
<1>10. m.frames[o].homes \in Homes
    BY Zenon, <1>9, FrameFacts
<1>11. m.frames[o].homes[s] \in [block : Serials, value : Value] /\ m.frames[o].homes[s].block = s
    BY Zenon, <1>8, <1>10, HomesFacts
<1>12. HomeBlock(m, s) = m.frames[o].homes[s]
    BY Zenon DEF HomeBlock, o
<1>13. m.frames[o].homes[s].value \in Value
    BY Zenon, <1>11
<1>14. QED
    BY Zenon, <1>8, <1>11, <1>12, <1>13 DEF o, n

(* A load through a byref. *)
LEMMA LoadIndirectKeeps ==
    ASSUME IInv, LoadIndirect
    PROVE  IInv'
<1> DEFINE b == Last(Machine, 1)[1]
           d == Drop(Machine, 1)
           v == HomeBlock(Machine, b.serial).value
<1>1. /\ At(<<"ldind">>) /\ Operands > 0 /\ OnHeap
      /\ Become(IF Live(Machine, b.serial) THEN Settle(Push(d, v)) ELSE Stop(Machine, "aborted"))
    BY Zenon DEF LoadIndirect
<1>2. MInv(Machine) /\ Len(Machine.frames) > 0 /\ Operands = Top(Machine).height /\ Operands \in Nat
    BY Zenon, <1>1, Reading
<1> HIDE DEF b
<1>3. Goes(Stop(Machine, "aborted"))
    BY Zenon, <1>2, StopGoes DEF Statuses
<1>4. ASSUME Live(Machine, b.serial) PROVE Goes(Settle(Push(d, v)))
  <2>1. 1 \in Nat /\ 1 <= Top(Machine).height
      BY <1>1, <1>2
  <2>2. InFrame(Machine, d)
      BY <1>2, <2>1, DropKeeps, Zenon
  <2>3. MInv(d) /\ Len(d.frames) > 0
      BY Zenon, <1>2, <2>2 DEF InFrame
  <2> HIDE DEF d
  <2>4. v \in Value
      BY Zenon, <1>2, <1>4, LiveHome
  <2> HIDE DEF v
  <2>5. <<v>> \in Seq(Value)
      BY <2>4
  <2>6. InFrame(d, Push(d, v))
      BY Zenon, <2>3, <2>5, PushKeeps DEF Push
  <2>7. QED
      BY Zenon, <2>3, <2>6, SettleGoes
<1>5. Goes(IF Live(Machine, b.serial) THEN Settle(Push(d, v)) ELSE Stop(Machine, "aborted"))
    BY <1>3, <1>4, Zenon
<1>6. QED
    BY <1>1, <1>5, StepKeeps, Zenon

(* A store through a byref. *)
LEMMA StoreIndirectKeeps ==
    ASSUME IInv, StoreIndirect
    PROVE  IInv'
<1> DEFINE b == Last(Machine, 1)[1]
           o == Owner(Machine, b.serial)
           q(v) == [Machine EXCEPT !.frames[o].homes[b.serial].value = v]
           r(v) == IF Live(Machine, b.serial) THEN Settle(Drop(q(v), 1)) ELSE Stop(Machine, "aborted")
<1>1. PICK v \in {c \in Constants : c.k = "data"} :
          At(<<"stind", v>>) /\ Operands > 0 /\ Become(r(v)) /\ OnHeap
    BY Zenon DEF StoreIndirect
<1>2. MInv(Machine) /\ Len(Machine.frames) > 0 /\ Operands = Top(Machine).height /\ Operands \in Nat
    BY Zenon, <1>1, Reading
<1>3. Goes(Stop(Machine, "aborted"))
    BY Zenon, <1>2, StopGoes DEF Statuses
<1>4. ASSUME Live(Machine, b.serial) PROVE Goes(Settle(Drop(q(v), 1)))
  <2> DEFINE s == b.serial
             fs == Machine.frames
             gs == [fs EXCEPT ![o].homes[s].value = v]
             p == q(v)
  <2> HIDE DEF b
  <2>1. o \in 1..Len(fs) /\ s \in DOMAIN fs[o].homes
      BY <1>2, <1>4, LiveHome, Zenon
  <2>2. /\ Machine \in Machines /\ StackInv(fs, Machine.stack, Machine.serial)
        /\ Machine.blocks = Machine.serial /\ fs \in Seq(Frames)
      BY Zenon, <1>2, MachineParts
  <2> HIDE DEF o, s
  <2>3. StackInv(gs, Machine.stack, Machine.serial)
      BY Zenon, <2>1, <2>2, HomeStored
  <2>4. p = [Machine EXCEPT !.frames = gs]
      BY <2>2 DEF Machines, s
  <2>5. gs \in Seq(Frames)
      BY Zenon, <2>3 DEF StackInv
  <2>6. Len(gs) = Len(fs)
      BY <2>2
  <2>7. fs[Len(fs)].height = gs[Len(fs)].height
      BY <1>2, <2>1, <2>2
  <2> HIDE DEF gs, p
  <2>8. p \in Machines /\ p.frames = gs /\ p.stack = Machine.stack /\ p.serial = Machine.serial /\ p.blocks = Machine.blocks
      BY Zenon, <2>2, <2>4, <2>5 DEF Machines
  <2>9. MInv(p) /\ Len(p.frames) > 0 /\ Top(p).height = Top(Machine).height
      BY Zenon, <1>2, <2>2, <2>3, <2>6, <2>7, <2>8 DEF MInv, Top, Depth
  <2>10. 1 \in Nat /\ 1 <= Top(p).height
      BY <1>1, <1>2, <2>9
  <2>11. InFrame(p, Drop(p, 1))
      BY <2>9, <2>10, DropKeeps, Zenon
  <2>12. Goes(Settle(Drop(p, 1)))
      BY Zenon, <2>9, <2>11, SettleGoes
  <2>13. QED
      BY Zenon, <2>12 DEF p
<1>5. Goes(r(v))
    BY <1>3, <1>4, Zenon
<1>6. QED
    BY <1>1, <1>5, StepKeeps, Zenon

(* A call. *)
LEMMA CallKeepsInv ==
    ASSUME IInv, Call
    PROVE  IInv'
<1>1. PICK c \in Method :
          /\ At(<<"call", c>>) /\ Operands >= Args(c) /\ Room
          /\ Become(Dispatch(Fetch(<<"call", c>>, Operands - Args(c) + Given(c)), c)) /\ OnHeap
    BY Zenon DEF Call
<1> DEFINE i == <<"call", c>>
           w == Operands - Args(c) + Given(c)
           m == Fetch(i, w)
<1>2. /\ MInv(Machine) /\ Len(frames) > 0 /\ i \in Instructions
      /\ Operands = Top(Machine).height /\ Operands \in Nat
    BY Zenon, <1>1, Reading
<1>3. w \in Int
    BY Zenon, <1>2, Bounds, GivenNatural, Order
<1> HIDE DEF i, w
<1>4. InFrame(Machine, m) /\ Top(m).height = Top(Machine).height
    BY Zenon, <1>2, <1>3, FetchKeeps
<1>5. serial < MaxSerial /\ Machine.frames = frames /\ Machine.serial = serial /\ serial \in Nat
    BY Zenon, <1>1, <1>2, AtMachine, MachineParts DEF Room
<1>6. MInv(m) /\ Len(m.frames) > 0 /\ m.serial <= MaxSerial
    BY Zenon, <1>2, <1>4, <1>5, Bounds, Arithmetic DEF InFrame
<1>7. Args(c) <= Top(m).height
    BY Zenon, <1>1, <1>2, <1>4, Bounds
<1> HIDE DEF m
<1>8. Goes(Dispatch(m, c))
    BY Zenon, <1>6, <1>7, DispatchGoes
<1>9. QED
    BY <1>1, <1>8, StepKeeps, Zenon DEF m, i, w

(* What a call instruction finds once it is read. *)
LEMMA Fetched ==
    ASSUME NEW i, IInv, At(i), Room, NEW w \in Int
    PROVE  LET m == Fetch(i, w)
           IN  /\ MInv(m) /\ Len(m.frames) > 0 /\ m.serial < MaxSerial /\ m.serial \in Nat
               /\ m.stack = Machine.stack /\ Top(m).height = Operands /\ m.status = "running"
               /\ m.type = type
<1> DEFINE m == Fetch(i, w)
<1>1. /\ MInv(Machine) /\ Len(frames) > 0 /\ i \in Instructions /\ Machine.status = "running"
      /\ Operands = Top(Machine).height
    BY Zenon, Reading
<1>2. InFrame(Machine, m) /\ m.stack = stack /\ Top(m).height = Top(Machine).height
    BY Zenon, <1>1, FetchKeeps
<1>3. /\ serial < MaxSerial /\ Machine.frames = frames /\ Machine.serial = serial
      /\ Machine.stack = stack /\ serial \in Nat /\ Machine.type = type
    BY Zenon, <1>1, AtMachine, MachineParts DEF Room
<1> HIDE DEF m
<1>4. QED
    BY Zenon, <1>1, <1>2, <1>3 DEF InFrame, Keeps, m

(* A tail call: in place, honored, or as a call. *)
LEMMA TailCallKeeps ==
    ASSUME IInv, TailCall
    PROVE  IInv'
<1> DEFINE i(c, b) == <<"tail", c, b>>
           w(c) == Operands - Args(c) + Given(c)
           m(c, b) == Fetch(i(c, b), w(c))
           r(c, b) == IF Intrinsic(c) THEN RunInPlace(m(c, b), c)
                      ELSE IF Honored(Top(Machine), c, b) THEN Replace(Machine, Last(Machine, Args(c)), c)
                      ELSE LimitedCall(m(c, b), c)
<1>1. PICK c \in Method, b \in BOOLEAN :
          At(i(c, b)) /\ Operands >= Args(c) /\ Room /\ Become(r(c, b)) /\ OnHeap
    BY Zenon DEF TailCall
<1> DEFINE ii == i(c, b)
           ww == w(c)
           mm == m(c, b)
<1>2. /\ MInv(Machine) /\ Len(Machine.frames) > 0 /\ Operands = Top(Machine).height
      /\ Operands \in Nat /\ Operands <= Len(Machine.stack)
    BY Zenon, <1>1, Reading
<1>3. ww \in Int /\ Args(c) \in Nat
    BY Zenon, <1>2, Bounds, GivenNatural, Order
<1> HIDE DEF ii, ww
<1>4. At(ii) /\ mm = Fetch(ii, ww)
    BY Zenon, <1>1 DEF ii, ww
<1> HIDE DEF mm
<1>5. /\ MInv(mm) /\ Len(mm.frames) > 0 /\ mm.serial < MaxSerial /\ mm.serial \in Nat
      /\ Top(mm).height = Operands
    BY Zenon, <1>1, <1>3, <1>4, Fetched
<1>6. Args(c) <= Top(mm).height /\ mm.serial <= MaxSerial
    BY Zenon, <1>1, <1>5, Bounds, Arithmetic
<1>7. Goes(RunInPlace(mm, c))
  <2>1. InFrame(mm, RunInPlace(mm, c))
      BY Zenon, <1>5, <1>6, RunInPlaceKeeps
  <2>2. QED
      BY Zenon, <1>5, <2>1, InFrameGoes
<1>8. Goes(LimitedCall(mm, c))
    BY Zenon, <1>5, <1>6, LimitedCallKeeps
<1>9. Goes(Replace(Machine, Last(Machine, Args(c)), c))
  <2>1. Machine.serial <= MaxSerial
      BY Zenon, <1>1, <1>2, AtMachine, MachineParts, Bounds, Arithmetic DEF Room
  <2>2. Args(c) <= Len(Machine.stack)
      BY <1>1, <1>2, <1>3, MachineParts
  <2>3. Last(Machine, Args(c)) \in Seq(Value) /\ Len(Last(Machine, Args(c))) = Args(c)
      BY Zenon, <1>2, <1>3, <2>2, LastOperands
  <2>4. QED
      BY Zenon, <1>2, <2>1, <2>3, ReplaceGoes
<1>10. Goes(r(c, b))
    BY <1>7, <1>8, <1>9, Zenon DEF mm
<1>11. QED
    BY <1>1, <1>10, StepKeeps, Zenon

(* The arguments a jmp hands on. *)
LEMMA ArgumentsOf ==
    ASSUME NEW m, MInv(m), Len(m.frames) > 0
    PROVE  Arguments(m) \in Seq(Value) /\ Len(Arguments(m)) = Args(Top(m).method)
<1> DEFINE f == Top(m)
           own == CHOOSE s \in DOMAIN f.homes : \A x \in DOMAIN f.homes : s <= x
           v(i) == IF i = 1 /\ Homed(f.method) THEN f.homes[own].value ELSE m.stack[f.arguments + i]
           n == Args(f.method)
<1>1. f \in Frames /\ f.method \in Method /\ m.stack \in Seq(Value) /\ Ends(f) = Len(m.stack)
    BY Zenon, TopParts, MachineParts
<1>2. Homed(f.method) => f.homes[own].value \in Value
    BY Zenon, <1>1, FirstHome
<1>3. /\ f.arguments \in Nat /\ f.base \in Nat /\ Ends(f) \in Nat /\ f.base <= Ends(f)
      /\ f.base = f.arguments + Args(f.method) + Locals(f.method)
      /\ n \in Nat /\ Locals(f.method) \in Nat
    BY Zenon, <1>1, FrameSlots, Bounds
<1>4. \A i \in 1..n : f.arguments + i \in 1..Len(m.stack)
  <2>1. f.arguments + n + Locals(f.method) <= Len(m.stack) /\ Len(m.stack) \in Nat
      BY Zenon, <1>1, <1>3
  <2>2. QED
      BY Zenon, <1>3, <2>1, ArgumentSlots
<1>5. \A i \in 1..n : m.stack[f.arguments + i] \in Value
    BY Zenon, <1>1, <1>4, ElementsOf
<1>6. Arguments(m) = [i \in 1..n |-> v(i)]
    BY Zenon DEF Arguments
<1>7. \A i \in 1..n : v(i) \in Value
    BY Zenon, <1>2, <1>5
<1> HIDE DEF v, n
<1>8. [i \in 1..n |-> v(i)] \in Seq(Value) /\ Len([i \in 1..n |-> v(i)]) = n
    BY <1>3, <1>7
<1>9. QED
    BY Zenon, <1>6, <1>8 DEF n

(* jmp *)
LEMMA JumpKeeps ==
    ASSUME IInv, Jump
    PROVE  IInv'
<1> DEFINE as == Arguments(Machine)
           r(c) == Replace(Machine, as, c)
           g(c) == WithTop(r(c), [Top(r(c)) EXCEPT !.result = Top(Machine).result])
           e(c) == IF r(c).status = "running" THEN g(c) ELSE r(c)
<1>1. PICK c \in Method : /\ At(<<"jmp", c>>) /\ Room /\ Args(c) = Args(Top(Machine).method)
                          /\ Become(e(c)) /\ OnHeap
    BY Zenon DEF Jump
<1>2. MInv(Machine) /\ Len(Machine.frames) > 0
    BY <1>1, Reading
<1>3. Machine.serial <= MaxSerial
    BY Zenon, <1>1, <1>2, AtMachine, MachineParts, Bounds, Arithmetic DEF Room
<1>4. as \in Seq(Value) /\ Len(as) = Args(c)
    BY <1>1, <1>2, ArgumentsOf
<1> HIDE DEF as
<1>5. Goes(r(c))
    BY Zenon, <1>2, <1>3, <1>4, ReplaceGoes
<1>6. r(c).status = "running" => Goes(g(c))
    BY <1>2, <1>3, <1>4, JumpGoes, Zenon
<1>7. Goes(e(c))
    BY <1>5, <1>6, Zenon
<1>8. QED
    BY <1>1, <1>7, StepKeeps, Zenon

(* newobj *)
LEMMA NewObjectKeeps ==
    ASSUME IInv, NewObject
    PROVE  IInv'
<1> DEFINE i(c) == <<"newobj", c>>
           w(c) == Operands - Args(c) + 2
           m(c) == Fetch(i(c), w(c))
           r(c) == IF Lazy(c) /\ type \in {"uninit", "failed"} THEN Dispatch(m(c), c)
                   ELSE ConstructorFrame(m(c), c)
<1>1. PICK c \in Method : At(i(c)) /\ Operands + 1 >= Args(c) /\ Room /\ Become(r(c)) /\ OnHeap
    BY Zenon DEF NewObject
<1> DEFINE mm == m(c)
           ww == w(c)
<1>2. MInv(Machine) /\ Len(Machine.frames) > 0 /\ Operands = Top(Machine).height /\ Operands \in Nat
    BY Zenon, <1>1, Reading
<1>3. ww \in Int /\ Args(c) \in Nat
    BY SMTT(30), <1>2, Bounds
<1>4. Args(c) > 0
  <2>1. i(c) \in Code(Top(Machine).method) /\ Top(Machine).method \in Method
      BY Zenon, <1>1, <1>2, TopParts DEF At
  <2>2. QED
      BY Zenon, <2>1, CallsAssumption
<1> HIDE DEF ww
<1>5. /\ MInv(mm) /\ Len(mm.frames) > 0 /\ mm.serial < MaxSerial /\ mm.serial \in Nat
      /\ Top(mm).height = Operands /\ mm.type = type
    BY Zenon, <1>1, <1>3, Fetched DEF ww
<1> HIDE DEF mm
<1>6. Args(c) - 1 <= Top(mm).height /\ mm.serial <= MaxSerial
  <2>1. \A x, y \in Nat : x + 1 >= y => y - 1 <= x
      OBVIOUS
  <2>2. Args(c) - 1 <= Operands
      BY Zenon, <1>1, <1>2, <1>3, <2>1
  <2>3. QED
      BY Zenon, <1>5, <2>2, Bounds, Arithmetic
<1>7. Goes(ConstructorFrame(mm, c))
    BY Zenon, <1>4, <1>5, <1>6, ConstructorGoes
<1>8. ASSUME Lazy(c), type \in {"uninit", "failed"} PROVE Goes(Dispatch(mm, c))
  <2>1. Goes(LimitedCall([mm EXCEPT !.type = "running"], Cctor)) /\ Goes(Stop(mm, "throwing"))
      BY <1>5, <1>6, TypeFirst
  <2>2. Dispatch(mm, c) \in {LimitedCall([mm EXCEPT !.type = "running"], Cctor), Stop(mm, "throwing")}
      BY <1>5, <1>8 DEF Dispatch
  <2>3. QED
      BY <2>1, <2>2
<1>9. Goes(r(c))
    BY <1>7, <1>8, Zenon DEF mm
<1>10. QED
    BY <1>1, <1>9, StepKeeps, Zenon

(* A delegate is invoked. *)
LEMMA CallDelegateKeeps ==
    ASSUME IInv, CallDelegate
    PROVE  IInv'
<1> DEFINE w == Operands - 1
           m == Fetch(<<"invoke">>, w)
<1>1. /\ At(<<"invoke">>) /\ Operands >= 2 /\ Room /\ Last(Machine, 2)[1].k \in {"delegate", "null"}
      /\ Become(InvokeDelegate(m)) /\ OnHeap
    BY Zenon DEF CallDelegate
<1>2. w \in Int
  <2>1. Operands \in Nat /\ 1 \in Nat
      BY Zenon, <1>1, Reading
  <2>2. QED
      BY Zenon, <2>1, Arithmetic
<1> HIDE DEF w
<1>3. /\ MInv(m) /\ Len(m.frames) > 0 /\ m.serial < MaxSerial /\ m.serial \in Nat
      /\ m.stack = Machine.stack /\ Top(m).height = Operands
    BY Zenon, <1>1, <1>2, Fetched
<1> HIDE DEF m
<1>4. m.serial <= MaxSerial /\ Top(m).height >= 2
    BY Zenon, <1>1, <1>3, Bounds, Arithmetic
<1>5. Last(m, 2)[1].k \in {"delegate", "null"}
    BY Zenon, <1>1, <1>3 DEF Last
<1>6. Goes(InvokeDelegate(m))
    BY Zenon, <1>3, <1>4, <1>5, DelegateGoes
<1>7. QED
    BY Zenon, <1>1, <1>6, StepKeeps

(* The result of a target that is not the last one goes. *)
LEMMA DiscardKeeps ==
    ASSUME NEW m, MInv(m), Len(m.frames) > 0
    PROVE  /\ InFrame(m, DiscardResult(m)) /\ Top(DiscardResult(m)).multicast = Top(m).multicast
           /\ Len(DiscardResult(m).stack) \in Nat
<1>1. Top(m).height \in Nat
    BY Zenon, TopParts
<1>2. CASE DiscardResult(m) = m
    BY Zenon, <1>2, InFrameSelf, MachineParts
<1>3. CASE DiscardResult(m) = Drop(m, 1) /\ Top(m).height > 0
  <2>1. 1 \in Nat /\ 1 <= Top(m).height
      BY <1>1, <1>3
  <2>2. InFrame(m, Drop(m, 1)) /\ Top(Drop(m, 1)).multicast = Top(m).multicast
      BY <2>1, DropKeeps, Zenon
  <2>3. MInv(Drop(m, 1))
      BY Zenon, <2>2 DEF InFrame
  <2>4. Len(Drop(m, 1).stack) \in Nat
      BY Zenon, <2>3, MachineParts
  <2>5. QED
      BY Zenon, <1>3, <2>2, <2>4
<1>4. QED
    BY Zenon, <1>2, <1>3 DEF DiscardResult

(* The next target of a multicast is picked, and invoked as a delegate of its own. *)
LEMMA TargetGoes ==
    ASSUME NEW m, MInv(m), Len(m.frames) > 0, m.serial <= MaxSerial, NEW cast, cast = Top(m).multicast,
           cast # NoCast, cast.next < Len(cast.targets)
    PROVE  LET picked == WithTop(m, [Top(m) EXCEPT !.multicast.next = @ + 1])
           IN  Goes(InvokeDelegate(
                   PushAll(picked, <<Delegate(<<cast.targets[cast.next + 1]>>)>> \o cast.args)))
<1> DEFINE c == [cast EXCEPT !.next = @ + 1]
           g == [Top(m) EXCEPT !.multicast = c]
           p == WithTop(m, g)
           t == cast.targets[cast.next + 1]
           v == Delegate(<<t>>)
           as == cast.args
           vs == <<v>> \o as
           q == PushAll(p, vs)
<1>1. Top(m) \in Frames /\ Top(m).method = Invoke /\ cast \in Cast
    BY Zenon, TopParts, FrameFacts DEF FrameRight
<1>2. /\ cast.targets \in Seq(Target) /\ cast.next \in Nat /\ as \in {<<x>> : x \in Value} /\ c \in Cast
    BY <1>1 DEF Cast
<1>3. t \in Target
    BY <1>2
<1>4. v \in Value /\ v.k = "delegate"
    BY Zenon, <1>3 DEF Value, Delegate
<1>5. as \in Seq(Value) /\ Len(as) = 1
  <2>1. PICK x \in Value : as = <<x>>
      BY Zenon, <1>2
  <2>2. <<x>> \in Seq(Value) /\ Len(<<x>>) = 1
      BY Zenon, OneElement
  <2>3. QED
      BY Zenon, <2>1, <2>2
<1>6. WithTop(m, [Top(m) EXCEPT !.multicast.next = @ + 1]) = p
  <2>1. [Top(m) EXCEPT !.multicast.next = @ + 1] = g
      BY <1>1 DEF Frames, Frame
  <2>2. QED
      BY <2>1, Zenon
<1> HIDE DEF c, t, v, as
<1>7. g \in Frames /\ Like(Top(m), g)
    BY <1>1, <1>2, CastSet
<1> HIDE DEF g
<1>8. InFrame(m, p)
    BY Zenon, <1>7, TopLike
<1>9. MInv(p) /\ Len(p.frames) > 0 /\ p.serial <= MaxSerial /\ Top(p).height \in Nat
    BY Zenon, <1>8, TopParts DEF InFrame
<1> HIDE DEF p
<1>10. vs \in Seq(Value) /\ Len(vs) = 1 + Len(as) /\ vs[1] = v
    BY ZenonT(60), <1>4, <1>5, InFront
<1> HIDE DEF vs
<1>11. Len(vs) = 2 /\ 2 \in Nat
    BY <1>5, <1>10
<1>12. InFrame(p, q) /\ q.stack = p.stack \o vs /\ Top(q).height = Top(p).height + Len(vs)
    BY Zenon, <1>9, <1>10, PushKeeps
<1>13. MInv(q) /\ Len(q.frames) > 0 /\ q.serial <= MaxSerial /\ Top(q).height >= 2
  <2>1. Top(q).height = Top(p).height + 2 /\ 2 <= Top(p).height + 2
      BY Zenon, <1>9, <1>11, <1>12, Arithmetic
  <2>2. MInv(q) /\ Len(q.frames) = Len(p.frames) /\ q.serial = p.serial
      BY Zenon, <1>12 DEF InFrame
  <2>3. QED
      BY Zenon, <1>9, <2>1, <2>2
<1>14. Last(q, 2)[1] = v
  <2> DEFINE ps == p.stack
  <2>1. ps \in Seq(Value) /\ Len(ps) \in Nat /\ vs \in Seq(Value)
      BY Zenon, <1>9, <1>10, MachineParts
  <2>2. q.stack = ps \o vs
      BY Zenon, <1>12
  <2> HIDE DEF ps, q
  <2>3. Len(q.stack) = Len(ps) + 2 /\ q.stack[Len(ps) + 1] = vs[1]
    <3>1. Len(ps \o vs) = Len(ps) + Len(vs) /\ \A i \in 1..Len(vs) : (ps \o vs)[Len(ps) + i] = vs[i]
        BY Zenon, <2>1, StacksJoined
    <3>2. 1 \in 1..Len(vs)
      <4>1. 1 \in 1..2
          OBVIOUS
      <4>2. QED
          BY Zenon, <1>11, <4>1
    <3>3. QED
        BY Zenon, <1>11, <2>2, <3>1, <3>2
  <2>4. 2 \in Nat /\ 2 <= Len(q.stack) /\ 2 > 0 /\ Len(q.stack) - 2 + 1 = Len(ps) + 1
      BY <2>1, <2>3
  <2>5. Last(q, 2)[1] = q.stack[Len(q.stack) - 2 + 1]
      BY Zenon, <1>13, <2>4, LastOperands
  <2>6. QED
      BY Zenon, <1>10, <2>3, <2>4, <2>5
<1>15. Goes(InvokeDelegate(q))
  <2>1. Last(q, 2)[1].k \in {"delegate", "null"}
      BY Zenon, <1>4, <1>14
  <2> HIDE DEF q
  <2>2. QED
      BY Zenon, <1>13, <2>1, DelegateGoes
<1>16. QED
    BY <1>6, <1>15, Zenon DEF vs, v, as, t

(* handle_multicast_step *)
LEMMA MulticastStepKeeps ==
    ASSUME IInv, MulticastStep
    PROVE  IInv'
<1> DEFINE m == DiscardResult(Machine)
           cast == Top(m).multicast
           picked == WithTop(m, [Top(m) EXCEPT !.multicast.next = @ + 1])
           r == InvokeDelegate(PushAll(picked, <<Delegate(<<cast.targets[cast.next + 1]>>)>> \o cast.args))
<1>1. /\ status = "running" /\ frames # <<>> /\ Top(Machine).multicast # NoCast /\ OnHeap
      /\ \/ cast.next < Len(cast.targets) /\ Room /\ Become(r)
         \/ Become(HandleReturn(m))
    BY DEF MulticastStep
<1>2. /\ MInv(Machine) /\ Machine.frames = frames /\ Machine.status = "running"
      /\ Machine.serial = serial /\ serial \in Nat /\ frames \in Seq(Frames)
    BY Zenon, <1>1, AtMachine, MachineParts DEF IInv
<1>3. Len(Machine.frames) > 0
    BY <1>1, <1>2
<1>4. InFrame(Machine, m) /\ cast = Top(Machine).multicast /\ Len(m.stack) \in Nat
    BY Zenon, <1>2, <1>3, DiscardKeeps
<1>5. MInv(m) /\ Len(m.frames) > 0 /\ m.serial = serial /\ m.status = "running"
    BY Zenon, <1>2, <1>3, <1>4 DEF InFrame, Keeps
<1> HIDE DEF m
<1>6. CASE cast.next < Len(cast.targets) /\ Room /\ Become(r)
  <2>1. m.serial <= MaxSerial
      BY <1>2, <1>5, <1>6, Bounds DEF Room
  <2>2. Goes(r)
      BY <1>1, <1>4, <1>5, <1>6, <2>1, TargetGoes, Zenon
  <2> HIDE DEF r
  <2>3. QED
      BY Zenon, <1>1, <1>6, <2>2, StepKeeps
<1>7. CASE Become(HandleReturn(m))
  <2>1. Top(m) \in Frames /\ cast # NoCast
      BY Zenon, <1>1, <1>4, <1>5, TopParts
  <2>2. Top(m).method = Invoke
      BY Zenon, <2>1, FrameFacts DEF FrameRight
  <2>3. /\ Top(m).arguments \in Nat /\ Top(m).base \in Nat /\ Ends(Top(m)) \in Nat
        /\ Top(m).base <= Ends(Top(m)) /\ Ends(Top(m)) = Len(m.stack)
        /\ Top(m).base = Top(m).arguments + Args(Invoke) + Locals(Invoke)
      BY Zenon, <1>5, <2>1, <2>2, FrameSlots, TopParts
  <2>4. Args(Invoke) = 2 /\ Locals(Invoke) \in Nat
      BY Zenon, Bounds
  <2>5. Len(m.stack) > 0
      BY <1>4, <2>3, <2>4
  <2>6. Goes(HandleReturn(m))
      BY Zenon, <1>5, <2>5, ReturnGoes
  <2>7. QED
      BY <1>1, <1>7, <2>6, StepKeeps
<1>8. QED
    BY <1>1, <1>6, <1>7

(* MethodBase.Invoke *)
LEMMA ReflectKeeps ==
    ASSUME IInv, Reflect
    PROVE  IInv'
<1> DEFINE as == Last(Machine, 1)[1].args
           m(c) == Fetch(<<"reflect", c>>, Operands)
           d(c) == Drop(m(c), 1)
           a(c) == IF Returns(c) THEN "value" ELSE "void"
           p(c) == WithTop(d(c), [Top(d(c)) EXCEPT !.action = a(c)])
           q(c) == PushAll(p(c), as)
<1>1. PICK c \in Method :
          /\ At(<<"reflect", c>>) /\ Operands > 0 /\ Room /\ Last(Machine, 1)[1].k = "packed"
          /\ Len(as) = Args(c) /\ Become(Dispatch(q(c), c)) /\ OnHeap
    BY Zenon DEF Reflect
<1> DEFINE mm == m(c)
           dd == d(c)
           g == [Top(dd) EXCEPT !.action = a(c)]
           pp == p(c)
           qq == q(c)
<1>2. MInv(Machine) /\ Operands \in Nat /\ Operands <= Len(Machine.stack)
    BY <1>1, Reading
<1>3. as \in Seq(Value)
  <2> DEFINE v == Last(Machine, 1)[1]
  <2>1. 1 \in Nat /\ 1 <= Len(Machine.stack) /\ 1 > 0
      BY <1>1, <1>2, MachineParts
  <2>2. v \in Value
      BY Zenon, <1>2, <2>1, LastOperands
  <2>3. v \in Constants
      BY <1>1, <2>2, KindOf
  <2>4. v.args \in Seq(Constants)
      BY Zenon, <1>1, <2>3, ConstantsAssumption
  <2> HIDE DEF v
  <2>5. Constants \subseteq Value
      BY Zenon DEF Value
  <2>6. v.args \in Seq(Value)
      BY <2>4, <2>5
  <2>7. QED
      BY <2>6 DEF v
<1> HIDE DEF as
<1>4. /\ MInv(mm) /\ Len(mm.frames) > 0 /\ mm.serial < MaxSerial /\ mm.serial \in Nat
      /\ Top(mm).height = Operands
  <2>1. Operands \in Int
      BY <1>2
  <2>2. QED
      BY <1>1, <2>1, Fetched
<1>5. 1 \in Nat /\ 1 <= Top(mm).height /\ mm.serial <= MaxSerial
  <2>1. 1 \in Nat /\ 1 <= Operands
      BY <1>1, <1>2
  <2>2. QED
      BY Zenon, <1>4, <2>1, Bounds, Arithmetic
<1>6. dd = Drop(mm, 1)
    OBVIOUS
<1> HIDE DEF mm, dd
<1>7. InFrame(mm, dd)
    BY <1>4, <1>5, <1>6, DropKeeps, Zenon
<1>8. MInv(dd) /\ Len(dd.frames) > 0 /\ dd.serial <= MaxSerial
    BY Zenon, <1>4, <1>5, <1>7 DEF InFrame
<1>9. g \in Frames /\ Like(Top(dd), g)
  <2>1. Top(dd) \in Frames /\ a(c) \in {"none", "void", "value"}
      BY Zenon, <1>8, TopParts
  <2>2. QED
      BY Zenon, <2>1, DutySet
<1>10. pp = WithTop(dd, g)
    BY DEF dd
<1> HIDE DEF g, pp
<1>11. InFrame(dd, pp)
    BY Zenon, <1>8, <1>9, <1>10, TopLike
<1>12. MInv(pp) /\ Len(pp.frames) > 0 /\ pp.serial <= MaxSerial /\ Top(pp).height \in Nat
    BY Zenon, <1>8, <1>11, TopParts DEF InFrame
<1>13. qq = PushAll(pp, as)
    BY DEF pp
<1> HIDE DEF qq
<1>14. InFrame(pp, qq) /\ Top(qq).height = Top(pp).height + Len(as)
    BY Zenon, <1>3, <1>12, <1>13, PushKeeps
<1>15. MInv(qq) /\ Len(qq.frames) > 0 /\ qq.serial <= MaxSerial
    BY Zenon, <1>12, <1>14 DEF InFrame
<1>16. Args(c) <= Top(qq).height
    BY SMTT(30), <1>1, <1>12, <1>14, Bounds
<1>17. Goes(Dispatch(qq, c))
    BY <1>15, <1>16, DispatchGoes
<1>18. QED
    BY <1>1, <1>17, StepKeeps, Zenon DEF qq

(* ret *)
LEMMA ReturnStepKeeps ==
    ASSUME IInv, Return
    PROVE  IInv'
<1>1. /\ At(Ret) /\ (Returns(Top(Machine).method) => Operands > 0)
      /\ Become(HandleReturn(Machine)) /\ OnHeap
    BY Zenon DEF Return
<1>2. /\ MInv(Machine) /\ Len(Machine.frames) > 0 /\ Machine.status = "running"
      /\ Operands \in Nat /\ Operands <= Len(Machine.stack)
    BY Zenon, <1>1, Reading
<1>3. Returns(Top(Machine).method) => Len(Machine.stack) > 0
    BY <1>1, <1>2, MachineParts
<1>4. Goes(HandleReturn(Machine))
    BY Zenon, <1>2, <1>3, ReturnGoes
<1>5. QED
    BY Zenon, <1>1, <1>4, StepKeeps

(* A frame that goes on has what it needs, one that throws too. *)
LEMMA InFlight ==
    ASSUME IInv, status \in {"running", "throwing"}
    PROVE  MInv(Machine) /\ Len(Machine.frames) > 0
<1>1. MInv(Machine) /\ Machine.frames # <<>> /\ Machine.frames \in Seq(Frames)
    BY Zenon, AtMachine, MachineParts DEF IInv, Grounded
<1>2. QED
    BY <1>1

(* The search and the unwinding of an exception. *)
LEMMA ExceptionKeeps ==
    ASSUME IInv, Throw \/ UnwindFrame \/ Unhandled
    PROVE  IInv'
<1>1. CASE Throw
  <2>1. MInv(Machine) /\ Len(Machine.frames) > 0
      BY Zenon, <1>1, Reading DEF Throw
  <2>2. Goes(Stop(Machine, "throwing"))
      BY Zenon, <2>1, StopGoes DEF Statuses
  <2>3. QED
      BY Zenon, <1>1, <2>2, StepKeeps DEF Throw
<1>2. CASE UnwindFrame
  <2> DEFINE f == Top(Machine)
             r == Truncate(FrameEnds(PopFrame(Machine), f, "failed"), f.arguments)
  <2>1. status = "throwing" /\ Depth(Machine) > 1 /\ Become(r) /\ OnHeap
      BY Zenon, <1>2 DEF UnwindFrame
  <2>2. MInv(Machine) /\ Len(Machine.frames) > 1 /\ Len(Machine.frames) > 0 /\ Machine.frames \in Seq(Frames)
      BY Zenon, <2>1, InFlight, MachineParts DEF Depth
  <2>3. Popped(Machine, r)
      BY Zenon, <2>2, PopKeeps
  <2> HIDE DEF r
  <2>4. MInv(r) /\ r.frames = SubSeq(Machine.frames, 1, Len(Machine.frames) - 1)
      BY Zenon, <2>3 DEF Popped
  <2>5. Len(r.frames) > 0
      BY <2>2, <2>4
  <2>6. Goes(r)
      BY Zenon, <2>4, <2>5, GoesOn
  <2>7. QED
      BY Zenon, <2>1, <2>6, StepKeeps
<1>3. CASE Unhandled
  <2>1. MInv(Machine) /\ Len(Machine.frames) > 0
      BY Zenon, <1>3, InFlight DEF Unhandled
  <2>2. Goes(Stop(Machine, "threw"))
      BY Zenon, <2>1, StopGoes DEF Statuses
  <2>3. QED
      BY Zenon, <1>3, <2>2, StepKeeps DEF Unhandled
<1>4. QED
    BY Zenon, <1>1, <1>2, <1>3

(* The frame that catches starts over with the exception as its only operand. *)
LEMMA CatchKeeps ==
    ASSUME IInv, Catch
    PROVE  IInv'
<1> DEFINE f == Top(Machine)
           st == SubSeq(Machine.stack, 1, f.base)
           g == [f EXCEPT !.height = 0]
           d == WithTop(Truncate(Machine, f.base), g)
           p == Push(d, This)
           q == Settle(p)
           r == [q EXCEPT !.status = "running"]
<1>1. status = "throwing" /\ Become(r) /\ OnHeap
    BY DEF Catch
<1>2. MInv(Machine) /\ Len(Machine.frames) > 0
    BY <1>1, InFlight
<1>3. /\ f \in Frames /\ f.arguments \in Nat /\ f.base \in Nat /\ f.height \in Nat
      /\ Len(Machine.stack) = f.base + f.height /\ f.arguments <= f.base
      /\ Machine.stack \in Seq(Value)
    BY Zenon, <1>2, TopParts, MachineParts
<1>4. f.base \in 0..Len(Machine.stack)
    BY <1>3
<1>5. st \in Seq(Value) /\ Len(st) = f.base /\ \A k \in 1..f.base : st[k] = Machine.stack[k]
    BY Zenon, <1>3, <1>4, Prefix
<1>6. g \in Frames /\ Kin(f, g) /\ g.height = 0
    BY Zenon, <1>3, HeightSet
<1>7. d = WithTop([Machine EXCEPT !.stack = st], g)
    BY DEF Truncate
<1> HIDE DEF g, st
<1>8. Ends(g) = Len(st) /\ \A k \in 1..g.arguments : st[k] = Machine.stack[k]
  <2>1. g.base = f.base /\ g.arguments = f.arguments /\ g.height = 0
      BY Zenon, <1>6 DEF Kin
  <2>2. f.base + 0 = f.base /\ \A k \in 1..f.arguments : k \in 1..f.base
      BY Zenon, <1>3, Order
  <2>3. QED
      BY Zenon, <1>5, <2>1, <2>2 DEF Ends
<1>9. InFrame(Machine, d)
    BY <1>2, <1>5, <1>6, <1>7, <1>8, TopChanged, Zenon
<1>10. MInv(d) /\ Len(d.frames) > 0
    BY Zenon, <1>2, <1>9 DEF InFrame
<1> HIDE DEF d
<1>11. InFrame(d, p)
  <2>1. <<This>> \in Seq(Value)
      BY PlainValues
  <2>2. QED
      BY Zenon, <1>10, <2>1, PushKeeps DEF Push
<1>12. MInv(p) /\ Len(p.frames) > 0
    BY Zenon, <1>10, <1>11 DEF InFrame
<1> HIDE DEF p
<1>13. MInv(q) /\ Len(q.frames) > 0
    BY Zenon, <1>12, SettleKeeps DEF InFrame
<1> HIDE DEF q
<1>14. Goes(r)
    BY Zenon, <1>13, StopGoes DEF Stop, Statuses
<1>15. QED
    BY <1>1, <1>14, StepKeeps

(* The frame of a finalizer, on top of a frame or of none. *)
LEMMA FinalizerGoes ==
    ASSUME NEW m, MInv(m), m.serial <= MaxSerial
    PROVE  MInv(FinalizerFrame(m)) /\ Len(FinalizerFrame(m).frames) > 0
<1> DEFINE p == Push(m, This)
           r == CallFrame(p, Finalizer)
           b == m.status # "throwing"
           g == [Top(r) EXCEPT !.finalizer = TRUE, !.searched = b]
           w == WithTop(r, g)
<1>1. <<This>> \in Seq(Value) /\ Len(<<This>>) = 1 /\ Finalizer \in Method /\ Args(Finalizer) = 1
    BY PlainValues, Bounds
<1>2. /\ Len(m.frames) \in Nat /\ m.stack \in Seq(Value) /\ Len(m.stack) \in Nat
      /\ Len(m.stack \o <<This>>) = Len(m.stack) + 1
  <2>1. Len(m.frames) \in Nat /\ m.stack \in Seq(Value) /\ Len(m.stack) \in Nat
      BY Zenon, MachineParts
  <2> DEFINE st == m.stack
  <2>2. st \in Seq(Value) /\ <<This>> \in Seq(Value) /\ Len(<<This>>) = 1
      BY Zenon, <1>1, <2>1
  <2> HIDE DEF st
  <2>3. Len(st \o <<This>>) = Len(st) + 1
      BY <2>2, Joined
  <2>4. QED
      BY Zenon, <2>1, <2>3 DEF st
<1>3. FinalizerFrame(m) = w
    BY DEF FinalizerFrame
<1>4. MInv(r) /\ Len(r.frames) > 0 /\ Top(r) \in Frames
  <2>1. CASE Len(m.frames) > 0
    <3>1. InFrame(m, p) /\ Top(p).height = Top(m).height + 1 /\ Top(m).height \in Nat
        BY Zenon, <1>1, <2>1, PushKeeps, TopParts DEF Push
    <3>2. MInv(p) /\ Len(p.frames) > 0 /\ p.serial <= MaxSerial /\ Args(Finalizer) <= Top(p).height
      <4>1. 1 \in Nat /\ 1 <= Top(m).height + 1
          BY Zenon, <3>1, Arithmetic
      <4>2. MInv(p) /\ Len(p.frames) = Len(m.frames) /\ p.serial = m.serial
          BY Zenon, <3>1 DEF InFrame
      <4>3. QED
          BY Zenon, <1>1, <2>1, <3>1, <4>1, <4>2
    <3> HIDE DEF p
    <3>3. Called(p, r, Finalizer, Drop(p, Args(Finalizer)).frames)
        BY Zenon, <1>1, <3>2, CallKeeps
    <3>4. QED
        BY Zenon, <3>3, CalledTop
  <2>2. CASE ~(Len(m.frames) > 0)
    <3>1. Len(m.frames) = 0
        BY <1>2, <2>2
    <3>2. MInv(p) /\ p.frames = m.frames /\ p.serial = m.serial /\ p.stack = m.stack \o <<This>>
        BY Zenon, <1>1, <3>1, BarePush DEF Push
    <3> HIDE DEF p
    <3>3. Args(Finalizer) <= Len(p.stack) /\ Len(p.frames) = 0 /\ p.serial <= MaxSerial
        BY <1>1, <1>2, <3>1, <3>2
    <3>4. Called(p, r, Finalizer, p.frames)
        BY Zenon, <1>1, <3>2, <3>3, BareCall
    <3>5. QED
        BY Zenon, <3>4, CalledTop
  <2>3. QED
      BY Zenon, <2>1, <2>2
<1> HIDE DEF r
<1>5. g \in Frames /\ Like(Top(r), g)
    BY Zenon, <1>4, DutySet
<1> HIDE DEF g
<1>6. InFrame(r, w)
    BY Zenon, <1>4, <1>5, TopLike
<1>7. MInv(w) /\ Len(w.frames) > 0
    BY Zenon, <1>4, <1>6 DEF InFrame
<1> HIDE DEF w
<1>8. QED
    BY <1>3, <1>7

(* process_pending_finalizers, the frame limit included. *)
LEMMA RunFinalizerKeeps ==
    ASSUME IInv, RunFinalizer
    PROVE  IInv'
<1> DEFINE m == [Machine EXCEPT !.processing = TRUE]
           e == FinalizerFrame(m)
           why == IF e.status = "returned" THEN "running" ELSE e.status
           r == IF Depth(m) + 1 > FrameLimit THEN Push(m, This) ELSE [e EXCEPT !.status = why]
<1>1. /\ status \in {"running", "throwing", "returned"} /\ pending > 0 /\ Room
      /\ pending' = pending - 1 /\ Become(r) /\ UNCHANGED died
    BY DEF RunFinalizer
<1>2. MInv(Machine) /\ Grounded(Machine) /\ Machine.serial = serial /\ Machine.status = status /\ serial \in Nat
    BY Zenon, AtMachine, MachineParts DEF IInv
<1>3. /\ MInv(m) /\ m.frames = Machine.frames /\ m.serial = Machine.serial /\ m.status = Machine.status
  <2>1. Machine \in Machines /\ StackInv(Machine.frames, Machine.stack, Machine.serial) /\ Machine.blocks = Machine.serial
      BY Zenon, <1>2, MachineParts
  <2>2. /\ m \in Machines /\ m.frames = Machine.frames /\ m.stack = Machine.stack
        /\ m.serial = Machine.serial /\ m.blocks = Machine.blocks /\ m.status = Machine.status
      BY Zenon, <2>1 DEF Machines
  <2>3. QED
      BY <2>1, <2>2 DEF MInv
<1> HIDE DEF m
<1>4. m.serial <= MaxSerial
    BY <1>1, <1>2, <1>3, Bounds DEF Room
<1>5. Goes([e EXCEPT !.status = why])
  <2>1. MInv(e) /\ Len(e.frames) > 0
      BY Zenon, <1>3, <1>4, FinalizerGoes
  <2> HIDE DEF e
  <2>2. e.status \in Statuses
      BY <2>1, MachineParts DEF Machines
  <2>3. why \in Statuses
      BY <2>2 DEF Statuses
  <2> HIDE DEF why
  <2>4. Goes(Stop(e, why))
      BY <2>1, <2>3, StopGoes
  <2>5. QED
      BY <2>4 DEF Stop
<1>6. Goes(Push(m, This))
  <2>1. <<This>> \in Seq(Value)
      BY PlainValues
  <2>2. CASE Len(m.frames) > 0
    <3>1. InFrame(m, Push(m, This))
        BY Zenon, <1>3, <2>1, <2>2, PushKeeps DEF Push
    <3>2. QED
        BY Zenon, <2>2, <3>1, InFrameGoes
  <2>3. CASE ~(Len(m.frames) > 0)
    <3>1. Len(m.frames) = 0 /\ m.frames \in Seq(Frames)
        BY <1>3, <2>3, MachineParts
    <3>2. MInv(Push(m, This)) /\ Keeps(m, Push(m, This))
        BY Zenon, <1>3, <2>1, <3>1, BarePush DEF Push
    <3>3. m.frames = <<>>
        BY <3>1
    <3>4. m.status \notin {"running", "throwing"}
        BY Zenon, <1>2, <1>3, <3>3 DEF Grounded
    <3>5. QED
        BY Zenon, <3>2, <3>4 DEF Goes, Grounded, Keeps
  <2>4. QED
      BY Zenon, <2>2, <2>3
<1>7. Goes(r)
    BY <1>5, <1>6, Zenon
<1> HIDE DEF r
<1>8. Machine' = r
    BY Zenon, <1>1, <1>7, Became DEF Goes
<1>9. (MInv(Machine) /\ Grounded(Machine))'
    BY Zenon, <1>7, <1>8 DEF Goes
<1>10. (pending \in Nat /\ died \in 0..MaxFinalizers /\ pending <= died)'
    BY <1>1, Bounds DEF IInv
<1>11. QED
    BY Zenon, <1>9, <1>10 DEF IInv

(* Steps of the heap, and the end of the thread. *)
LEMMA QuietKeeps ==
    ASSUME IInv, ObjectDies \/ Exit \/ UNCHANGED vars
    PROVE  IInv'
<1>1. CASE ObjectDies
  <2>1. Machine' = Machine
      BY Zenon, <1>1 DEF ObjectDies, Machine
  <2>2. (pending \in Nat /\ died \in 0..MaxFinalizers /\ pending <= died)'
      BY <1>1, Bounds DEF ObjectDies, IInv
  <2>3. (MInv(Machine) /\ Grounded(Machine))'
      BY <2>1 DEF IInv
  <2>4. QED
      BY Zenon, <2>2, <2>3 DEF IInv
<1>2. CASE Exit
  <2> DEFINE r == Stop(Machine, "exited")
  <2>1. MInv(r) /\ r.status = "exited" /\ MInv(Machine)
      BY Zenon, StopKeeps DEF IInv, Statuses
  <2>2. Become(r) /\ OnHeap
      BY <1>2, AtMachine DEF Exit, Become, OnHeap, Stop, Machine
  <2>3. Goes(r)
      BY Zenon, <2>1 DEF Goes, Grounded
  <2>4. QED
      BY Zenon, <2>2, <2>3, StepKeeps
<1>3. CASE UNCHANGED vars
  <2>1. Machine' = Machine /\ pending' = pending /\ died' = died
      BY Zenon, <1>3 DEF vars, Machine
  <2>2. QED
      BY Zenon, <2>1 DEF IInv
<1>4. QED
    BY Zenon, <1>1, <1>2, <1>3

(* The thread starts in the frame of its entry point. *)
LEMMA InitInv == Init => IInv
<1> SUFFICES ASSUME Init PROVE IInv
    OBVIOUS
<1> DEFINE m0 == [stack |-> <<>>, serial |-> 0, blocks |-> 0]
           g == NewFrame(m0, Entry)
           st == [i \in 1..Locals(Entry) |-> Null]
           se == IF Homed(Entry) THEN 1 ELSE 0
<1>1. /\ frames = <<g>> /\ stack = st /\ serial = se /\ blocks = se /\ type = "uninit"
      /\ processing = FALSE /\ pending = 0 /\ died = 0 /\ status = "running"
    BY Zenon DEF Init
<1>2. Entry \in Method /\ Args(Entry) = 0 /\ Locals(Entry) \in Nat /\ MaxSerial \in Nat /\ MaxFinalizers \in Nat
    BY Zenon, Bounds
<1>3. NewFrameRight(m0, Entry, g)
  <2>1. /\ m0.stack \in Seq(Value) /\ Len(m0.stack) >= Args(Entry) /\ m0.serial \in 0..MaxSerial
        /\ m0.blocks = m0.serial
      BY <1>2
  <2> HIDE DEF m0
  <2>2. QED
      BY Zenon, <1>2, <2>1, NewFrameOf
<1>4. /\ g \in Frames /\ g.result = NoResult /\ g.arguments = 0 /\ g.below = <<>>
      /\ Ends(g) = Locals(Entry) /\ \A s \in DOMAIN g.homes : s \in (0 + 1)..se
  <2>1. m0.stack = <<>> /\ m0.serial = 0 /\ Len(m0.stack) = 0
      BY Zenon
  <2> HIDE DEF m0, g
  <2>2. SubSeq(<<>>, 1, 0) = <<>>
      OBVIOUS
  <2>3. QED
      BY <1>2, <1>3, <2>1, <2>2 DEF NewFrameRight
<1>5. st \in Seq(Value) /\ Len(st) = Locals(Entry)
  <2>1. Null \in Value
      BY Zenon, PlainValues
  <2>2. QED
      BY Zenon, <1>2, <2>1, Constantly
<1>6. se \in 0..(MaxSerial + 1) /\ se \in Nat /\ 0 <= se /\ 0 \in 0..(MaxSerial + 1)
    BY <1>2
<1> HIDE DEF g, st, se
<1>7. StackInv(<<>>, <<>>, 0)
    BY <1>6 DEF StackInv, Meet, Ordered, BelowKept, HomesIssued, HomesApart, ReceiversRight
<1>8. Pushes(<<>>, <<>>, 0, g, st, se)
    BY <1>4, <1>5, <1>6 DEF Pushes
<1>9. StackInv(Append(<<>>, g), st, se)
    BY Zenon, <1>4, <1>5, <1>6, <1>7, <1>8, FramePushed
<1>10. Append(<<>>, g) = <<g>> /\ <<g>> \in Seq(Frames) /\ <<g>> # <<>>
    BY <1>4
<1>11. Machine \in Machines
    BY Zenon, <1>1, <1>5, <1>6, <1>10 DEF Machine, Machines, Statuses
<1>12. MInv(Machine)
    BY Zenon, <1>1, <1>9, <1>10, <1>11, AtMachine DEF MInv
<1>13. Grounded(Machine)
    BY Zenon, <1>1, <1>10, AtMachine DEF Grounded
<1>14. QED
    BY <1>1, <1>2, <1>12, <1>13 DEF IInv

(* Every step of the thread keeps its frames in order. *)
LEMMA NextInv == IInv /\ [Next]_vars => IInv'
<1> SUFFICES ASSUME IInv, [Next]_vars PROVE IInv'
    BY Zenon
<1>1. CASE LoadConstant
    BY Zenon, <1>1, LoadConstantKeeps
<1>2. CASE PopOperand
    BY <1>2, PopOperandKeeps
<1>3. CASE LoadAddress
    BY <1>3, LoadAddressKeeps
<1>4. CASE LoadIndirect
    BY <1>4, LoadIndirectKeeps
<1>5. CASE StoreIndirect
    BY <1>5, StoreIndirectKeeps
<1>6. CASE Call
    BY <1>6, CallKeepsInv
<1>7. CASE TailCall
    BY <1>7, TailCallKeeps
<1>8. CASE Jump
    BY <1>8, JumpKeeps
<1>9. CASE NewObject
    BY <1>9, NewObjectKeeps
<1>10. CASE CallDelegate
    BY <1>10, CallDelegateKeeps
<1>11. CASE MulticastStep
    BY <1>11, MulticastStepKeeps
<1>12. CASE Reflect
    BY <1>12, ReflectKeeps
<1>13. CASE Return
    BY <1>13, ReturnStepKeeps
<1>14. CASE Throw \/ UnwindFrame \/ Unhandled
    BY <1>14, ExceptionKeeps
<1>15. CASE Catch
    BY <1>15, CatchKeeps
<1>16. CASE RunFinalizer
    BY <1>16, RunFinalizerKeeps
<1>17. CASE ObjectDies \/ Exit \/ UNCHANGED vars
    BY Zenon, <1>17, QuietKeeps
<1>18. CASE Ended
    BY Zenon, <1>18, QuietKeeps DEF Ended
<1>19. QED
    BY <1>1, <1>2, <1>3, <1>4, <1>5, <1>6, <1>7, <1>8, <1>9, <1>10, <1>11, <1>12, <1>13,
       <1>14, <1>15, <1>16, <1>17, <1>18, Zenon DEF Next

-----------------------------------------------------------------------------
(* What the invariant says of the thread *)

(* Shapes. *)
LEMMA InvTyped == IInv => TypeOK
<1> SUFFICES ASSUME IInv PROVE TypeOK
    OBVIOUS
<1>1. /\ MInv(Machine) /\ Machine.frames = frames /\ Machine.stack = stack /\ Machine.serial = serial
      /\ Machine.blocks = blocks
    BY Zenon, AtMachine DEF IInv
<1>2. /\ StackInv(frames, stack, serial) /\ stack \in Seq(Value) /\ frames \in Seq(Frames)
      /\ serial \in Nat /\ serial <= MaxSerial + 1 /\ blocks = serial /\ MaxSerial \in Nat
      /\ Machine \in Machines
    BY Zenon, <1>1, MachineParts, Bounds
<1>3. \A i \in 1..Len(stack) : IsValue(stack[i])
  <2> SUFFICES ASSUME NEW v \in Value PROVE IsValue(v)
      BY Zenon, <1>2, ElementsOf
  <2>1. CASE v \in Constants
      BY <2>1 DEF IsValue
  <2>2. CASE v \in {Null, Hole, This}
      BY <2>2 DEF IsValue, Values, Null, Hole, This
  <2>3. CASE \E n \in Serials : v = Byref(n, n)
    <3>1. PICK n \in Serials : v = Byref(n, n)
        BY Zenon, <2>3
    <3>2. v \in Values
        BY Zenon, <3>1 DEF Values, Byref, Serials
    <3>3. QED
        BY Zenon, <3>2 DEF IsValue
  <2>4. CASE v \in Structs
      BY Zenon, <2>4 DEF IsValue, Structs
  <2>5. CASE v \in [k : {"boxed"}, content : Content \cup Structs]
      BY Zenon, <2>5 DEF IsValue
  <2>6. CASE \E t \in Target : v = Delegate(<<t>>)
      BY <2>6 DEF IsValue, Delegate
  <2>7. QED
      BY Zenon, <2>1, <2>2, <2>3, <2>4, <2>5, <2>6 DEF Value
<1>4. \A i \in 1..Len(frames) :
          /\ frames[i].method \in Method
          /\ {frames[i].arguments, frames[i].base, frames[i].height} \subseteq 0..Len(stack)
          /\ frames[i].action \in {"none", "void", "value"}
  <2> SUFFICES ASSUME NEW i \in 1..Len(frames), NEW f, f = frames[i]
               PROVE  /\ f.method \in Method /\ f.action \in {"none", "void", "value"}
                      /\ {f.arguments, f.base, f.height} \subseteq 0..Len(stack)
      BY Zenon
  <2>1. f \in Frames /\ Len(stack) \in Nat /\ Ends(f) <= Len(stack)
      BY Zenon, <1>2, FramesInStack
  <2>2. /\ f.arguments \in Nat /\ f.base \in Nat /\ f.height \in Nat
        /\ f.arguments <= f.base /\ Ends(f) = f.base + f.height
      BY Zenon, <2>1, FrameSlots
  <2>3. f.arguments \in 0..Len(stack) /\ f.base \in 0..Len(stack) /\ f.height \in 0..Len(stack)
      BY <2>1, <2>2
  <2>4. QED
      BY Zenon, <2>1, <2>3, FrameFacts
<1>5. serial \in 0..MaxSerial + 1 /\ blocks \in 0..MaxSerial + 1
    BY <1>2
<1>6. /\ type \in {"uninit", "running", "done", "failed"} /\ processing \in BOOLEAN
      /\ status \in {"running", "throwing", "returned", "exited", "threw", "aborted"}
    BY Zenon, <1>2, AtMachine DEF Machines, Statuses
<1>7. pending \in 0..MaxFinalizers /\ died \in 0..MaxFinalizers
    BY Bounds DEF IInv
<1>8. QED
    BY Zenon, <1>3, <1>4, <1>5, <1>6, <1>7 DEF TypeOK

(* Slots, homes and receivers. *)
LEMMA InvSound == IInv => FramesSound
<1> SUFFICES ASSUME IInv PROVE FramesSound
    OBVIOUS
<1>1. /\ MInv(Machine) /\ Machine.frames = frames /\ Machine.stack = stack /\ Machine.serial = serial
    BY Zenon, AtMachine DEF IInv
<1>2. StackInv(frames, stack, serial) /\ stack \in Seq(Value) /\ frames \in Seq(Frames)
    BY Zenon, <1>1, MachineParts
<1>3. FramesContiguous
  <2>1. Meet(frames, stack)
      BY Zenon, <1>2 DEF StackInv
  <2>2. QED
      BY Zenon, <2>1 DEF FramesContiguous, Meet, Ends
<1>4. CallersUntouched
  <2> SUFFICES ASSUME NEW i \in 1..Len(frames)
               PROVE  SubSeq(stack, 1, frames[i].arguments) = frames[i].below
      BY DEF CallersUntouched
  <2> DEFINE n == frames[i].arguments
             b == frames[i].below
             p == SubSeq(stack, 1, n)
  <2>1. /\ frames[i] \in Frames /\ n \in Nat /\ Len(stack) \in Nat /\ Ends(frames[i]) \in Nat
        /\ n <= Ends(frames[i]) /\ Ends(frames[i]) <= Len(stack)
      BY Zenon, <1>2, FramesInStack
  <2>2. n \in 0..Len(stack)
      BY <2>1
  <2>3. b \in Seq(Value) /\ Len(b) = n
      BY Zenon, <2>1, FrameFacts, FrameSlots
  <2>4. p \in Seq(Value) /\ Len(p) = n /\ \A k \in 1..n : p[k] = stack[k]
      BY Zenon, <1>2, <2>2, Prefix
  <2>5. BelowKept(frames, stack)
      BY Zenon, <1>2 DEF StackInv
  <2>6. \A k \in 1..n : stack[k] = b[k]
      BY Zenon, <2>5 DEF BelowKept
  <2> HIDE DEF p, b, n
  <2>7. \A k \in 1..n : p[k] = b[k]
      BY Zenon, <2>4, <2>6
  <2>8. p = b
      BY Zenon, <2>3, <2>4, <2>7, SameSequence
  <2>9. QED
      BY <2>8 DEF p, b, n
<1>5. HomesNotConfused
  <2> SUFFICES ASSUME NEW j \in 1..Len(stack), stack[j].k = "byref", Live(Machine, stack[j].serial)
               PROVE  HomeBlock(Machine, stack[j].serial).block = stack[j].block
      BY Zenon DEF HomesNotConfused, Byrefs
  <2>1. stack[j] \in Value
      BY Zenon, <1>2, ElementsOf
  <2>2. PICK n \in Serials : stack[j] = Byref(n, n)
      BY Zenon, <2>1, KindOf
  <2>3. stack[j].serial = stack[j].block
    <3>1. Byref(n, n).serial = n /\ Byref(n, n).block = n
        BY Zenon, ByrefParts
    <3>2. QED
        BY Zenon, <2>2, <3>1
  <2>4. QED
      BY Zenon, <1>1, <2>3, LiveHome
<1>6. ReceiverStaysLive
  <2>1. ReceiversRight(frames, stack)
      BY Zenon, <1>2 DEF StackInv
  <2>2. QED
      BY Zenon, <2>1 DEF ReceiverStaysLive, ReceiversRight, ReceiverRight
<1>7. TypeOK
    BY InvTyped
<1>8. QED
    BY <1>3, <1>4, <1>5, <1>6, <1>7 DEF FramesSound, WellFormed, StorageHolds, HomesHold

(* For every program, signature and depth of calls: the frames share the
   evaluation stack without gap or overlap, what a caller left below a callee's
   arguments is there when it returns, a byref reaches the home it was taken of or
   none, and a struct under construction stays in a live home of the caller, its
   slot untouched, through calls, tail calls, jmp, delegates, reflection,
   finalizers and unwinding (FrameStack, FrameHomes). *)
THEOREM FramesStaySound == Spec => []FramesSound
<1>1. Init => IInv
    BY InitInv
<1>2. IInv /\ [Next]_vars => IInv'
    BY NextInv
<1>3. IInv => FramesSound
    BY InvSound
<1>4. QED
    BY <1>1, <1>2, <1>3, PTL DEF Spec
=============================================================================
