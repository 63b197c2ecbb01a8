---------------------------- MODULE PInvokeProofs ----------------------------
(* Proofs about PInvoke: for any threads, objects, libraries and native calls,   *)
(* what native code is given stays in place, pins end with their call, one       *)
(* handle of a library stays open, write backs move no byte, and calls wait for  *)
(* one another without end only because of ref arguments.                        *)
EXTENDS PInvoke, TLAPS

-----------------------------------------------------------------------------
(* The inductive invariant. *)

Places == {"enter", "find", "load", "insert", "bind", "marshal", "restore", "done"}
CallsOf(t) == {p[t] : p \in Programs}
IsSeq(s) == s \in Seq({s[i] : i \in DOMAIN s})

(* An invocation is a record with these fields, whatever they hold. *)
Fields == {"call", "at", "next", "buffers", "backs", "restored", "pins", "guards", "bound",
           "returned", "outcome", "operands", "value"}
Shaped(r) == r = [f \in Fields |-> r[f]]

(* The counters of a call: a buffer for each argument that has been marshalled. *)
CountersOK(r) ==
    /\ Shaped(r) /\ r.at \in Places
    /\ r.next \in Nat /\ 1 <= r.next /\ r.next <= Len(r.call.args) + 1
    /\ IsSeq(r.buffers) /\ Len(r.buffers) = r.next - 1
    /\ IsSeq(r.backs) /\ r.restored \in Nat /\ r.restored <= Len(r.backs)
    /\ r.at \in {"enter", "find", "load", "insert", "bind"} =>
          r.next = 1 /\ r.backs = <<>> /\ r.pins = {} /\ r.guards = {}
    /\ r.at = "restore" => r.next > Len(r.call.args)

(* What has been handed out is guarded and pinned until the call ends, and it is *)
(* an argument; a note to write back is of a ref argument and of its buffer.     *)
EscapesOK(t, r) ==
    /\ \A i \in DOMAIN r.buffers : r.buffers[i].to \in HeapObjects =>
          /\ OwnerOf[r.buffers[i].to] = t
          /\ \E a \in DOMAIN r.call.args : GivenWhole(r.call.args[a], r.buffers[i].to)
          /\ r.at # "done" => r.buffers[i].to \in r.guards
    /\ r.guards \subseteq r.pins
    /\ r.at = "done" => r.guards = {}
    /\ \A k \in DOMAIN r.backs :
          /\ r.backs[k].buffer \in DOMAIN r.buffers
          /\ \E a \in DOMAIN r.call.args : r.backs[k].arg = r.call.args[a]
          /\ r.backs[k].arg.is = "ManagedPtr" /\ r.backs[k].arg.type = "Ref"
          /\ r.backs[k].arg.origin = "Heap" => r.backs[k].arg.o \in r.pins

Escaping(r) == \E a \in DOMAIN r.call.args : EscapesArena(r.call.args[a])

(* Before it ends a call has pinned exactly what it noted. *)
PinsOK(r, pinned) ==
    /\ r.at # "done" => pinned = r.call.handles \cup r.pins
    /\ r.call.handles \ r.pins \subseteq pinned
    /\ r.at = "done" /\ (r.next > Len(r.call.args) \/ r.outcome = "Exception")
         => pinned = r.call.handles \ r.pins
    /\ Escaping(r) => r.at \in {"enter", "done"} /\ r.pins = {} /\ pinned = r.call.handles

ThreadInv ==
    /\ invocations = [t \in Threads |-> Here(t)]
    /\ pinnedBy = [t \in Threads |-> pinnedBy[t]]
    /\ \A t \in Threads :
          /\ Here(t).call \in CallsOf(t)
          /\ CountersOK(Here(t)) /\ EscapesOK(t, Here(t)) /\ PinsOK(Here(t), pinnedBy[t])

(* A handle in the table is open; a thread that has loaded a library has not yet *)
(* entered it; one that has not loaded it has no handle open.                    *)
LibraryOK(t, r, table, handles) ==
    LET h == <<r.call.library, t>>
    IN  /\ r.at = "insert" => h \in handles /\ table[r.call.library] # h
        /\ r.at \in {"enter", "find", "load"} => h \notin handles
        /\ r.at = "bind" => table[r.call.library] # NoHandle
        /\ r.bound # NoHandle => r.bound = table[r.call.library]
HandleKept(h) ==
    \E t \in Threads : h = HandleOf(t) /\ (cached[h[1]] = h \/ Here(t).at = "insert")
LibraryInv ==
    /\ cached = [l \in DOMAIN Installed |-> cached[l]]
    /\ \A l \in DOMAIN Installed : cached[l] # NoHandle => cached[l] \in open /\ cached[l][1] = l
    /\ \A t \in Threads : LibraryOK(t, Here(t), cached, open)
    /\ \A h \in open : HandleKept(h)

(* The objects that some call gives whole to native code. *)
Given == {o \in HeapObjects : \E t \in Threads : Gives(t, GivenWhole, o)}

(* A byte is the one that was there or, in an object that some call gives whole, *)
(* one that native code has stored.                                              *)
ByteOK(given, o, i, byte) == byte = i \/ (byte = Written /\ o \in given)
(* The word kept for a ref argument is, as far as the object goes, of its bytes. *)
WordOK(given, back, word) ==
    BehindLock(back) =>
        \A j \in 1 .. Word :
            back.arg.offset + j <= PayloadSize => ByteOK(given, back.arg.o, back.arg.offset + j, word[j])
WordsOK(given, r) ==
    \A k \in DOMAIN r.backs : WordOK(given, r.backs[k], r.buffers[r.backs[k].buffer].bytes)
BytesOK(given, bytes) ==
    /\ bytes = [o \in HeapObjects |-> [i \in 1 .. PayloadSize |-> bytes[o][i]]]
    /\ \A o \in HeapObjects : \A i \in 1 .. PayloadSize : ByteOK(given, o, i, bytes[o][i])
MemoryInv == BytesOK(Given, payload) /\ \A t \in Threads : WordsOK(Given, Here(t))

(* At most one writer queues for an object, and it is there to write back. *)
QueuedOK(r, o, left) ==
    /\ r.at = "restore" /\ r.restored < Len(r.backs)
    /\ LET back == r.backs[r.restored + 1]
       IN  /\ BehindLock(back) /\ o = back.arg.o
           /\ ~(back.arg.origin = "Cross" /\ OwnerOf[back.arg.o] \in left)
QueueInv ==
    /\ queued = [t \in Threads |-> queued[t]]
    /\ \A t \in Threads : queued[t] # None =>
          /\ QueuedOK(Here(t), queued[t], gone)
          /\ \A u \in Threads : queued[u] = queued[t] => u = t

IInv == ThreadInv /\ LibraryInv /\ MemoryInv /\ QueueInv

-----------------------------------------------------------------------------
(* What a step changes of an invocation. *)

(* Only its place, the function it has bound or what native code has returned. *)
Advanced(r, s) ==
    /\ Shaped(s) /\ s.call = r.call /\ s.next = r.next /\ s.buffers = r.buffers /\ s.backs = r.backs
    /\ s.restored = r.restored /\ s.pins = r.pins /\ s.guards = r.guards /\ s.outcome = r.outcome
Ended(r, s) ==
    /\ Shaped(s) /\ s.call = r.call /\ s.next = r.next /\ s.buffers = r.buffers /\ s.backs = r.backs
    /\ s.restored = r.restored /\ s.pins = r.pins /\ s.bound = r.bound
    /\ s.at = "done" /\ s.guards = {}
Extended(r, s, buffer, pin, guard, backs) ==
    /\ Shaped(s) /\ s.call = r.call /\ s.at = r.at /\ s.bound = r.bound /\ s.restored = r.restored
    /\ s.outcome = r.outcome
    /\ s.next = r.next + 1 /\ s.buffers = Append(r.buffers, buffer) /\ s.backs = r.backs \o backs
    /\ s.pins = r.pins \cup pin /\ s.guards = r.guards \cup guard
Restored(r, s) ==
    /\ Shaped(s) /\ s.call = r.call /\ s.at = r.at /\ s.next = r.next /\ s.buffers = r.buffers
    /\ s.backs = r.backs /\ s.pins = r.pins /\ s.guards = r.guards /\ s.bound = r.bound
    /\ s.outcome = r.outcome /\ s.restored = r.restored + 1

(* The record updates of the actions. *)
AtBound(r, place, handle) == [r EXCEPT !.at = place, !.bound = handle]
AtReturned(r, place, bits) == [r EXCEPT !.at = place, !.returned = bits]
AtEnd(r, outcome, operands, value) ==
    [r EXCEPT !.at = "done", !.guards = {}, !.outcome = outcome, !.operands = operands, !.value = value]
WithBuffer(r, buffer, pin, guard, backs) ==
    [r EXCEPT !.next = @ + 1, !.buffers = Append(@, buffer), !.pins = @ \cup pin,
              !.guards = @ \cup guard, !.backs = @ \o backs]

(* They are these changes: the call goes on to its next place. *)
LEMMA AtUpdate ==
    ASSUME NEW r, Shaped(r), NEW place, NEW s, s = [r EXCEPT !.at = place]
    PROVE  Advanced(r, s) /\ s.at = place /\ s.bound = r.bound
BY DEF Shaped, Fields, Advanced

(* The function is bound: the place and the handle change. *)
LEMMA BoundUpdate ==
    ASSUME NEW r, Shaped(r), NEW place, NEW handle, NEW s, s = AtBound(r, place, handle)
    PROVE  Advanced(r, s) /\ s.at = place /\ s.bound = handle
BY Zenon DEF Shaped, Fields, Advanced, AtBound

(* The native code returns: the place and the result change. *)
LEMMA ReturnedUpdate ==
    ASSUME NEW r, Shaped(r), NEW place, NEW bits, NEW s, s = AtReturned(r, place, bits)
    PROVE  Advanced(r, s) /\ s.at = place /\ s.bound = r.bound
BY Zenon DEF Shaped, Fields, Advanced, AtReturned

(* The call ends (EndIn). *)
LEMMA EndUpdate ==
    ASSUME NEW r, Shaped(r), NEW outcome, NEW operands, NEW value, NEW s,
           s = AtEnd(r, outcome, operands, value)
    PROVE  Ended(r, s) /\ s.outcome = outcome
<1>1. Shaped(s)
    BY Zenon DEF Shaped, AtEnd
<1>2. s.at = "done" /\ s.guards = {} /\ s.outcome = outcome
    BY DEF Shaped, Fields, AtEnd
<1>3. s.call = r.call /\ s.next = r.next /\ s.buffers = r.buffers /\ s.backs = r.backs
    BY DEF Shaped, Fields, AtEnd
<1>4. s.restored = r.restored /\ s.pins = r.pins /\ s.bound = r.bound
    BY DEF Shaped, Fields, AtEnd
<1> QED BY <1>1, <1>2, <1>3, <1>4 DEF Ended

(* An argument has been turned into a buffer (Marshalled). *)
LEMMA ExtendUpdate ==
    ASSUME NEW r, Shaped(r), NEW buffer, NEW pin, NEW guard, NEW backs, NEW s,
           s = WithBuffer(r, buffer, pin, guard, backs)
    PROVE  Extended(r, s, buffer, pin, guard, backs)
<1>1. Shaped(s)
    BY Zenon DEF Shaped, WithBuffer
<1>2. s.next = r.next + 1 /\ s.buffers = Append(r.buffers, buffer)
    BY DEF Shaped, Fields, WithBuffer
<1>3. s.backs = r.backs \o backs /\ s.pins = r.pins \cup pin /\ s.guards = r.guards \cup guard
    BY DEF Shaped, Fields, WithBuffer
<1>4. s.call = r.call /\ s.at = r.at /\ s.bound = r.bound /\ s.restored = r.restored
      /\ s.outcome = r.outcome
    BY DEF Shaped, Fields, WithBuffer
<1> QED BY <1>1, <1>2, <1>3, <1>4 DEF Extended

(* A word has been written back. *)
LEMMA RestoreUpdate ==
    ASSUME NEW r, Shaped(r), NEW s, s = [r EXCEPT !.restored = @ + 1]
    PROVE  Restored(r, s)
BY DEF Shaped, Fields, Restored

-----------------------------------------------------------------------------
(* Each kind of change keeps what the invariant says of an invocation. *)

Early == {"enter", "find", "load", "insert", "bind"}

(* A sequence with one more element. *)
LEMMA AppendSeq ==
    ASSUME NEW q, IsSeq(q), NEW e
    PROVE  /\ IsSeq(Append(q, e)) /\ Len(q) \in Nat /\ DOMAIN q = 1 .. Len(q)
           /\ Len(Append(q, e)) = Len(q) + 1 /\ DOMAIN Append(q, e) = 1 .. (Len(q) + 1)
           /\ \A i \in DOMAIN q : Append(q, e)[i] = q[i]
           /\ Append(q, e)[Len(q) + 1] = e
<1> DEFINE S == {q[i] : i \in DOMAIN q} \cup {e}
           a == Append(q, e)
<1>1. q \in Seq({q[i] : i \in DOMAIN q})
    BY DEF IsSeq
<1>2. q \in Seq(S) /\ e \in S
    <2> HIDE DEF S
    <2>1. {q[i] : i \in DOMAIN q} \subseteq S /\ e \in S
        BY DEF S
    <2> QED BY <1>1, <2>1
<1> HIDE DEF S
<1>3. /\ a \in Seq(S) /\ Len(q) \in Nat /\ DOMAIN q = 1 .. Len(q)
      /\ Len(a) = Len(q) + 1 /\ DOMAIN a = 1 .. (Len(q) + 1)
      /\ \A i \in DOMAIN q : a[i] = q[i]
      /\ a[Len(q) + 1] = e
    BY <1>2
<1>4. a \in Seq({a[i] : i \in DOMAIN a})
    <2> HIDE DEF a
    <2>1. a = [i \in 1 .. Len(a) |-> a[i]] /\ Len(a) \in Nat /\ DOMAIN a = 1 .. Len(a)
        BY <1>3
    <2> QED BY <2>1
<1> QED BY SMTT(30), <1>3, <1>4 DEF IsSeq

(* A sequence followed by none or one more element. *)
LEMMA ConcatSeq ==
    ASSUME NEW q, IsSeq(q), NEW e
    PROVE  q \o <<>> = q /\ q \o <<e>> = Append(q, e)
<1> DEFINE S == {q[i] : i \in DOMAIN q} \cup {e}
<1>2. q \in Seq(S) /\ e \in S
    <2>1. q \in Seq({q[i] : i \in DOMAIN q}) /\ {q[i] : i \in DOMAIN q} \subseteq S /\ e \in S
        BY DEF IsSeq
    <2> HIDE DEF S
    <2> QED BY <2>1
<1> HIDE DEF S
<1> QED BY <1>2

(* A call goes on to its next place. *)
LEMMA AdvancedOK ==
    ASSUME NEW t, NEW r, NEW s, NEW pinned, Advanced(r, s), r.at # "done",
           CountersOK(r), EscapesOK(t, r), PinsOK(r, pinned), ~Escaping(r),
           s.at \in Places \ {"done"}, s.at \in Early => r.at \in Early,
           s.at = "restore" => r.next > Len(r.call.args)
    PROVE  CountersOK(s) /\ EscapesOK(t, s) /\ PinsOK(s, pinned)
<1>1. CountersOK(s)
    BY DEF Advanced, CountersOK, Early
<1>2. EscapesOK(t, s)
    BY DEF Advanced, EscapesOK
<1>3. PinsOK(s, pinned)
    BY DEF Advanced, PinsOK, Escaping
<1> QED BY <1>1, <1>2, <1>3

(* A call ends, before it has pinned anything or unpinning what it has pinned, or *)
(* in the middle of its arguments.                                               *)
LEMMA EndedOK ==
    ASSUME NEW t, NEW r, NEW s, NEW before, NEW after, Ended(r, s), r.at # "done",
           CountersOK(r), EscapesOK(t, r), PinsOK(r, before),
           \/ after = before \ r.pins
           \/ after = before /\ (r.pins = {} \/ (r.next <= Len(r.call.args) /\ s.outcome # "Exception"))
    PROVE  CountersOK(s) /\ EscapesOK(t, s) /\ PinsOK(s, after)
<1>1. CountersOK(s)
    BY DEF Ended, CountersOK, Places
<1>2. EscapesOK(t, s)
    BY DEF Ended, EscapesOK
<1>3. PinsOK(s, after)
    <2>1. s.at = "done" /\ s.call = r.call /\ s.pins = r.pins /\ s.next = r.next
          /\ before = r.call.handles \cup r.pins /\ Escaping(s) = Escaping(r)
        BY DEF Ended, PinsOK, Escaping
    <2>2. r.call.handles \ r.pins \subseteq after
        BY <2>1
    <2>3. s.next > Len(s.call.args) \/ s.outcome = "Exception" => after = r.call.handles \ r.pins
        <3>1. CASE after = before \ r.pins
            BY <3>1, <2>1
        <3>2. CASE after = before /\ r.pins = {}
            BY <3>2, <2>1
        <3>3. CASE after = before /\ r.next <= Len(r.call.args) /\ s.outcome # "Exception"
            <4>1. r.next \in Nat
                BY DEF CountersOK
            <4>2. Len(r.call.args) + 1 >= r.next
                BY DEF CountersOK
            <4> QED BY <3>3, <2>1, <4>1, <4>2
        <3> QED BY <3>1, <3>2, <3>3
    <2>4. Escaping(r) => r.pins = {} /\ after = r.call.handles
        BY Zenon, <2>1 DEF PinsOK
    <2> QED BY <2>1, <2>2, <2>3, <2>4 DEF PinsOK
<1> QED BY <1>1, <1>2, <1>3

(* A word is written back. *)
LEMMA RestoredOK ==
    ASSUME NEW t, NEW r, NEW s, NEW pinned, Restored(r, s), r.at = "restore",
           r.restored < Len(r.backs), CountersOK(r), EscapesOK(t, r), PinsOK(r, pinned)
    PROVE  CountersOK(s) /\ EscapesOK(t, s) /\ PinsOK(s, pinned)
<1>1. CountersOK(s)
    <2>1. Len(r.backs) \in Nat
        BY AppendSeq DEF CountersOK
    <2> QED BY <2>1 DEF Restored, CountersOK
<1>2. EscapesOK(t, s)
    BY DEF Restored, EscapesOK
<1>3. PinsOK(s, pinned)
    BY DEF Restored, PinsOK, Escaping
<1> QED BY <1>1, <1>2, <1>3

(* What may be handed out for an argument: a pointer into the heap leads to an    *)
(* object of the thread's own that is given whole, and is guarded and pinned; a   *)
(* note to write back is of this argument, a ref argument, which is pinned.       *)
Offered(t, r, buffer, pin, guard) ==
    /\ guard \subseteq pin
    /\ buffer.to \in HeapObjects =>
          /\ OwnerOf[buffer.to] = t /\ buffer.to \in guard
          /\ \E a \in DOMAIN r.call.args : GivenWhole(r.call.args[a], buffer.to)
Noted(r, back, pin) ==
    /\ back.buffer = r.next
    /\ \E a \in DOMAIN r.call.args : back.arg = r.call.args[a]
    /\ back.arg.is = "ManagedPtr" /\ back.arg.type = "Ref"
    /\ back.arg.origin = "Heap" => back.arg.o \in pin

Lengthened(r, s, buffer, backs, back) ==
    /\ IsSeq(s.buffers) /\ Len(s.buffers) = r.next /\ DOMAIN s.buffers = 1 .. r.next
    /\ r.next \in Nat /\ DOMAIN r.buffers = 1 .. (r.next - 1)
    /\ \A i \in DOMAIN r.buffers : s.buffers[i] = r.buffers[i]
    /\ s.buffers[r.next] = buffer
    /\ IsSeq(s.backs) /\ Len(r.backs) \in Nat /\ Len(s.backs) \in Nat /\ Len(r.backs) <= Len(s.backs)
    /\ \A k \in DOMAIN s.backs :
          \/ k \in DOMAIN r.backs /\ s.backs[k] = r.backs[k]
          \/ backs = <<back>> /\ s.backs[k] = back

(* The notes after an argument are those before it and perhaps one more. *)
LEMMA ExtendedSeqs ==
    ASSUME NEW r, NEW s, NEW buffer, NEW pin, NEW guard, NEW backs, NEW back,
           backs = <<>> \/ backs = <<back>>,
           Extended(r, s, buffer, pin, guard, backs), CountersOK(r)
    PROVE  Lengthened(r, s, buffer, backs, back)
<1>1. IsSeq(r.buffers) /\ Len(r.buffers) = r.next - 1 /\ r.next \in Nat /\ IsSeq(r.backs)
    BY DEF CountersOK
<1>2. s.buffers = Append(r.buffers, buffer) /\ s.backs = r.backs \o backs
    BY DEF Extended
<1>3. /\ IsSeq(s.buffers) /\ DOMAIN r.buffers = 1 .. Len(r.buffers)
      /\ Len(s.buffers) = Len(r.buffers) + 1 /\ DOMAIN s.buffers = 1 .. (Len(r.buffers) + 1)
      /\ \A i \in DOMAIN r.buffers : s.buffers[i] = r.buffers[i]
      /\ s.buffers[Len(r.buffers) + 1] = buffer
    <2> DEFINE q == r.buffers
    <2>1. IsSeq(q) /\ s.buffers = Append(q, buffer)
        BY Zenon, <1>1, <1>2
    <2> HIDE DEF q
    <2>2. /\ IsSeq(Append(q, buffer)) /\ DOMAIN q = 1 .. Len(q)
          /\ Len(Append(q, buffer)) = Len(q) + 1
          /\ DOMAIN Append(q, buffer) = 1 .. (Len(q) + 1)
          /\ \A i \in DOMAIN q : Append(q, buffer)[i] = q[i]
          /\ Append(q, buffer)[Len(q) + 1] = buffer
        BY <2>1, AppendSeq
    <2> QED BY Zenon, <2>1, <2>2 DEF q
<1>4. Len(r.buffers) + 1 = r.next
    BY <1>1
<1>5. /\ IsSeq(s.backs) /\ Len(r.backs) \in Nat /\ Len(s.backs) \in Nat /\ Len(r.backs) <= Len(s.backs)
      /\ \A k \in DOMAIN s.backs :
            \/ k \in DOMAIN r.backs /\ s.backs[k] = r.backs[k]
            \/ backs = <<back>> /\ s.backs[k] = back
    <2>1. CASE backs = <<>>
        <3>1. s.backs = r.backs
            BY <1>1, <1>2, <2>1, ConcatSeq
        <3>2. Len(r.backs) \in Nat
            BY <1>1, AppendSeq
        <3> QED BY <1>1, <3>1, <3>2
    <2>2. CASE backs = <<back>>
        <3>1. s.backs = Append(r.backs, back)
            BY <1>1, <1>2, <2>2, ConcatSeq
        <3>2. /\ IsSeq(s.backs) /\ Len(r.backs) \in Nat /\ DOMAIN r.backs = 1 .. Len(r.backs)
              /\ Len(s.backs) = Len(r.backs) + 1 /\ DOMAIN s.backs = 1 .. (Len(r.backs) + 1)
              /\ \A i \in DOMAIN r.backs : s.backs[i] = r.backs[i]
              /\ s.backs[Len(r.backs) + 1] = back
            BY <1>1, <3>1, AppendSeq
        <3> QED BY <2>2, <3>2
    <2> QED BY <2>1, <2>2
<1> QED BY <1>1, <1>3, <1>4, <1>5 DEF Lengthened

(* An argument is marshalled. *)
LEMMA ExtendedOK ==
    ASSUME NEW t, NEW r, NEW s, NEW buffer, NEW pin, NEW guard, NEW backs, NEW back, NEW pinned,
           backs = <<>> \/ (backs = <<back>> /\ Noted(r, back, pin)),
           Extended(r, s, buffer, pin, guard, backs), Offered(t, r, buffer, pin, guard),
           r.at = "marshal", r.next <= Len(r.call.args),  Len(r.call.args) \in Nat,
           CountersOK(r), EscapesOK(t, r), PinsOK(r, pinned)
    PROVE  CountersOK(s) /\ EscapesOK(t, s) /\ PinsOK(s, pinned \cup pin)
<1>1. /\ IsSeq(s.buffers) /\ Len(s.buffers) = r.next /\ DOMAIN s.buffers = 1 .. r.next
      /\ r.next \in Nat /\ DOMAIN r.buffers = 1 .. (r.next - 1)
      /\ \A i \in DOMAIN r.buffers : s.buffers[i] = r.buffers[i]
      /\ s.buffers[r.next] = buffer
      /\ IsSeq(s.backs) /\ Len(r.backs) \in Nat /\ Len(s.backs) \in Nat /\ Len(r.backs) <= Len(s.backs)
      /\ \A k \in DOMAIN s.backs :
            \/ k \in DOMAIN r.backs /\ s.backs[k] = r.backs[k]
            \/ backs = <<back>> /\ s.backs[k] = back
    <2>1. backs = <<>> \/ backs = <<back>>
        OBVIOUS
    <2>2. Lengthened(r, s, buffer, backs, back)
        BY <2>1, ExtendedSeqs
    <2> QED BY <2>2 DEF Lengthened
<1>2. /\ s.call = r.call /\ s.at = r.at /\ s.next = r.next + 1 /\ Shaped(s) /\ s.restored = r.restored
      /\ s.pins = r.pins \cup pin /\ s.guards = r.guards \cup guard /\ s.outcome = r.outcome
    BY DEF Extended
<1>3. CountersOK(s)
    <2>1. s.restored \in Nat /\ s.restored <= Len(s.backs)
        BY <1>1, <1>2 DEF CountersOK
    <2>2. s.next \in Nat /\ 1 <= s.next /\ s.next <= Len(s.call.args) + 1 /\ Len(s.buffers) = s.next - 1
        BY SMTT(30), <1>1, <1>2
    <2> QED BY <1>1, <1>2, <2>1, <2>2 DEF CountersOK, Places
<1>4. EscapesOK(t, s)
    <2>1. ASSUME NEW i \in DOMAIN s.buffers, s.buffers[i].to \in HeapObjects
          PROVE  /\ OwnerOf[s.buffers[i].to] = t
                 /\ \E a \in DOMAIN s.call.args : GivenWhole(s.call.args[a], s.buffers[i].to)
                 /\ s.at # "done" => s.buffers[i].to \in s.guards
        <3>1. CASE i \in DOMAIN r.buffers
            BY SMTT(30), <1>1, <1>2, <2>1, <3>1 DEF EscapesOK
        <3>2. CASE i = r.next
            BY SMTT(30), <1>1, <1>2, <2>1, <3>2 DEF Offered
        <3> QED BY <1>1, <3>1, <3>2
    <2>2. s.guards \subseteq s.pins
        BY <1>2 DEF EscapesOK, Offered
    <2>3. ASSUME NEW k \in DOMAIN s.backs
          PROVE  /\ s.backs[k].buffer \in DOMAIN s.buffers
                 /\ \E a \in DOMAIN s.call.args : s.backs[k].arg = s.call.args[a]
                 /\ s.backs[k].arg.is = "ManagedPtr" /\ s.backs[k].arg.type = "Ref"
                 /\ s.backs[k].arg.origin = "Heap" => s.backs[k].arg.o \in s.pins
        <3>1. CASE k \in DOMAIN r.backs /\ s.backs[k] = r.backs[k]
            <4>1. DOMAIN r.buffers \subseteq DOMAIN s.buffers
                BY <1>1
            <4> QED BY <1>2, <3>1, <4>1 DEF EscapesOK
        <3>2. CASE backs = <<back>> /\ s.backs[k] = back
            <4>1. r.next \in DOMAIN s.buffers
                BY <1>1 DEF CountersOK
            <4>2. Noted(r, back, pin)
                <5>1. backs # <<>>
                    BY <3>2
                <5> QED BY <5>1
            <4> QED BY <1>2, <3>2, <4>1, <4>2 DEF Noted
        <3> QED BY <1>1, <3>1, <3>2
    <2> QED BY <1>2, <2>1, <2>2, <2>3 DEF EscapesOK
<1>5. PinsOK(s, pinned \cup pin)
    BY <1>2 DEF PinsOK, Escaping
<1> QED BY <1>3, <1>4, <1>5

(* The words kept stay what they are when an argument is marshalled, and the one   *)
(* that is added is a copy of the object's bytes.                                  *)
LEMMA ExtendedWords ==
    ASSUME NEW t, NEW r, NEW s, NEW buffer, NEW pin, NEW guard, NEW backs, NEW back, NEW given,
           backs = <<>> \/ (backs = <<back>> /\ back.buffer = r.next /\ WordOK(given, back, buffer.bytes)),
           Extended(r, s, buffer, pin, guard, backs), CountersOK(r), EscapesOK(t, r), WordsOK(given, r)
    PROVE  WordsOK(given, s)
<1>1. /\ \A i \in DOMAIN r.buffers : s.buffers[i] = r.buffers[i]
      /\ s.buffers[r.next] = buffer
      /\ \A k \in DOMAIN s.backs :
            \/ k \in DOMAIN r.backs /\ s.backs[k] = r.backs[k]
            \/ backs = <<back>> /\ s.backs[k] = back
    <2>1. backs = <<>> \/ backs = <<back>>
        OBVIOUS
    <2>2. Lengthened(r, s, buffer, backs, back)
        BY <2>1, ExtendedSeqs
    <2> QED BY <2>2 DEF Lengthened
<1> SUFFICES ASSUME NEW k \in DOMAIN s.backs
             PROVE  WordOK(given, s.backs[k], s.buffers[s.backs[k].buffer].bytes)
    BY DEF WordsOK
<1>2. CASE k \in DOMAIN r.backs /\ s.backs[k] = r.backs[k]
    <2>1. r.backs[k].buffer \in DOMAIN r.buffers
        BY <1>2 DEF EscapesOK
    <2> QED BY <1>1, <1>2, <2>1 DEF WordsOK
<1>3. CASE backs = <<back>> /\ s.backs[k] = back
    <2>1. backs # <<>>
        BY <1>3
    <2> QED BY <1>1, <1>3, <2>1
<1> QED BY <1>1, <1>2, <1>3

-----------------------------------------------------------------------------
(* One thread moves. *)

(* What is assumed of the call a thread makes. *)
LEMMA CallFacts ==
    ASSUME ThreadInv, NEW t \in Threads
    PROVE  ProperCall(t, Here(t).call)
<1>1. PICK p \in Programs : Here(t).call = p[t]
    BY DEF ThreadInv, CallsOf
<1> QED BY <1>1, PInvokeAssumption

(* The step of thread t to the invocation s. *)
Moved(t, s) ==
    /\ Here(t)' = s /\ s.call = Here(t).call
    /\ \A u \in Threads \ {t} : Here(u)' = Here(u)

(* Calls stay what they are. *)
LEMMA MovedFacts ==
    ASSUME ThreadInv, NEW t \in Threads, NEW s, Move(t, s), s.call = Here(t).call
    PROVE  Moved(t, s) /\ invocations' = [u \in Threads |-> Here(u)'] /\ Given' = Given
<1>1. invocations = [u \in Threads |-> invocations[u]]
    BY DEF ThreadInv, Here
<1>2. invocations' = [invocations EXCEPT ![t] = s]
    BY DEF Move
<1>3. invocations'[t] = s /\ (\A u \in Threads \ {t} : invocations'[u] = invocations[u])
      /\ invocations' = [u \in Threads |-> invocations'[u]]
    BY <1>1, <1>2
<1>4. Moved(t, s) /\ invocations' = [u \in Threads |-> Here(u)']
    BY <1>3 DEF Moved, Here
<1>5. \A u \in Threads : Here(u)'.call = Here(u).call
    BY <1>4 DEF Moved
<1>6. Given' = Given
    BY <1>5 DEF Given, Gives
<1> QED BY <1>4, <1>6

(* The step keeps what is said of invocations when it keeps it of its own. *)
LEMMA ThreadKept ==
    ASSUME ThreadInv, NEW t \in Threads, NEW s, NEW after, Move(t, s), s.call = Here(t).call,
           pinnedBy' = [pinnedBy EXCEPT ![t] = after],
           CountersOK(s), EscapesOK(t, s), PinsOK(s, after)
    PROVE  ThreadInv'
<1>1. Moved(t, s) /\ invocations' = [u \in Threads |-> Here(u)']
    BY MovedFacts
<1>2. pinnedBy = [u \in Threads |-> pinnedBy[u]]
    BY DEF ThreadInv
<1>3. /\ pinnedBy'[t] = after /\ \A u \in Threads \ {t} : pinnedBy'[u] = pinnedBy[u]
      /\ pinnedBy' = [u \in Threads |-> pinnedBy'[u]]
    BY <1>2
<1>4. ASSUME NEW u \in Threads
      PROVE  /\ Here(u)'.call \in CallsOf(u)
             /\ CountersOK(Here(u)') /\ EscapesOK(u, Here(u)') /\ PinsOK(Here(u)', pinnedBy'[u])
    <2>1. CASE u = t
        BY <1>1, <1>3, <2>1 DEF Moved, ThreadInv
    <2>2. CASE u # t
        BY <1>1, <1>3, <2>2 DEF Moved, ThreadInv
    <2> QED BY <2>1, <2>2
<1> QED BY <1>1, <1>3, <1>4 DEF ThreadInv

(* The same for a step that leaves the pins. *)
LEMMA SamePins ==
    ASSUME ThreadInv, NEW t \in Threads, UNCHANGED pinnedBy
    PROVE  pinnedBy' = [pinnedBy EXCEPT ![t] = pinnedBy[t]]
BY DEF ThreadInv

(* A step that leaves the table of libraries keeps what is said of it. *)
LEMMA LibrarySame ==
    ASSUME LibraryInv, NEW t \in Threads, NEW s, Moved(t, s), UNCHANGED <<cached, open>>,
           LibraryOK(t, s, cached, open), Here(t).at = "insert" => s.at = "insert"
    PROVE  LibraryInv'
<1>1. ASSUME NEW u \in Threads
      PROVE  LibraryOK(u, Here(u)', cached', open')
    <2>1. CASE u = t
        BY <2>1 DEF Moved
    <2>2. CASE u # t
        BY <2>2 DEF Moved, LibraryInv
    <2> QED BY <2>1, <2>2
<1>2. ASSUME NEW h \in open
      PROVE  HandleKept(h)'
    <2>1. PICK u \in Threads : h = HandleOf(u) /\ (cached[h[1]] = h \/ Here(u).at = "insert")
        BY DEF LibraryInv, HandleKept
    <2>2. HandleOf(u)' = HandleOf(u)
        BY DEF Moved, HandleOf
    <2>3. Here(u).at = "insert" => Here(u)'.at = "insert"
        BY DEF Moved
    <2> QED BY <2>1, <2>2, <2>3 DEF HandleKept
<1> QED BY <1>1, <1>2 DEF LibraryInv

(* So does one that leaves memory and the words kept. *)
LEMMA MemorySame ==
    ASSUME MemoryInv, NEW t \in Threads, NEW s, Moved(t, s), UNCHANGED payload, Given' = Given,
           WordsOK(Given, s)
    PROVE  MemoryInv'
<1>1. BytesOK(Given', payload')
    BY DEF MemoryInv
<1>2. ASSUME NEW u \in Threads
      PROVE  WordsOK(Given', Here(u)')
    BY DEF MemoryInv, Moved
<1> QED BY <1>1, <1>2 DEF MemoryInv

(* And one of a thread that does not queue. *)
LEMMA QueueSame ==
    ASSUME QueueInv, NEW t \in Threads, NEW s, Moved(t, s), UNCHANGED <<queued, gone>>, queued[t] = None
    PROVE  QueueInv'
<1>1. ASSUME NEW u \in Threads, queued[u] # None
      PROVE  QueuedOK(Here(u)', queued[u], gone)
    BY <1>1 DEF QueueInv, Moved
<1> QED BY <1>1 DEF QueueInv

(* Only a thread that has a word to write back queues. *)
LEMMA NotQueued ==
    ASSUME QueueInv, NEW t \in Threads, Here(t).at # "restore" \/ ~(Here(t).restored < Len(Here(t).backs))
    PROVE  queued[t] = None
BY DEF QueueInv, QueuedOK

(* What the invariant says of one thread. *)
LEMMA ThreadFacts ==
    ASSUME IInv, NEW t \in Threads
    PROVE  /\ CountersOK(Here(t)) /\ EscapesOK(t, Here(t)) /\ PinsOK(Here(t), pinnedBy[t])
           /\ LibraryOK(t, Here(t), cached, open) /\ WordsOK(Given, Here(t)) /\ Shaped(Here(t))
BY DEF IInv, ThreadInv, LibraryInv, MemoryInv, CountersOK

(* A step that only moves a thread keeps the invariant when it keeps what is said of *)
(* that thread.                                                                      *)
LEMMA MoveKept ==
    ASSUME IInv, NEW t \in Threads, NEW s, Move(t, s), s.call = Here(t).call,
           UNCHANGED <<pinnedBy, payload, queued, cached, open, gone>>,
           CountersOK(s), EscapesOK(t, s), PinsOK(s, pinnedBy[t]),
           LibraryOK(t, s, cached, open), Here(t).at # "insert", WordsOK(Given, s), queued[t] = None
    PROVE  IInv'
<1>1. Moved(t, s) /\ Given' = Given
    BY MovedFacts DEF IInv
<1>2. ThreadInv'
    <2>1. PICK after : after = pinnedBy[t]
        OBVIOUS
    <2>2. pinnedBy' = [pinnedBy EXCEPT ![t] = after]
        BY <2>1, SamePins DEF IInv
    <2> QED BY Zenon, <2>1, <2>2, ThreadKept DEF IInv
<1>3. LibraryInv'
    BY <1>1, LibrarySame DEF IInv
<1>4. MemoryInv'
    BY <1>1, MemorySame DEF IInv
<1>5. QueueInv'
    BY <1>1, QueueSame DEF IInv
<1> QED BY <1>2, <1>3, <1>4, <1>5 DEF IInv

-----------------------------------------------------------------------------
(* The steps before anything is marshalled. *)

(* A thread in a place before marshalling does not queue, and has nothing pinned. *)
LEMMA EarlyFacts ==
    ASSUME IInv, NEW t \in Threads, Here(t).at \in Early
    PROVE  queued[t] = None /\ Here(t).pins = {} /\ Here(t).at # "done"
<1>1. queued[t] = None
    BY NotQueued DEF IInv, Early
<1>2. CountersOK(Here(t))
    BY ThreadFacts
<1> QED BY <1>1, <1>2 DEF CountersOK, Early

(* A call ends: unpinning what it has pinned, or with nothing pinned, or failing at *)
(* an argument.                                                                     *)
LEMMA EndedKept ==
    ASSUME IInv, NEW t \in Threads, Here(t).at \notin {"insert", "done"},
           NEW outcome, NEW operands, NEW value, EndIn(t, outcome, operands, value),
           UNCHANGED <<payload, cached, open, gone>>,
           \/ Unpinned(t)
           \/ /\ UNCHANGED pinnedBy
              /\ Here(t).pins = {} \/ (Here(t).next <= Len(Here(t).call.args) /\ outcome # "Exception")
    PROVE  ThreadInv' /\ LibraryInv' /\ MemoryInv' /\ \E s : Moved(t, s)
<1>1. PICK r : r = Here(t)
    OBVIOUS
<1>2. PICK s : s = AtEnd(r, outcome, operands, value)
    OBVIOUS
<1>3. Move(t, s)
    BY <1>1, <1>2 DEF EndIn, AtEnd
<1>4. PICK before : before = pinnedBy[t]
    OBVIOUS
<1>5. /\ CountersOK(r) /\ EscapesOK(t, r) /\ PinsOK(r, before)
      /\ LibraryOK(t, r, cached, open) /\ WordsOK(Given, r) /\ Shaped(r)
    BY <1>1, <1>4, ThreadFacts
<1>6. Ended(r, s) /\ s.outcome = outcome
    BY <1>2, <1>5, EndUpdate
<1>7. s.at = "done" /\ s.call = r.call /\ s.bound = r.bound /\ s.buffers = r.buffers /\ s.backs = r.backs
    BY <1>6 DEF Ended
<1>8. Moved(t, s) /\ Given' = Given
    BY <1>1, <1>3, <1>7, MovedFacts DEF IInv
<1>9. PICK after : /\ pinnedBy' = [pinnedBy EXCEPT ![t] = after]
                   /\ \/ after = before \ r.pins
                      \/ /\ after = before
                         /\ r.pins = {} \/ (r.next <= Len(r.call.args) /\ s.outcome # "Exception")
    <2>1. CASE Unpinned(t)
        <3>1. PICK after : after = before \ r.pins
            BY Zenon
        <3>2. pinnedBy' = [pinnedBy EXCEPT ![t] = after]
            BY <1>1, <1>4, <2>1, <3>1 DEF Unpinned
        <3> QED BY Zenon, <3>1, <3>2
    <2>2. CASE /\ UNCHANGED pinnedBy
               /\ r.pins = {} \/ (r.next <= Len(r.call.args) /\ outcome # "Exception")
        <3>1. pinnedBy' = [pinnedBy EXCEPT ![t] = before]
            BY <1>4, <2>2, SamePins DEF IInv
        <3> QED BY Zenon, <1>6, <2>2, <3>1
    <2> QED BY Zenon, <1>1, <2>1, <2>2
<1>10. CountersOK(s) /\ EscapesOK(t, s) /\ PinsOK(s, after)
    <2>1. r.at # "done"
        BY <1>1
    <2> QED BY <1>5, <1>6, <1>9, <2>1, EndedOK
<1>11. ThreadInv'
    BY Zenon, <1>1, <1>3, <1>7, <1>9, <1>10, ThreadKept DEF IInv
<1>12. LibraryInv'
    <2>1. LibraryOK(t, s, cached, open)
        BY <1>5, <1>7 DEF LibraryOK
    <2> QED BY <1>1, <1>8, <2>1, LibrarySame DEF IInv
<1>13. MemoryInv'
    <2>1. WordsOK(Given, s)
        BY <1>5, <1>7 DEF WordsOK
    <2> QED BY <1>8, <2>1, MemorySame DEF IInv
<1> QED BY <1>8, <1>11, <1>12, <1>13

(* A call that ends before marshalling. *)
LEMMA RefusedEarly ==
    ASSUME IInv, NEW t \in Threads, Here(t).at \in Early \ {"insert"}, NEW outcome, NEW operands, NEW value,
           EndIn(t, outcome, operands, value), UNCHANGED <<pinnedBy, payload, queued, cached, open, gone>>
    PROVE  IInv'
<1>1. queued[t] = None /\ Here(t).pins = {} /\ Here(t).at \notin {"insert", "done"}
    BY EarlyFacts
<1>2. ThreadInv' /\ LibraryInv' /\ MemoryInv' /\ \E s : Moved(t, s)
    BY <1>1, EndedKept
<1>3. PICK s : Moved(t, s)
    BY <1>2
<1>4. QueueInv'
    BY <1>1, <1>3, QueueSame DEF IInv
<1> QED BY <1>2, <1>4 DEF IInv

(* A call that goes on to its next place before anything is marshalled. *)
LEMMA AdvancedEarly ==
    ASSUME IInv, NEW t \in Threads, Here(t).at \in Early, NEW s,
           Advanced(Here(t), s), s.at \in Early \cup {"marshal"}, ~Escaping(Here(t))
    PROVE  /\ CountersOK(s) /\ EscapesOK(t, s) /\ PinsOK(s, pinnedBy[t])
           /\ WordsOK(Given, s) /\ s.call = Here(t).call
<1>1. PICK r : r = Here(t)
    OBVIOUS
<1>2. PICK pinned : pinned = pinnedBy[t]
    OBVIOUS
<1>3. /\ CountersOK(r) /\ EscapesOK(t, r) /\ PinsOK(r, pinned) /\ WordsOK(Given, r)
    BY <1>1, <1>2, ThreadFacts
<1>4. r.at # "done" /\ s.at \in Places \ {"done"} /\ s.at # "restore" /\ r.at \in Early
    BY <1>1 DEF Early, Places
<1>5. CountersOK(s) /\ EscapesOK(t, s) /\ PinsOK(s, pinned)
    BY <1>1, <1>3, <1>4, AdvancedOK
<1>6. s.call = r.call /\ s.buffers = r.buffers /\ s.backs = r.backs
    BY <1>1 DEF Advanced
<1>7. WordsOK(Given, s)
    BY <1>3, <1>6 DEF WordsOK
<1> QED BY <1>1, <1>2, <1>5, <1>6, <1>7

(* No argument lets an address of another arena out once Preflight has let it by. *)
LEMMA NoEscapes ==
    ASSUME IInv, NEW t \in Threads, Here(t).at \notin {"enter", "done"}
    PROVE  ~Escaping(Here(t))
<1>1. PinsOK(Here(t), pinnedBy[t])
    BY ThreadFacts
<1> QED BY <1>1 DEF PinsOK

(* The signature and the operands are looked at. *)
LEMMA PreflightKept ==
    ASSUME IInv, NEW t \in Threads, Preflight(t)
    PROVE  IInv'
<1>1. Here(t).at = "enter" /\ UNCHANGED <<pinnedBy, payload, queued, cached, open, gone>>
    BY DEF Preflight
<1>2. Here(t).at \in Early /\ Here(t).at # "insert" /\ queued[t] = None
    BY <1>1, EarlyFacts DEF Early
<1>3. CASE Refuse(t, "Error")
    BY <1>1, <1>2, <1>3, RefusedEarly DEF Refuse
<1>4. CASE ~Escaping(Here(t)) /\ Move(t, [Here(t) EXCEPT !.at = "find"])
    <2>1. PICK s : s = [Here(t) EXCEPT !.at = "find"]
        BY Zenon
    <2>2. Advanced(Here(t), s) /\ s.at = "find" /\ s.bound = Here(t).bound
        BY <2>1, ThreadFacts, AtUpdate
    <2>3. /\ CountersOK(s) /\ EscapesOK(t, s) /\ PinsOK(s, pinnedBy[t])
          /\ WordsOK(Given, s) /\ s.call = Here(t).call
        BY <1>2, <1>4, <2>2, AdvancedEarly DEF Early
    <2>4. LibraryOK(t, s, cached, open)
        BY <1>1, <2>2, <2>3, ThreadFacts DEF LibraryOK
    <2> QED BY Zenon, <1>1, <1>2, <1>4, <2>1, <2>3, <2>4, MoveKept
<1>5. Refuse(t, "Error") \/ (~Escaping(Here(t)) /\ Move(t, [Here(t) EXCEPT !.at = "find"]))
    BY DEF Preflight, Escaping
<1> QED BY <1>3, <1>4, <1>5

(* The table of libraries is looked at. *)
LEMMA FindLibraryKept ==
    ASSUME IInv, NEW t \in Threads, FindLibrary(t)
    PROVE  IInv'
<1>1. Here(t).at = "find" /\ UNCHANGED <<pinnedBy, payload, queued, cached, open, gone>>
    BY DEF FindLibrary
<1>2. Here(t).at \in Early /\ Here(t).at # "insert" /\ queued[t] = None /\ ~Escaping(Here(t))
    BY <1>1, EarlyFacts, NoEscapes DEF Early
<1>3. PICK place : place = IF cached[Here(t).call.library] # NoHandle THEN "bind" ELSE "load"
    OBVIOUS
<1>4. PICK s : s = [Here(t) EXCEPT !.at = place]
    BY Zenon
<1>5. Move(t, s)
    BY <1>3, <1>4 DEF FindLibrary
<1>6. Advanced(Here(t), s) /\ s.at = place /\ s.bound = Here(t).bound
    BY <1>4, ThreadFacts, AtUpdate
<1>7. /\ CountersOK(s) /\ EscapesOK(t, s) /\ PinsOK(s, pinnedBy[t])
      /\ WordsOK(Given, s) /\ s.call = Here(t).call
    BY <1>2, <1>3, <1>6, AdvancedEarly DEF Early
<1>8. LibraryOK(t, s, cached, open)
    BY <1>1, <1>3, <1>6, <1>7, ThreadFacts DEF LibraryOK
<1> QED BY <1>1, <1>2, <1>5, <1>7, <1>8, MoveKept

(* The function is bound in the library of the table. *)
LEMMA BindFunctionKept ==
    ASSUME IInv, NEW t \in Threads, BindFunction(t)
    PROVE  IInv'
<1>1. Here(t).at = "bind" /\ UNCHANGED <<pinnedBy, payload, queued, cached, open, gone>>
    BY DEF BindFunction
<1>2. Here(t).at \in Early /\ Here(t).at # "insert" /\ queued[t] = None /\ ~Escaping(Here(t))
    BY <1>1, EarlyFacts, NoEscapes DEF Early
<1>3. CASE ThrowInstead(t)
    BY <1>1, <1>2, <1>3, RefusedEarly DEF ThrowInstead
<1>4. CASE Move(t, [Here(t) EXCEPT !.at = "marshal", !.bound = cached[Here(t).call.library]])
    <2>1. PICK handle : handle = cached[Here(t).call.library]
        OBVIOUS
    <2>2. PICK s : s = AtBound(Here(t), "marshal", handle)
        OBVIOUS
    <2>3. Advanced(Here(t), s) /\ s.at = "marshal" /\ s.bound = handle
        BY <2>2, ThreadFacts, BoundUpdate
    <2>4. /\ CountersOK(s) /\ EscapesOK(t, s) /\ PinsOK(s, pinnedBy[t])
          /\ WordsOK(Given, s) /\ s.call = Here(t).call
        BY <1>2, <2>3, AdvancedEarly
    <2>5. LibraryOK(t, s, cached, open)
        BY <2>1, <2>3, <2>4 DEF LibraryOK
    <2>6. Move(t, s)
        BY <1>4, <2>1, <2>2 DEF AtBound
    <2> QED BY <1>1, <1>2, <2>6, <2>4, <2>5, MoveKept
<1> QED BY <1>3, <1>4 DEF BindFunction

(* A step of the table of libraries keeps the rest. *)
LEMMA LookupKept ==
    ASSUME IInv, NEW t \in Threads, NEW place, NEW s, Here(t).at \in Early \ {"enter"}, place \in Early,
           s = [Here(t) EXCEPT !.at = place], Move(t, s), UNCHANGED <<pinnedBy, payload, queued, gone>>
    PROVE  /\ ThreadInv' /\ MemoryInv' /\ QueueInv' /\ Moved(t, s)
           /\ s.at = place /\ s.bound = Here(t).bound /\ s.call = Here(t).call
<1>1. queued[t] = None /\ ~Escaping(Here(t))
    BY EarlyFacts, NoEscapes DEF Early
<1>2. Advanced(Here(t), s) /\ s.at = place /\ s.bound = Here(t).bound
    BY ThreadFacts, AtUpdate
<1>3. /\ CountersOK(s) /\ EscapesOK(t, s) /\ PinsOK(s, pinnedBy[t])
      /\ WordsOK(Given, s) /\ s.call = Here(t).call
    BY Zenon, <1>1, <1>2, AdvancedEarly
<1>4. Moved(t, s) /\ Given' = Given
    BY Zenon, <1>3, MovedFacts DEF IInv
<1>5. ThreadInv'
    <2>1. PICK after : after = pinnedBy[t]
        OBVIOUS
    <2>2. pinnedBy' = [pinnedBy EXCEPT ![t] = after]
        BY <2>1, SamePins DEF IInv
    <2> QED BY Zenon, <1>3, <2>1, <2>2, ThreadKept DEF IInv
<1>6. MemoryInv'
    BY <1>3, <1>4, MemorySame DEF IInv
<1>7. QueueInv'
    BY <1>1, <1>4, QueueSame DEF IInv
<1> QED BY <1>2, <1>3, <1>4, <1>5, <1>6, <1>7

(* Handles of two threads differ. *)
LEMMA HandlesDiffer ==
    ASSUME NEW t, NEW u, NEW l, NEW m
    PROVE  /\ <<l, t>> = <<m, u>> => l = m /\ t = u
           /\ <<l, t>> # NoHandle /\ <<l, t>>[1] = l
BY DEF NoHandle

(* A library is loaded: the handle is open, and not in the table. *)
LEMMA LoadLibraryKept ==
    ASSUME IInv, NEW t \in Threads, LoadLibrary(t)
    PROVE  IInv'
<1>1. Here(t).at = "load" /\ UNCHANGED <<pinnedBy, payload, queued, cached, gone>>
    BY DEF LoadLibrary
<1>2. Here(t).at \in Early \ {"insert", "enter"}
    BY <1>1 DEF Early
<1>3. CASE ThrowInstead(t) /\ UNCHANGED open
    BY <1>1, <1>2, <1>3, RefusedEarly DEF ThrowInstead
<1>4. CASE open' = open \cup {HandleOf(t)} /\ Move(t, [Here(t) EXCEPT !.at = "insert"])
    <2>1. PICK s : s = [Here(t) EXCEPT !.at = "insert"]
        BY Zenon
    <2>2. /\ ThreadInv' /\ MemoryInv' /\ QueueInv' /\ Moved(t, s)
          /\ s.at = "insert" /\ s.bound = Here(t).bound /\ s.call = Here(t).call
        BY <1>1, <1>2, <1>4, <2>1, LookupKept DEF Early
    <2>3. PICK l : l = Here(t).call.library
        OBVIOUS
    <2>4. PICK h : h = <<l, t>>
        BY Zenon
    <2>5. open' = open \cup {h} /\ h = HandleOf(t) /\ l \in DOMAIN Installed
        BY <1>4, <2>3, <2>4, CallFacts DEF HandleOf, IInv, ProperCall
    <2>6. h \notin open /\ LibraryOK(t, Here(t), cached, open)
        BY <1>1, <2>3, <2>4, ThreadFacts DEF LibraryOK
    <2>7. cached[l] # h
        BY <2>4, <2>5, <2>6, HandlesDiffer DEF IInv, LibraryInv
    <2>8. LibraryOK(t, Here(t)', cached', open')
        BY <1>1, <2>2, <2>3, <2>4, <2>5, <2>6, <2>7 DEF LibraryOK, Moved
    <2>9. ASSUME NEW u \in Threads \ {t}
          PROVE  LibraryOK(u, Here(u)', cached', open')
        <3>1. Here(u)' = Here(u) /\ LibraryOK(u, Here(u), cached, open)
            BY <2>2, ThreadFacts DEF Moved
        <3>2. <<Here(u).call.library, u>> # h
            BY <2>4, HandlesDiffer
        <3> QED BY <1>1, <2>5, <3>1, <3>2 DEF LibraryOK
    <2>10. ASSUME NEW g \in open'
           PROVE  HandleKept(g)'
        <3>1. CASE g = h
            <4>1. g = HandleOf(t)' /\ Here(t)'.at = "insert"
                BY <2>2, <2>3, <2>4, <3>1 DEF Moved, HandleOf
            <4> QED BY <4>1 DEF HandleKept
        <3>2. CASE g \in open
            <4>1. PICK u \in Threads : g = HandleOf(u) /\ (cached[g[1]] = g \/ Here(u).at = "insert")
                BY <3>2 DEF IInv, LibraryInv, HandleKept
            <4>2. HandleOf(u)' = HandleOf(u)
                BY <2>2 DEF Moved, HandleOf
            <4>3. Here(u).at = "insert" => Here(u)'.at = "insert"
                BY <2>2 DEF Moved
            <4> QED BY <1>1, <4>1, <4>2, <4>3 DEF HandleKept
        <3> QED BY <2>5, <2>10, <3>1, <3>2
    <2>11. LibraryInv'
        <3>1. cached' = [m \in DOMAIN Installed |-> cached'[m]]
            BY <1>1 DEF IInv, LibraryInv
        <3>2. \A m \in DOMAIN Installed : cached'[m] # NoHandle => cached'[m] \in open' /\ cached'[m][1] = m
            BY <1>1, <2>5 DEF IInv, LibraryInv
        <3> QED BY <3>1, <3>2, <2>8, <2>9, <2>10 DEF LibraryInv
    <2> QED BY <2>2, <2>11 DEF IInv
<1> QED BY <1>3, <1>4 DEF LoadLibrary

(* The library is entered into the table, or the handle closed if one is there. *)
LEMMA InsertLibraryKept ==
    ASSUME IInv, NEW t \in Threads, InsertLibrary(t)
    PROVE  IInv'
<1>1. /\ Here(t).at = "insert" /\ UNCHANGED <<pinnedBy, payload, queued, gone>>
      /\ Move(t, [Here(t) EXCEPT !.at = "bind"])
    BY DEF InsertLibrary
<1>2. PICK s : s = [Here(t) EXCEPT !.at = "bind"]
    BY Zenon
<1>3. /\ ThreadInv' /\ MemoryInv' /\ QueueInv' /\ Moved(t, s)
      /\ s.at = "bind" /\ s.bound = Here(t).bound /\ s.call = Here(t).call
    BY <1>1, <1>2, LookupKept DEF Early
<1>4. PICK l : l = Here(t).call.library
    OBVIOUS
<1>5. PICK h : h = <<l, t>>
    BY Zenon
<1>6. h = HandleOf(t) /\ l \in DOMAIN Installed /\ h # NoHandle /\ h[1] = l
    BY <1>4, <1>5, CallFacts, HandlesDiffer DEF HandleOf, IInv, ProperCall
<1>7. h \in open /\ cached[l] # h /\ LibraryOK(t, Here(t), cached, open)
    BY <1>1, <1>4, <1>5, ThreadFacts DEF LibraryOK
<1>8. /\ cached = [m \in DOMAIN Installed |-> cached[m]]
      /\ \A m \in DOMAIN Installed : cached[m] # NoHandle => cached[m] \in open /\ cached[m][1] = m
    BY DEF IInv, LibraryInv
<1>9. ASSUME NEW u \in Threads \ {t}
      PROVE  /\ Here(u)' = Here(u) /\ LibraryOK(u, Here(u), cached, open)
             /\ <<Here(u).call.library, u>> # h
    BY <1>3, <1>5, ThreadFacts, HandlesDiffer DEF Moved
<1>10. \A u \in Threads : HandleOf(u)' = HandleOf(u)
    BY <1>3 DEF Moved, HandleOf
<1>11. ASSUME NEW g \in open, g # h
       PROVE  \E u \in Threads \ {t} : g = HandleOf(u) /\ (cached[g[1]] = g \/ Here(u).at = "insert")
    <2>1. PICK u \in Threads : g = HandleOf(u) /\ (cached[g[1]] = g \/ Here(u).at = "insert")
        BY DEF IInv, LibraryInv, HandleKept
    <2> QED BY <1>6, <1>11, <2>1
<1>12. CASE cached[l] = NoHandle /\ cached' = [cached EXCEPT ![l] = h] /\ open' = open
    <2>1. /\ cached' = [m \in DOMAIN Installed |-> cached'[m]] /\ cached'[l] = h
          /\ \A m \in DOMAIN Installed \ {l} : cached'[m] = cached[m]
        BY <1>6, <1>8, <1>12
    <2>2. \A m \in DOMAIN Installed : cached'[m] # NoHandle => cached'[m] \in open' /\ cached'[m][1] = m
        BY <1>6, <1>7, <1>8, <1>12, <2>1
    <2>3. LibraryOK(t, Here(t)', cached', open')
        BY <1>3, <1>4, <1>6, <1>7, <1>12, <2>1 DEF LibraryOK, Moved
    <2>4. ASSUME NEW u \in Threads \ {t}
          PROVE  LibraryOK(u, Here(u)', cached', open')
        <3>1. Here(u).call.library \in DOMAIN Installed
            BY CallFacts DEF IInv, ProperCall
        <3>2. PICK r : r = Here(u)
            OBVIOUS
        <3>3. Here(u)' = r /\ LibraryOK(u, r, cached, open) /\ <<r.call.library, u>> # h
            BY <1>9, <3>2
        <3>4. CASE r.call.library = l
            BY <1>6, <1>12, <2>1, <3>3, <3>4 DEF LibraryOK
        <3>5. CASE r.call.library # l
            <4>1. cached'[r.call.library] = cached[r.call.library]
                BY <2>1, <3>1, <3>2, <3>5
            <4> QED BY <1>12, <3>3, <4>1 DEF LibraryOK
        <3> QED BY <3>4, <3>5
    <2>5. ASSUME NEW g \in open'
          PROVE  HandleKept(g)'
        <3>1. CASE g = h
            BY <1>6, <1>10, <2>1, <3>1 DEF HandleKept
        <3>2. CASE g # h
            <4>1. PICK u \in Threads \ {t} : g = HandleOf(u) /\ (cached[g[1]] = g \/ Here(u).at = "insert")
                BY <1>11, <1>12, <2>5, <3>2
            <4>2. g[1] = Here(u).call.library /\ g # NoHandle /\ g[1] \in DOMAIN Installed
                <5>1. Here(u).call.library \in DOMAIN Installed
                    BY CallFacts DEF IInv, ProperCall
                <5> QED BY <4>1, <5>1, HandlesDiffer DEF HandleOf
            <4>3. cached[g[1]] = g => cached'[g[1]] = g
                BY <1>12, <2>1, <4>2
            <4> QED BY <1>9, <1>10, <4>1, <4>3 DEF HandleKept
        <3> QED BY <3>1, <3>2
    <2>6. LibraryInv'
        BY <2>1, <2>2, <2>3, <2>4, <2>5 DEF LibraryInv
    <2> QED BY <1>3, <2>6 DEF IInv
<1>13. CASE cached[l] # NoHandle /\ cached' = cached /\ open' = open \ {h}
    <2>1. \A m \in DOMAIN Installed : cached[m] # h
        BY <1>6, <1>7, <1>8
    <2>2. \A m \in DOMAIN Installed : cached'[m] # NoHandle => cached'[m] \in open' /\ cached'[m][1] = m
        BY <1>8, <1>13, <2>1
    <2>3. LibraryOK(t, Here(t)', cached', open')
        BY <1>3, <1>4, <1>7, <1>13 DEF LibraryOK, Moved
    <2>4. ASSUME NEW u \in Threads \ {t}
          PROVE  LibraryOK(u, Here(u)', cached', open')
        BY Zenon, <1>9, <1>13 DEF LibraryOK
    <2>5. ASSUME NEW g \in open'
          PROVE  HandleKept(g)'
        <3>1. PICK u \in Threads \ {t} : g = HandleOf(u) /\ (cached[g[1]] = g \/ Here(u).at = "insert")
            BY <1>11, <1>13
        <3> QED BY <1>9, <1>10, <1>13, <3>1 DEF HandleKept
    <2>6. LibraryInv'
        BY <1>8, <1>13, <2>2, <2>3, <2>4, <2>5 DEF LibraryInv
    <2> QED BY <1>3, <2>6 DEF IInv
<1>14. \/ cached[l] = NoHandle /\ cached' = [cached EXCEPT ![l] = h] /\ open' = open
       \/ cached[l] # NoHandle /\ cached' = cached /\ open' = open \ {h}
    BY <1>4, <1>6 DEF InsertLibrary
<1> QED BY <1>12, <1>13, <1>14

-----------------------------------------------------------------------------
(* Marshalling. *)

(* A thread that marshals does not queue, and its argument is a proper one. *)
LEMMA MarshalFacts ==
    ASSUME IInv, NEW t \in Threads, Marshalling(t)
    PROVE  /\ queued[t] = None /\ Here(t).at = "marshal" /\ Here(t).next <= Len(Here(t).call.args)
           /\ Len(Here(t).call.args) \in Nat
           /\ Here(t).next \in DOMAIN Here(t).call.args /\ ProperArg(t, Argument(t))
           /\ HeapObjects \cap {"none", "home", "elsewhere"} = {}
<1>1. Here(t).at = "marshal" /\ Here(t).next <= Len(Here(t).call.args)
    BY DEF Marshalling
<1>2. queued[t] = None
    BY <1>1, NotQueued DEF IInv
<1>3. ProperCall(t, Here(t).call)
    BY CallFacts DEF IInv
<1>4. Here(t).next \in Nat /\ 1 <= Here(t).next
    BY ThreadFacts DEF CountersOK
<1>5. Here(t).next \in DOMAIN Here(t).call.args /\ Len(Here(t).call.args) \in Nat
    BY <1>1, <1>3, <1>4 DEF ProperCall
<1>6. ProperArg(t, Argument(t))
    BY <1>3, <1>5 DEF ProperCall, Argument
<1> QED BY <1>1, <1>2, <1>5, <1>6, PInvokeAssumption

(* An argument that is refused ends the call. *)
LEMMA FailMarshalKept ==
    ASSUME IInv, NEW t \in Threads, Marshalling(t), NEW outcome, outcome # "Exception",
           FailMarshal(t, outcome), UnchangedByMarshalling
    PROVE  IInv'
<1>1. EndIn(t, outcome, Here(t).operands, NoValue) /\ UNCHANGED <<pinnedBy, payload, queued, cached, open, gone>>
    BY DEF FailMarshal, Refuse, UnchangedByMarshalling
<1>2. PICK operands, value : operands = Here(t).operands /\ value = NoValue
    OBVIOUS
<1>3. ThreadInv' /\ LibraryInv' /\ MemoryInv' /\ \E s : Moved(t, s)
    BY <1>1, <1>2, MarshalFacts, EndedKept
<1>4. PICK s : Moved(t, s)
    BY <1>3
<1>5. QueueInv'
    BY <1>1, <1>4, MarshalFacts, QueueSame DEF IInv
<1> QED BY <1>3, <1>5 DEF IInv

(* An argument that is turned into a buffer. *)
LEMMA MarshalledKept ==
    ASSUME IInv, NEW t \in Threads, Marshalling(t), UnchangedByMarshalling,
           NEW buffer, NEW pin, NEW guard, NEW backs, NEW back, Marshalled(t, buffer, pin, guard, backs),
           Offered(t, Here(t), buffer, pin, guard),
           \/ backs = <<>>
           \/ backs = <<back>> /\ Noted(Here(t), back, pin) /\ WordOK(Given, back, buffer.bytes)
    PROVE  IInv'
<1>1. PICK r, pinned : r = Here(t) /\ pinned = pinnedBy[t]
    OBVIOUS
<1>2. PICK s : s = WithBuffer(r, buffer, pin, guard, backs)
    OBVIOUS
<1>3. Move(t, s)
    BY <1>1, <1>2 DEF Marshalled, WithBuffer
<1>4. /\ CountersOK(r) /\ EscapesOK(t, r) /\ PinsOK(r, pinned)
      /\ LibraryOK(t, r, cached, open) /\ WordsOK(Given, r) /\ Shaped(r)
    BY <1>1, ThreadFacts
<1>5. Extended(r, s, buffer, pin, guard, backs)
    BY <1>2, <1>4, ExtendUpdate
<1>6. s.call = r.call /\ s.at = r.at /\ s.bound = r.bound /\ r.at = "marshal"
      /\ r.next <= Len(r.call.args) /\ Len(r.call.args) \in Nat
    BY <1>1, <1>5, MarshalFacts DEF Extended
<1>7. CountersOK(s) /\ EscapesOK(t, s) /\ PinsOK(s, pinned \cup pin)
    BY Zenon, <1>1, <1>4, <1>5, <1>6, ExtendedOK
<1>8. WordsOK(Given, s)
    <2>1. PICK given : given = Given
        OBVIOUS
    <2>2. backs = <<>> \/ (backs = <<back>> /\ back.buffer = r.next /\ WordOK(given, back, buffer.bytes))
        BY <1>1, <2>1 DEF Noted
    <2> QED BY Zenon, <1>4, <1>5, <2>1, <2>2, ExtendedWords
<1>9. Moved(t, s) /\ Given' = Given
    BY <1>1, <1>3, <1>6, MovedFacts DEF IInv
<1>10. ThreadInv'
    <2>1. PICK after : after = pinned \cup pin
        BY Zenon
    <2>2. pinnedBy' = [pinnedBy EXCEPT ![t] = after]
        BY <1>1, <2>1 DEF Marshalled
    <2> QED BY Zenon, <1>1, <1>3, <1>6, <1>7, <2>1, <2>2, ThreadKept DEF IInv
<1>11. LibraryInv'
    <2>1. LibraryOK(t, s, cached, open)
        BY <1>4, <1>6 DEF LibraryOK
    <2>2. UNCHANGED <<cached, open>>
        BY DEF UnchangedByMarshalling
    <2> QED BY Zenon, <1>1, <1>6, <1>9, <2>1, <2>2, LibrarySame DEF IInv
<1>12. MemoryInv'
    BY <1>8, <1>9, MemorySame DEF IInv, UnchangedByMarshalling
<1>13. QueueInv'
    BY Zenon, <1>9, MarshalFacts, QueueSame DEF IInv, UnchangedByMarshalling
<1> QED BY <1>10, <1>11, <1>12, <1>13 DEF IInv

(* A buffer that leads to no object. *)
LEMMA PlainlyKept ==
    ASSUME IInv, NEW t \in Threads, Marshalling(t), UnchangedByMarshalling, NEW buffer,
           buffer.to \notin HeapObjects, Plainly(t, buffer)
    PROVE  IInv'
<1>1. Marshalled(t, buffer, {}, {}, <<>>)
    BY DEF Plainly
<1>2. Offered(t, Here(t), buffer, {}, {})
    BY DEF Offered
<1> QED BY Zenon, <1>1, <1>2, MarshalledKept

(* The object given to native code is the thread's own, guarded and pinned. *)
LEMMA PassObjectKept ==
    ASSUME IInv, NEW t \in Threads, Marshalling(t), UnchangedByMarshalling, NEW o, NEW buffer,
           buffer.to = o, GivenWhole(Argument(t), o), PassObject(t, o, buffer)
    PROVE  IInv'
<1>1. Marshalled(t, buffer, {o}, {o}, <<>>)
    BY DEF PassObject
<1>2. o \in HeapObjects /\ OwnerOf[o] = t
    BY MarshalFacts DEF ProperArg, GivenWhole
<1>3. \E a \in DOMAIN Here(t).call.args : GivenWhole(Here(t).call.args[a], o)
    BY MarshalFacts DEF Argument
<1>4. Offered(t, Here(t), buffer, {o}, {o})
    BY <1>2, <1>3 DEF Offered
<1> QED BY Zenon, <1>1, <1>4, MarshalledKept

(* Where the buffers lead. *)
LEMMA BufferTo ==
    ASSUME NEW to, NEW bytes
    PROVE  /\ BytesBuffer(bytes).to = None /\ BytesBuffer(bytes).bytes = bytes /\ DoubleBuffer.to = None
           /\ PointerBuffer(to).to = to /\ PairBuffer(to).to = to
BY DEF BytesBuffer, DoubleBuffer, PointerBuffer, PairBuffer

(* Numbers. *)
LEMMA MarshalIntegerKept ==
    ASSUME IInv, NEW t \in Threads, Marshalling(t), UnchangedByMarshalling, MarshalInteger(t)
    PROVE  IInv'
<1>1. (\E bytes : Plainly(t, BytesBuffer(bytes))) \/ FailMarshal(t, "Error")
    BY DEF MarshalInteger
<1>2. CASE FailMarshal(t, "Error")
    BY <1>2, FailMarshalKept
<1>3. ASSUME NEW bytes, Plainly(t, BytesBuffer(bytes))
      PROVE  IInv'
    <2>1. BytesBuffer(bytes).to \notin HeapObjects
        BY BufferTo, MarshalFacts DEF None
    <2> QED BY <1>3, <2>1, PlainlyKept
<1> QED BY <1>1, <1>2, <1>3

(* Floats, unmanaged pointers and structs. *)
LEMMA MarshalPlainKept ==
    ASSUME IInv, NEW t \in Threads, Marshalling(t), UnchangedByMarshalling, MarshalPlain(t)
    PROVE  IInv'
<1>1. \/ Plainly(t, DoubleBuffer) \/ Plainly(t, PointerBuffer("elsewhere"))
      \/ (\E bytes : Plainly(t, BytesBuffer(bytes))) \/ FailMarshal(t, "Error")
    BY DEF MarshalPlain
<1>2. CASE FailMarshal(t, "Error")
    BY <1>2, FailMarshalKept
<1>3. ASSUME NEW bytes, Plainly(t, BytesBuffer(bytes))
      PROVE  IInv'
    <2>1. BytesBuffer(bytes).to \notin HeapObjects
        BY BufferTo, MarshalFacts DEF None
    <2> QED BY <1>3, <2>1, PlainlyKept
<1>4. CASE Plainly(t, DoubleBuffer)
    <2>1. DoubleBuffer.to \notin HeapObjects
        BY BufferTo, MarshalFacts DEF None
    <2> QED BY <1>4, <2>1, PlainlyKept
<1>5. CASE Plainly(t, PointerBuffer("elsewhere"))
    <2>1. PointerBuffer("elsewhere").to \notin HeapObjects
        BY BufferTo, MarshalFacts
    <2> QED BY <1>5, <2>1, PlainlyKept
<1> QED BY <1>1, <1>2, <1>3, <1>4, <1>5

(* Objects. *)
LEMMA MarshalObjectKept ==
    ASSUME IInv, NEW t \in Threads, Marshalling(t), UnchangedByMarshalling, MarshalObject(t)
    PROVE  IInv'
<1>1. CASE Plainly(t, PointerBuffer(None))
    <2>1. PointerBuffer(None).to \notin HeapObjects
        BY BufferTo, MarshalFacts DEF None
    <2> QED BY <1>1, <2>1, PlainlyKept
<1>2. CASE Argument(t).origin # "Null" /\ PassObject(t, Argument(t).o, PointerBuffer(Argument(t).o))
    <2>1. PICK o : o = Argument(t).o
        OBVIOUS
    <2>2. PointerBuffer(o).to = o
        BY BufferTo
    <2>3. GivenWhole(Argument(t), o)
        BY <1>2, <2>1, MarshalFacts DEF MarshalObject, ProperArg, GivenWhole
    <2> QED BY <1>2, <2>1, <2>2, <2>3, PassObjectKept
<1> QED BY <1>1, <1>2 DEF MarshalObject

(* Addresses: typedrefs, and managed pointers that are not ref arguments. *)
LEMMA MarshalAddressKept ==
    ASSUME IInv, NEW t \in Threads, Marshalling(t), UnchangedByMarshalling, MarshalAddress(t)
    PROVE  IInv'
<1>1. \/ \E o : /\ GivenWhole(Argument(t), o)
                /\ PassObject(t, o, PairBuffer(o)) \/ PassObject(t, o, PointerBuffer(o))
      \/ \E to \in {"home", "elsewhere"} : Plainly(t, PairBuffer(to)) \/ Plainly(t, PointerBuffer(to))
      \/ FailMarshal(t, "Error")
    BY DEF MarshalAddress, GivenWhole
<1>2. CASE FailMarshal(t, "Error")
    BY <1>2, FailMarshalKept
<1>3. ASSUME NEW o, GivenWhole(Argument(t), o),
             PassObject(t, o, PairBuffer(o)) \/ PassObject(t, o, PointerBuffer(o))
      PROVE  IInv'
    <2>1. PairBuffer(o).to = o /\ PointerBuffer(o).to = o
        BY BufferTo
    <2> QED BY <1>3, <2>1, PassObjectKept
<1>4. ASSUME NEW to \in {"home", "elsewhere"}, Plainly(t, PairBuffer(to)) \/ Plainly(t, PointerBuffer(to))
      PROVE  IInv'
    <2>1. PairBuffer(to).to \notin HeapObjects /\ PointerBuffer(to).to \notin HeapObjects
        BY BufferTo, MarshalFacts
    <2> QED BY <1>4, <2>1, PlainlyKept
<1> QED BY <1>1, <1>2, <1>3, <1>4

(* The word copied for a ref argument is of the object's bytes. *)
LEMMA CopiedWord ==
    ASSUME MemoryInv, NEW o \in HeapObjects, NEW offset \in Nat, NEW back,
           back.arg.o = o, back.arg.offset = offset
    PROVE  WordOK(Given, back, Padded(CopyOf(o, offset), Word))
<1>1. PICK given : given = Given
    OBVIOUS
<1>2. PICK n : n = IF PayloadSize - offset < Word THEN PayloadSize - offset ELSE Word
    OBVIOUS
<1>3. PICK c : c = CopyOf(o, offset)
    OBVIOUS
<1>4. c = [i \in 1 .. n |-> payload[o][offset + i]]
    BY <1>2, <1>3 DEF CopyOf
<1>5. PayloadSize \in Nat /\ Word = 8
    BY PInvokeAssumption DEF Word
<1>6. ASSUME NEW j \in 1 .. Word, offset + j <= PayloadSize
      PROVE  ByteOK(given, o, offset + j, Padded(c, Word)[j])
    <2>1. n \in Nat /\ j <= n /\ j \in 1 .. n
        BY <1>2, <1>5, <1>6
    <2>2. Len(c) = n
        BY <1>4, <2>1
    <2>3. Padded(c, Word)[j] = c[j]
        BY <1>5, <2>1, <2>2 DEF Padded
    <2>4. c[j] = payload[o][offset + j]
        BY <1>4, <2>1
    <2>5. offset + j \in 1 .. PayloadSize
        BY <1>5, <1>6
    <2>6. ByteOK(given, o, offset + j, payload[o][offset + j])
        BY <1>1, <2>5 DEF MemoryInv, BytesOK
    <2> QED BY <2>3, <2>4, <2>6
<1> QED BY <1>1, <1>3, <1>6 DEF WordOK

(* Ref arguments. *)
LEMMA MarshalRefKept ==
    ASSUME IInv, NEW t \in Threads, Marshalling(t), UnchangedByMarshalling, MarshalRef(t)
    PROVE  IInv'
<1>1. PICK arg : arg = Argument(t)
    OBVIOUS
<1>2. PICK back : back = [arg |-> arg, buffer |-> Here(t).next]
    BY Zenon
<1>3. arg.is = "ManagedPtr" /\ arg.type = "Ref" /\ back.arg = arg /\ back.buffer = Here(t).next
    BY Zenon, <1>1, <1>2 DEF MarshalRef
<1>4. \/ \E pin : /\ arg.origin \in {"Heap", "Cross"} /\ (arg.origin = "Heap" => arg.o \in pin)
                  /\ Marshalled(t, BytesBuffer(Padded(CopyOf(arg.o, arg.offset), Word)), pin, {}, <<back>>)
      \/ /\ arg.origin \notin {"Heap", "Cross"}
         /\ Marshalled(t, BytesBuffer(Padded(<<>>, Word)), {}, {}, <<back>>)
      \/ FailMarshal(t, "Error") \/ FailMarshal(t, "Panic")
    BY Zenon, <1>1, <1>2 DEF MarshalRef
<1>5. CASE FailMarshal(t, "Error") \/ FailMarshal(t, "Panic")
    BY <1>5, FailMarshalKept
<1>6. ASSUME NEW pin, arg.origin = "Heap" => arg.o \in pin
      PROVE  Noted(Here(t), back, pin)
    BY Zenon, <1>1, <1>3, <1>6, MarshalFacts DEF Noted, Argument
<1>7. ASSUME NEW bytes, NEW pin
      PROVE  Offered(t, Here(t), BytesBuffer(bytes), pin, {})
    BY BufferTo, MarshalFacts DEF Offered, None
<1>8. ASSUME NEW pin, arg.origin \in {"Heap", "Cross"}, arg.origin = "Heap" => arg.o \in pin,
             Marshalled(t, BytesBuffer(Padded(CopyOf(arg.o, arg.offset), Word)), pin, {}, <<back>>)
      PROVE  IInv'
    <2>1. arg.o \in HeapObjects /\ arg.offset \in Nat
        BY Zenon, <1>1, <1>3, <1>8, MarshalFacts DEF ProperArg
    <2>2. PICK bytes : bytes = Padded(CopyOf(arg.o, arg.offset), Word)
        OBVIOUS
    <2>3. WordOK(Given, back, bytes)
        BY Zenon, <1>3, <2>1, <2>2, CopiedWord DEF IInv
    <2>4. PICK buffer, backs : buffer = BytesBuffer(bytes) /\ backs = <<back>>
        BY Zenon
    <2>5. buffer.bytes = bytes
        BY <2>4, BufferTo
    <2>6. Marshalled(t, buffer, pin, {}, backs) /\ Offered(t, Here(t), buffer, pin, {})
        BY <1>7, <1>8, <2>2, <2>4
    <2>7. backs = <<back>> /\ Noted(Here(t), back, pin) /\ WordOK(Given, back, buffer.bytes)
        BY <1>6, <1>8, <2>3, <2>4, <2>5
    <2> QED BY <2>6, <2>7, MarshalledKept
<1>9. CASE /\ arg.origin \notin {"Heap", "Cross"}
           /\ Marshalled(t, BytesBuffer(Padded(<<>>, Word)), {}, {}, <<back>>)
    <2>1. PICK buffer, backs : buffer = BytesBuffer(Padded(<<>>, Word)) /\ backs = <<back>>
        BY Zenon
    <2>2. WordOK(Given, back, buffer.bytes)
        BY <1>3, <1>9 DEF WordOK, BehindLock
    <2>3. Marshalled(t, buffer, {}, {}, backs) /\ Offered(t, Here(t), buffer, {}, {})
        BY <1>7, <1>9, <2>1
    <2>4. backs = <<back>> /\ Noted(Here(t), back, {}) /\ WordOK(Given, back, buffer.bytes)
        BY <1>6, <1>9, <2>1, <2>2
    <2> QED BY <2>3, <2>4, MarshalledKept
<1> QED BY <1>4, <1>5, <1>8, <1>9

(* Pass 1 keeps the invariant. *)
LEMMA MarshalKept ==
    ASSUME IInv, NEW t \in Threads, Marshal(t)
    PROVE  IInv'
BY MarshalIntegerKept, MarshalPlainKept, MarshalObjectKept, MarshalAddressKept, MarshalRefKept DEF Marshal

-----------------------------------------------------------------------------
(* The native code, and what follows it. *)

(* Native code writes only to objects that its call gives it whole. *)
LEMMA NativeWrites ==
    ASSUME IInv, NEW t \in Threads, NEW o \in Passed(t)
    PROVE  o \in Given
<1>1. PICK i \in DOMAIN Here(t).buffers : o = Here(t).buffers[i].to /\ o \in HeapObjects
    BY DEF Passed
<1>2. \E a \in DOMAIN Here(t).call.args : GivenWhole(Here(t).call.args[a], o)
    BY Zenon, <1>1, ThreadFacts DEF EscapesOK
<1> QED BY <1>1, <1>2 DEF Given, Gives

(* A byte stored into an object that is given whole. *)
LEMMA StoredByte ==
    ASSUME NEW given, NEW bytes, NEW after, NEW o \in HeapObjects, o \in given, NEW i,
           BytesOK(given, bytes), after = [bytes EXCEPT ![o][i] = Written]
    PROVE  BytesOK(given, after)
<1>1. PICK row : row = [bytes[o] EXCEPT ![i] = Written]
    BY Zenon
<1>2. after = [bytes EXCEPT ![o] = row]
    BY <1>1
<1>3. bytes = [p \in HeapObjects |-> bytes[p]]
    BY DEF BytesOK
<1>4. after = [p \in HeapObjects |-> after[p]] /\ after[o] = row
      /\ \A p \in HeapObjects \ {o} : after[p] = bytes[p]
    BY Zenon, <1>2, <1>3
<1>5. bytes[o] = [j \in 1 .. PayloadSize |-> bytes[o][j]]
    BY DEF BytesOK
<1>6. row = [j \in 1 .. PayloadSize |-> row[j]]
      /\ \A j \in 1 .. PayloadSize : row[j] = bytes[o][j] \/ row[j] = Written
    BY Zenon, <1>1, <1>5
<1>7. ASSUME NEW p \in HeapObjects
      PROVE  /\ after[p] = [j \in 1 .. PayloadSize |-> after[p][j]]
             /\ \A j \in 1 .. PayloadSize : ByteOK(given, p, j, after[p][j])
    <2>1. CASE p = o
        BY ZenonT(60), <1>4, <1>6, <2>1 DEF BytesOK, ByteOK
    <2>2. CASE p # o
        BY SMTT(30), <1>4, <2>2 DEF BytesOK
    <2> QED BY <2>1, <2>2
<1>8. after = [p \in HeapObjects |-> [j \in 1 .. PayloadSize |-> after[p][j]]]
    BY Zenon, <1>4, <1>7
<1> QED BY Zenon, <1>7, <1>8 DEF BytesOK

(* The native code runs. *)
LEMMA RunNativeKept ==
    ASSUME IInv, NEW t \in Threads, RunNative(t)
    PROVE  IInv'
<1>1. /\ Here(t).at = "marshal" /\ Here(t).next > Len(Here(t).call.args)
      /\ UNCHANGED <<pinnedBy, queued, cached, open, gone>>
    BY DEF RunNative, InNative
<1>2. PICK bits : Move(t, [Here(t) EXCEPT !.at = "restore", !.returned = bits])
    BY Zenon DEF RunNative
<1>3. PICK r, pinned : r = Here(t) /\ pinned = pinnedBy[t]
    OBVIOUS
<1>4. PICK s : s = AtReturned(r, "restore", bits)
    OBVIOUS
<1>5. Move(t, s)
    BY <1>2, <1>3, <1>4 DEF AtReturned
<1>6. /\ CountersOK(r) /\ EscapesOK(t, r) /\ PinsOK(r, pinned)
      /\ LibraryOK(t, r, cached, open) /\ WordsOK(Given, r) /\ Shaped(r) /\ ~Escaping(r)
    BY <1>1, <1>3, ThreadFacts, NoEscapes
<1>7. Advanced(r, s) /\ s.at = "restore" /\ s.bound = r.bound
    <2>1. Shaped(r)
        BY Zenon, <1>6
    <2> QED BY <1>4, <2>1, ReturnedUpdate
<1>8. s.call = r.call /\ s.buffers = r.buffers /\ s.backs = r.backs
    BY <1>7 DEF Advanced
<1>9. CountersOK(s) /\ EscapesOK(t, s) /\ PinsOK(s, pinned)
    <2>1. r.at # "done" /\ s.at \in Places \ {"done"} /\ s.at \notin Early /\ r.next > Len(r.call.args)
        BY <1>1, <1>3, <1>7 DEF Places, Early
    <2> QED BY <1>6, <1>7, <2>1, AdvancedOK
<1>10. Moved(t, s) /\ Given' = Given
    BY <1>3, <1>5, <1>8, MovedFacts DEF IInv
<1>11. ThreadInv'
    <2>1. pinnedBy' = [pinnedBy EXCEPT ![t] = pinned]
        BY <1>1, <1>3, SamePins DEF IInv
    <2> QED BY Zenon, <1>3, <1>5, <1>8, <1>9, <2>1, ThreadKept DEF IInv
<1>12. LibraryInv'
    <2>1. LibraryOK(t, s, cached, open)
        BY Zenon, <1>6, <1>7, <1>8 DEF LibraryOK
    <2> QED BY <1>1, <1>10, <2>1, LibrarySame DEF IInv
<1>13. MemoryInv'
    <2>1. PICK given : given = Given
        OBVIOUS
    <2>2. BytesOK(given, payload)
        BY <2>1 DEF IInv, MemoryInv
    <2>3. BytesOK(given, payload')
        <3>1. CASE UNCHANGED payload
            BY <2>2, <3>1
        <3>2. ASSUME NEW o \in Passed(t), NEW i, payload' = [payload EXCEPT ![o][i] = Written]
              PROVE  BytesOK(given, payload')
            <4>1. o \in given /\ o \in HeapObjects
                BY <2>1, NativeWrites DEF Passed
            <4>2. PICK bytes, after : bytes = payload /\ after = payload'
                OBVIOUS
            <4>3. after = [bytes EXCEPT ![o][i] = Written]
                BY <3>2, <4>2
            <4> QED BY Zenon, <2>2, <4>1, <4>2, <4>3, StoredByte
        <3> QED BY <3>1, <3>2 DEF RunNative
    <2>4. ASSUME NEW u \in Threads
          PROVE  WordsOK(given, Here(u)')
        <3>1. CASE u = t
            <4>1. WordsOK(given, s)
                BY <1>6, <1>8, <2>1 DEF WordsOK
            <4> QED BY <1>10, <3>1, <4>1 DEF Moved
        <3>2. CASE u # t
            BY <1>10, <2>1, <3>2, ThreadFacts DEF Moved
        <3> QED BY <3>1, <3>2
    <2>5. Given' = given
        BY <1>10, <2>1
    <2> QED BY <2>3, <2>4, <2>5 DEF MemoryInv
<1>14. QueueInv'
    <2>1. queued[t] = None
        BY <1>1, NotQueued DEF IInv
    <2> QED BY <1>1, <1>10, <2>1, QueueSame DEF IInv
<1> QED BY <1>11, <1>12, <1>13, <1>14 DEF IInv

(* What is known of the word that a thread is to write back. *)
LEMMA BackFacts ==
    ASSUME IInv, NEW t \in Threads, Restoring(t)
    PROVE  /\ \E a \in DOMAIN Here(t).call.args : Back(t).arg = Here(t).call.args[a]
           /\ Back(t).arg.is = "ManagedPtr" /\ Back(t).arg.type = "Ref"
           /\ Back(t).arg.origin = "Heap" => Back(t).arg.o \in Here(t).pins
           /\ WordOK(Given, Back(t), Here(t).buffers[Back(t).buffer].bytes)
           /\ BehindLock(Back(t)) => Back(t).arg.o \in HeapObjects /\ Back(t).arg.offset \in Nat
<1>1. PICK r : r = Here(t)
    OBVIOUS
<1>2. PICK k : k = r.restored + 1
    OBVIOUS
<1>3. /\ CountersOK(r) /\ EscapesOK(t, r) /\ WordsOK(Given, r) /\ ProperCall(t, r.call)
      /\ r.restored < Len(r.backs)
    BY <1>1, ThreadFacts, CallFacts DEF IInv, Restoring
<1>4. k \in DOMAIN r.backs
    <2>1. Len(r.backs) \in Nat /\ DOMAIN r.backs = 1 .. Len(r.backs) /\ r.restored \in Nat
        BY <1>3, AppendSeq DEF CountersOK
    <2>2. r.restored < Len(r.backs)
        BY Zenon, <1>3
    <2>3. \A i, n \in Nat : i < n => i + 1 \in 1 .. n
        OBVIOUS
    <2> QED BY Zenon, <1>2, <2>1, <2>2, <2>3
<1>5. Back(t) = r.backs[k]
    BY <1>1, <1>2 DEF Back
<1>6. /\ \E a \in DOMAIN r.call.args : r.backs[k].arg = r.call.args[a]
      /\ r.backs[k].arg.is = "ManagedPtr" /\ r.backs[k].arg.type = "Ref"
      /\ r.backs[k].arg.origin = "Heap" => r.backs[k].arg.o \in r.pins
    BY <1>3, <1>4 DEF EscapesOK
<1>7. WordOK(Given, r.backs[k], r.buffers[r.backs[k].buffer].bytes)
    BY <1>3, <1>4 DEF WordsOK
<1>8. ProperArg(t, r.backs[k].arg)
    BY <1>3, <1>6 DEF ProperCall
<1>9. BehindLock(r.backs[k]) => r.backs[k].arg.o \in HeapObjects /\ r.backs[k].arg.offset \in Nat
    BY <1>6, <1>8 DEF ProperArg, BehindLock
<1> QED BY Zenon, <1>1, <1>5, <1>6, <1>7, <1>9

(* A thread joins the queue of an object that has none. *)
LEMMA AwaitLockKept ==
    ASSUME IInv, NEW t \in Threads, AwaitLock(t)
    PROVE  IInv'
<1>1. PICK o : o = Back(t).arg.o
    OBVIOUS
<1>2. /\ Restoring(t) /\ BehindLock(Back(t)) /\ ~OwnerGone(Back(t)) /\ CanRead(o)
      /\ queued' = [queued EXCEPT ![t] = o]
      /\ UNCHANGED <<invocations, pinnedBy, payload, cached, open, gone>>
    BY <1>1 DEF AwaitLock
<1>3. \A u \in Threads : Here(u)' = Here(u)
    BY <1>2 DEF Here
<1>4. ThreadInv'
    BY <1>2, <1>3 DEF IInv, ThreadInv
<1>5. LibraryInv'
    BY <1>2, <1>3 DEF IInv, LibraryInv, HandleKept, HandleOf
<1>6. Given' = Given
    BY <1>3 DEF Given, Gives
<1>7. MemoryInv'
    BY <1>2, <1>3, <1>6 DEF IInv, MemoryInv
<1>8. QueueInv'
    <2>1. queued = [u \in Threads |-> queued[u]]
        BY DEF IInv, QueueInv
    <2>2. queued'[t] = o /\ queued' = [u \in Threads |-> queued'[u]]
          /\ \A u \in Threads \ {t} : queued'[u] = queued[u] /\ queued[u] # o
        BY <1>2, <2>1 DEF CanRead
    <2>3. QueuedOK(Here(t), o, gone)
        BY Zenon, <1>1, <1>2 DEF QueuedOK, Restoring, Back, OwnerGone
    <2>4. ASSUME NEW u \in Threads, queued'[u] # None
          PROVE  /\ QueuedOK(Here(u)', queued'[u], gone')
                 /\ \A v \in Threads : queued'[v] = queued'[u] => v = u
        <3>1. CASE u = t
            BY <1>2, <1>3, <2>2, <2>3, <3>1
        <3>2. CASE u # t
            BY <1>2, <1>3, <2>2, <2>4, <3>2 DEF IInv, QueueInv
        <3> QED BY <3>1, <3>2
    <2> QED BY <2>2, <2>4 DEF QueueInv
<1> QED BY <1>4, <1>5, <1>7, <1>8 DEF IInv

(* A thread leaves the queue it may be in. *)
LEMMA QueueLeft ==
    ASSUME QueueInv, NEW t \in Threads, NEW s, Moved(t, s), UNCHANGED gone,
           queued' = [queued EXCEPT ![t] = None]
    PROVE  QueueInv'
<1>1. queued = [u \in Threads |-> queued[u]]
    BY DEF QueueInv
<1>2. queued'[t] = None /\ queued' = [u \in Threads |-> queued'[u]]
      /\ \A u \in Threads \ {t} : queued'[u] = queued[u]
    BY <1>1
<1>3. ASSUME NEW u \in Threads, queued'[u] # None
      PROVE  /\ QueuedOK(Here(u)', queued'[u], gone')
             /\ \A v \in Threads : queued'[v] = queued'[u] => v = u
    <2>1. u # t /\ queued'[u] = queued[u] /\ Here(u)' = Here(u)
        BY <1>2, <1>3 DEF Moved
    <2> QED BY <1>2, <1>3, <2>1 DEF QueueInv
<1> QED BY <1>2, <1>3 DEF QueueInv

(* A word of an object's own bytes, written back to where it came from. *)
LEMMA OverwrittenBytes ==
    ASSUME NEW given, NEW bytes, NEW after, NEW o \in HeapObjects, NEW offset \in Nat, NEW word, NEW back,
           BytesOK(given, bytes), WordOK(given, back, word), BehindLock(back),
           back.arg.o = o, back.arg.offset = offset, offset + Word <= PayloadSize,
           after = [bytes EXCEPT ![o] = Overwritten(@, offset, word)]
    PROVE  BytesOK(given, after)
<1>1. PICK row : row = Overwritten(bytes[o], offset, word)
    OBVIOUS
<1>2. after = [bytes EXCEPT ![o] = row]
    BY <1>1
<1>3. bytes = [p \in HeapObjects |-> bytes[p]]
    BY DEF BytesOK
<1>4. after = [p \in HeapObjects |-> after[p]] /\ after[o] = row
      /\ \A p \in HeapObjects \ {o} : after[p] = bytes[p]
    BY <1>2, <1>3
<1>5. bytes[o] = [j \in 1 .. PayloadSize |-> bytes[o][j]]
    BY DEF BytesOK
<1>6. row = [j \in 1 .. PayloadSize |-> row[j]]
      /\ \A j \in 1 .. PayloadSize :
            row[j] = IF j - offset \in 1 .. Word THEN word[j - offset] ELSE bytes[o][j]
    BY <1>1, <1>5 DEF Overwritten
<1>7. PayloadSize \in Nat /\ Word = 8
    BY PInvokeAssumption DEF Word
<1>8. ASSUME NEW j \in 1 .. PayloadSize
      PROVE  ByteOK(given, o, j, row[j])
    <2>1. CASE j - offset \in 1 .. Word
        <3>1. PICK k \in 1 .. Word : k = j - offset
            BY <2>1
        <3>2. offset + k = j /\ offset + k <= PayloadSize
            BY <1>7, <3>1
        <3>3. ByteOK(given, o, offset + k, word[k])
            BY <3>2 DEF WordOK
        <3> QED BY <1>6, <2>1, <3>1, <3>2, <3>3
    <2>2. CASE j - offset \notin 1 .. Word
        BY <1>6, <2>2 DEF BytesOK
    <2> QED BY <2>1, <2>2
<1>9. ASSUME NEW p \in HeapObjects
      PROVE  /\ after[p] = [j \in 1 .. PayloadSize |-> after[p][j]]
             /\ \A j \in 1 .. PayloadSize : ByteOK(given, p, j, after[p][j])
    <2>1. CASE p = o
        BY <1>4, <1>6, <1>8, <2>1
    <2>2. CASE p # o
        BY SMTT(30), <1>4, <2>2 DEF BytesOK
    <2> QED BY <2>1, <2>2
<1>10. after = [p \in HeapObjects |-> [j \in 1 .. PayloadSize |-> after[p][j]]]
    BY Zenon, <1>4, <1>9
<1> QED BY Zenon, <1>9, <1>10 DEF BytesOK

(* Words are written back, one after the other, until one cannot be. *)
LEMMA WriteBackKept ==
    ASSUME IInv, NEW t \in Threads, WriteBack(t)
    PROVE  IInv'
<1>1. PICK back, word : back = Back(t) /\ word = Here(t).buffers[back.buffer].bytes
    OBVIOUS
<1>2. Restoring(t) /\ queued' = [queued EXCEPT ![t] = None] /\ UNCHANGED <<cached, open, gone>>
    BY DEF WriteBack
<1>3. Here(t).at = "restore" /\ Here(t).restored < Len(Here(t).backs)
    BY <1>2 DEF Restoring
<1>4. \/ FailWriteBack(t) /\ UNCHANGED payload
      \/ /\ UNCHANGED pinnedBy /\ Move(t, [Here(t) EXCEPT !.restored = @ + 1])
         /\ \/ UNCHANGED payload
            \/ /\ BehindLock(back) /\ back.arg.offset + Word <= PayloadSize
               /\ payload' = [payload EXCEPT ![back.arg.o] = Overwritten(@, back.arg.offset, word)]
    <2>1. BehindLock(Back(t)) => Back(t).arg.offset \in Nat
        BY <1>2, BackFacts
    <2>2. PayloadSize \in Nat /\ Word = 8
        BY PInvokeAssumption DEF Word
    <2>3. BehindLock(Back(t)) /\ ~(Back(t).arg.offset + Word > PayloadSize)
            => Back(t).arg.offset + Word <= PayloadSize
        BY <2>1, <2>2
    <2> QED BY <1>1, <2>3 DEF WriteBack
<1>5. CASE FailWriteBack(t) /\ UNCHANGED payload
    <2>1. PICK operands, value : operands = Here(t).operands /\ value = NoValue
        OBVIOUS
    <2>2. EndIn(t, "Error", operands, value) /\ Unpinned(t)
        BY <1>5, <2>1 DEF FailWriteBack, Refuse
    <2>3. ThreadInv' /\ LibraryInv' /\ MemoryInv' /\ \E s : Moved(t, s)
        BY <1>2, <1>3, <1>5, <2>2, EndedKept
    <2>4. QueueInv'
        BY Zenon, <1>2, <2>3, QueueLeft DEF IInv
    <2> QED BY <2>3, <2>4 DEF IInv
<1>6. CASE /\ UNCHANGED pinnedBy /\ Move(t, [Here(t) EXCEPT !.restored = @ + 1])
           /\ \/ UNCHANGED payload
              \/ /\ BehindLock(back) /\ back.arg.offset + Word <= PayloadSize
                 /\ payload' = [payload EXCEPT ![back.arg.o] = Overwritten(@, back.arg.offset, word)]
    <2>1. PICK r, pinned, given : r = Here(t) /\ pinned = pinnedBy[t] /\ given = Given
        OBVIOUS
    <2>2. PICK s : s = [r EXCEPT !.restored = @ + 1]
        BY Zenon
    <2>3. Move(t, s)
        BY <1>6, <2>1, <2>2
    <2>4. /\ CountersOK(r) /\ EscapesOK(t, r) /\ PinsOK(r, pinned)
          /\ LibraryOK(t, r, cached, open) /\ WordsOK(given, r) /\ Shaped(r)
        BY <2>1, ThreadFacts
    <2>5. Restored(r, s)
        BY <2>2, <2>4, RestoreUpdate
    <2>6. /\ s.call = r.call /\ s.at = r.at /\ s.bound = r.bound
          /\ s.buffers = r.buffers /\ s.backs = r.backs
        BY <2>5 DEF Restored
    <2>7. CountersOK(s) /\ EscapesOK(t, s) /\ PinsOK(s, pinned)
        BY <1>3, <2>1, <2>4, <2>5, RestoredOK
    <2>8. Moved(t, s) /\ Given' = given
        BY <2>1, <2>3, <2>6, MovedFacts DEF IInv
    <2>9. ThreadInv'
        <3>1. pinnedBy' = [pinnedBy EXCEPT ![t] = pinned]
            BY <1>6, <2>1, SamePins DEF IInv
        <3> QED BY Zenon, <2>1, <2>3, <2>6, <2>7, <3>1, ThreadKept DEF IInv
    <2>10. LibraryInv'
        <3>1. LibraryOK(t, s, cached, open)
            BY <2>4, <2>6 DEF LibraryOK
        <3> QED BY <1>2, <1>3, <2>8, <3>1, LibrarySame DEF IInv
    <2>11. MemoryInv'
        <3>1. BytesOK(given, payload)
            BY <2>1 DEF IInv, MemoryInv
        <3>2. BytesOK(given, payload')
            <4>1. CASE UNCHANGED payload
                BY <3>1, <4>1
            <4>2. CASE /\ BehindLock(back) /\ back.arg.offset + Word <= PayloadSize
                       /\ payload' = [payload EXCEPT ![back.arg.o] = Overwritten(@, back.arg.offset, word)]
                <5>1. PICK o, offset : o = back.arg.o /\ offset = back.arg.offset
                    OBVIOUS
                <5>2. o \in HeapObjects /\ offset \in Nat /\ WordOK(given, back, word)
                    BY Zenon, <1>1, <1>2, <2>1, <4>2, <5>1, BackFacts
                <5>3. PICK bytes, after : bytes = payload /\ after = payload'
                    OBVIOUS
                <5>4. after = [bytes EXCEPT ![o] = Overwritten(@, offset, word)] /\ BytesOK(given, bytes)
                    BY Zenon, <3>1, <4>2, <5>1, <5>3
                <5>5. BytesOK(given, after)
                    BY Zenon, <4>2, <5>1, <5>2, <5>4, OverwrittenBytes
                <5> QED BY <5>3, <5>5
            <4> QED BY <1>6, <4>1, <4>2
        <3>3. ASSUME NEW u \in Threads
              PROVE  WordsOK(given, Here(u)')
            <4>1. CASE u = t
                <5>1. WordsOK(given, s)
                    BY Zenon, <2>4, <2>6 DEF WordsOK
                <5> QED BY <2>8, <4>1, <5>1 DEF Moved
            <4>2. CASE u # t
                BY <2>1, <2>8, <4>2, ThreadFacts DEF Moved
            <4> QED BY <4>1, <4>2
        <3> QED BY <2>8, <3>2, <3>3 DEF MemoryInv
    <2>12. QueueInv'
        BY Zenon, <1>2, <2>8, QueueLeft DEF IInv
    <2> QED BY <2>9, <2>10, <2>11, <2>12 DEF IInv
<1> QED BY <1>4, <1>5, <1>6

(* The call returns. *)
LEMMA FinishKept ==
    ASSUME IInv, NEW t \in Threads, Finish(t)
    PROVE  IInv'
<1>1. /\ Here(t).at = "restore" /\ Here(t).restored = Len(Here(t).backs) /\ Unpinned(t)
      /\ UNCHANGED <<payload, queued, cached, open, gone>>
    BY DEF Finish
<1>2. PICK value : EndIn(t, "Continue", 0, value)
    BY DEF Finish
<1>3. ThreadInv' /\ LibraryInv' /\ MemoryInv' /\ \E s : Moved(t, s)
    BY Zenon, <1>1, <1>2, EndedKept
<1>4. queued[t] = None
    <2>1. Here(t).restored \in Nat
        BY Zenon, ThreadFacts DEF CountersOK
    <2>2. ~(Here(t).restored < Len(Here(t).backs))
        BY <1>1, <2>1
    <2> QED BY <2>2, NotQueued DEF IInv
<1>5. QueueInv'
    BY <1>1, <1>3, <1>4, QueueSame DEF IInv
<1> QED BY <1>3, <1>5 DEF IInv

(* An arena goes when nobody queues for an object of it. *)
LEMMA LeaveArenaKept ==
    ASSUME IInv, NEW t \in Threads, LeaveArena(t)
    PROVE  IInv'
<1>1. /\ gone' = gone \cup {t} /\ UNCHANGED <<invocations, pinnedBy, payload, queued, cached, open>>
      /\ \A u \in Threads : queued[u] \in HeapObjects => OwnerOf[queued[u]] # t
    BY DEF LeaveArena
<1>2. \A u \in Threads : Here(u)' = Here(u)
    BY <1>1 DEF Here
<1>3. ThreadInv'
    BY <1>1, <1>2 DEF IInv, ThreadInv
<1>4. LibraryInv'
    BY <1>1, <1>2 DEF IInv, LibraryInv, HandleKept, HandleOf
<1>5. Given' = Given
    BY <1>2 DEF Given, Gives
<1>6. MemoryInv'
    BY <1>1, <1>2, <1>5 DEF IInv, MemoryInv
<1>7. QueueInv'
    <2>1. ASSUME NEW u \in Threads, queued[u] # None
          PROVE  QueuedOK(Here(u), queued[u], gone')
        <3>1. QueuedOK(Here(u), queued[u], gone)
            BY <2>1 DEF IInv, QueueInv
        <3>2. Restoring(u) /\ BehindLock(Back(u)) /\ queued[u] = Back(u).arg.o
            BY <3>1 DEF QueuedOK, Restoring, Back
        <3>3. OwnerOf[Back(u).arg.o] # t
            BY <1>1, <3>2, BackFacts
        <3> QED BY <1>1, <3>1, <3>3 DEF QueuedOK, Back
    <2> QED BY <1>1, <1>2, <2>1 DEF IInv, QueueInv
<1> QED BY <1>3, <1>4, <1>6, <1>7 DEF IInv

-----------------------------------------------------------------------------
(* The invariant. *)

(* It holds before any call has begun. *)
LEMMA InitIInv ==
    ASSUME PInvokeInit
    PROVE  IInv
<1>1. PICK p \in Programs : invocations = [t \in Threads |-> Started(p[t])]
    BY DEF PInvokeInit
<1>2. ASSUME NEW t \in Threads
      PROVE  /\ Here(t) = Started(p[t]) /\ pinnedBy[t] = p[t].handles /\ queued[t] = None
             /\ ProperCall(t, p[t])
    <2>1. Here(t) = Started(p[t])
        BY <1>1 DEF Here
    <2>2. Here(t).call = p[t]
        BY <2>1 DEF Started
    <2> QED BY <2>1, <2>2, PInvokeAssumption DEF PInvokeInit
<1>3. ASSUME NEW c
      PROVE  /\ Shaped(Started(c)) /\ Started(c).call = c /\ Started(c).at = "enter" /\ Started(c).next = 1
             /\ Started(c).buffers = <<>> /\ Started(c).backs = <<>> /\ Started(c).restored = 0
             /\ Started(c).pins = {} /\ Started(c).guards = {} /\ Started(c).bound = NoHandle
    BY Zenon DEF Started, Shaped, Fields
<1>4. IsSeq(<<>>) /\ Len(<<>>) = 0 /\ DOMAIN <<>> = {}
    BY DEF IsSeq
<1>5. ThreadInv
    <2>1. ASSUME NEW t \in Threads
          PROVE  /\ Here(t).call \in CallsOf(t)
                 /\ CountersOK(Here(t)) /\ EscapesOK(t, Here(t)) /\ PinsOK(Here(t), pinnedBy[t])
        <3>1. PICK r : r = Here(t)
            OBVIOUS
        <3>2. /\ Shaped(r) /\ r.call = p[t] /\ r.at = "enter" /\ r.next = 1
              /\ r.buffers = <<>> /\ r.backs = <<>> /\ r.restored = 0
              /\ r.pins = {} /\ r.guards = {} /\ r.bound = NoHandle /\ pinnedBy[t] = r.call.handles
            BY <1>2, <1>3, <3>1
        <3>3. CountersOK(r)
            <4>1. Len(r.call.args) \in Nat
                BY <1>2, <3>2 DEF ProperCall
            <4> QED BY <1>4, <3>2, <4>1 DEF CountersOK, Places
        <3>4. EscapesOK(t, r)
            BY <1>4, <3>2 DEF EscapesOK
        <3>5. PinsOK(r, pinnedBy[t])
            BY <3>2 DEF PinsOK
        <3> QED BY <3>1, <3>2, <3>3, <3>4, <3>5 DEF CallsOf
    <2>2. invocations = [t \in Threads |-> Here(t)]
        BY <1>1 DEF Here
    <2>3. pinnedBy = [t \in Threads |-> pinnedBy[t]]
        BY DEF PInvokeInit
    <2> QED BY <2>1, <2>2, <2>3 DEF ThreadInv
<1>6. LibraryInv
    <2>1. ASSUME NEW t \in Threads
          PROVE  LibraryOK(t, Here(t), cached, open)
        <3>1. Here(t).at = "enter" /\ Here(t).bound = NoHandle /\ open = {}
            <4>1. Here(t) = Started(p[t])
                BY Zenon, <1>2
            <4>2. Here(t).at = "enter" /\ Here(t).bound = NoHandle
                BY <1>3, <4>1
            <4>3. open = {}
                BY Zenon DEF PInvokeInit
            <4> QED BY Zenon, <4>2, <4>3
        <3> QED BY <3>1 DEF LibraryOK
    <2> QED BY <2>1 DEF LibraryInv, PInvokeInit
<1>7. MemoryInv
    <2>1. ASSUME NEW t \in Threads
          PROVE  WordsOK(Given, Here(t))
        <3>1. Here(t).backs = <<>>
            BY <1>2, <1>3
        <3> QED BY <1>4, <3>1 DEF WordsOK
    <2>2. PICK given : given = Given
        OBVIOUS
    <2>3. BytesOK(given, payload)
        BY DEF PInvokeInit, BytesOK, ByteOK
    <2> QED BY <2>1, <2>2, <2>3 DEF MemoryInv
<1>8. QueueInv
    BY DEF PInvokeInit, QueueInv
<1> QED BY <1>5, <1>6, <1>7, <1>8 DEF IInv

(* A state that is the same for all variables is as sound. *)
LEMMA StutterKept ==
    ASSUME IInv, UNCHANGED invokeVars
    PROVE  IInv'
<1>1. UNCHANGED <<invocations, pinnedBy, payload, queued, cached, open, gone>>
    BY DEF invokeVars
<1>2. \A u \in Threads : Here(u)' = Here(u)
    BY <1>1 DEF Here
<1>3. ThreadInv'
    BY <1>1, <1>2 DEF IInv, ThreadInv
<1>4. LibraryInv'
    BY <1>1, <1>2 DEF IInv, LibraryInv, HandleKept, HandleOf
<1>5. Given' = Given
    BY <1>2 DEF Given, Gives
<1>6. MemoryInv'
    BY <1>1, <1>2, <1>5 DEF IInv, MemoryInv
<1>7. QueueInv'
    BY <1>1, <1>2 DEF IInv, QueueInv
<1> QED BY <1>3, <1>4, <1>6, <1>7 DEF IInv

(* Every step of every thread keeps it. *)
LEMMA NextIInv ==
    ASSUME IInv, [PInvokeNext]_invokeVars
    PROVE  IInv'
<1>1. CASE UNCHANGED invokeVars
    BY <1>1, StutterKept
<1>2. CASE Halt
    BY <1>2, StutterKept DEF Halt
<1>3. ASSUME NEW t \in Threads, InvokeStep(t)
      PROVE  IInv'
    BY <1>3, PreflightKept, FindLibraryKept, LoadLibraryKept, InsertLibraryKept, BindFunctionKept,
       MarshalKept, RunNativeKept, AwaitLockKept, WriteBackKept, FinishKept, LeaveArenaKept DEF InvokeStep
<1> QED BY <1>1, <1>2, <1>3 DEF PInvokeNext

(* Whatever native calls threads make at the same time, the invariant holds. *)
THEOREM InvokeInvariant == PInvokeSpec => []IInv
<1>1. PInvokeInit => IInv
    BY InitIInv
<1>2. IInv /\ [PInvokeNext]_invokeVars => IInv'
    BY NextIInv
<1> QED BY <1>1, <1>2, PTL DEF PInvokeSpec

-----------------------------------------------------------------------------
(* The results. *)

(* While native code has an object's address the object is the thread's own, pinned *)
(* and locked against writers, and what is behind a ref argument of the thread's own *)
(* arena stays pinned until it is written back (marshal_args, apply_write_backs).    *)
THEOREM EscapesAreGuarded == PInvokeSpec => []EscapesGuarded
<1>1. ASSUME IInv
      PROVE  EscapesGuarded
    <2> SUFFICES ASSUME NEW t \in Threads
                 PROVE  /\ InNative(t) => Passed(t) \subseteq Here(t).guards \cap pinnedBy[t]
                        /\ \A o \in Passed(t) : OwnerOf[o] = t
                        /\ Restoring(t) /\ Back(t).arg.origin = "Heap" => Back(t).arg.o \in pinnedBy[t]
        BY DEF EscapesGuarded
    <2>1. PICK r : r = Here(t)
        OBVIOUS
    <2>2. EscapesOK(t, r) /\ PinsOK(r, pinnedBy[t])
        BY <1>1, <2>1, ThreadFacts
    <2>3. r.at # "done" => r.guards \subseteq r.pins /\ r.pins \subseteq pinnedBy[t]
        BY <2>2 DEF EscapesOK, PinsOK
    <2>4. ASSUME NEW o \in Passed(t)
          PROVE  OwnerOf[o] = t /\ (r.at # "done" => o \in r.guards)
        <3>1. PICK i \in DOMAIN r.buffers : o = r.buffers[i].to /\ o \in HeapObjects
            BY <2>1 DEF Passed
        <3> QED BY <2>2, <3>1 DEF EscapesOK
    <2>5. ASSUME Restoring(t), Back(t).arg.origin = "Heap"
          PROVE  Back(t).arg.o \in pinnedBy[t]
        BY <1>1, <2>1, <2>3, <2>5, BackFacts DEF Restoring
    <2> QED BY <2>1, <2>3, <2>4, <2>5 DEF InNative
<1> QED BY <1>1, InvokeInvariant, PTL

(* A call that came as far as the native code, or threw, has unpinned what it pinned; *)
(* one that is refused because an address of another arena would get out has pinned   *)
(* nothing; no call unpins what is not its own, handles that share an object apart.   *)
THEOREM PinsAreEnded == PInvokeSpec => []PinsEnd
<1>1. ASSUME IInv
      PROVE  PinsEnd
    <2>1. ASSUME NEW t \in Threads, NEW i, i = Here(t)
          PROVE  /\ i.call.handles \ i.pins \subseteq pinnedBy[t]
                 /\ i.at = "done" /\ (i.next > Len(i.call.args) \/ i.outcome = "Exception")
                      => pinnedBy[t] = i.call.handles \ i.pins
                 /\ i.at = "done" /\ (\E a \in DOMAIN i.call.args :
                                        i.call.args[a].type # "Ref" /\ i.call.args[a].is \in {"TypedRef", "ManagedPtr"}
                                        /\ i.call.args[a].origin = "Cross")
                      => pinnedBy[t] = i.call.handles
        <3>1. PinsOK(i, pinnedBy[t])
            BY <1>1, <2>1, ThreadFacts
        <3>2. (\E a \in DOMAIN i.call.args :
                  i.call.args[a].type # "Ref" /\ i.call.args[a].is \in {"TypedRef", "ManagedPtr"}
                  /\ i.call.args[a].origin = "Cross") => Escaping(i)
            BY DEF Escaping, EscapesArena
        <3> QED BY <3>1, <3>2 DEF PinsOK
    <2> QED BY <2>1 DEF PinsEnd
<1> QED BY <1>1, InvokeInvariant, PTL

(* However many threads load a library at the same time, one handle of it stays: a    *)
(* function is bound in the library of the table (NativeLibraries::get_library),      *)
(* which is never closed, and every other handle is closed by the thread that has it. *)
THEOREM LibrariesAreKept == PInvokeSpec => []LibraryKept
<1>1. ASSUME IInv
      PROVE  LibraryKept
    <2>1. ASSUME NEW t \in Threads, Here(t).bound # NoHandle
          PROVE  Here(t).bound = cached[Here(t).call.library] /\ Here(t).bound \in open
        <3>1. Here(t).bound = cached[Here(t).call.library]
            BY Zenon, <1>1, <2>1, ThreadFacts DEF LibraryOK
        <3>2. Here(t).call.library \in DOMAIN Installed
            BY <1>1, CallFacts DEF IInv, ProperCall
        <3> QED BY <1>1, <2>1, <3>1, <3>2 DEF IInv, LibraryInv
    <2>2. ASSUME NEW handle \in open
          PROVE  cached[handle[1]] = handle \/ Here(handle[2]).at = "insert"
        <3>1. PICK u \in Threads : /\ handle = HandleOf(u)
                                   /\ cached[handle[1]] = handle \/ Here(u).at = "insert"
            BY <1>1 DEF IInv, LibraryInv, HandleKept
        <3>2. handle[2] = u
            BY <3>1 DEF HandleOf
        <3> QED BY <3>1, <3>2
    <2> QED BY <2>1, <2>2 DEF LibraryKept
<1> QED BY <1>1, InvokeInvariant, PTL

(* Write backs move no byte: a byte of an object is the one that was there, or one    *)
(* that native code has stored into an object it was given whole.                     *)
THEOREM MemoryIsKept == PInvokeSpec => []MemoryKept
<1>1. ASSUME IInv
      PROVE  MemoryKept
    <2>1. PICK given : given = Given
        OBVIOUS
    <2>2. BytesOK(given, payload)
        BY <1>1, <2>1 DEF IInv, MemoryInv
    <2>3. ASSUME NEW o \in HeapObjects, NEW i \in 1 .. PayloadSize
          PROVE  \/ payload[o][i] = i
                 \/ payload[o][i] = Written /\ \E t \in Threads : Gives(t, GivenWhole, o)
        <3>1. ByteOK(given, o, i, payload[o][i])
            BY <2>2 DEF BytesOK
        <3>2. o \in given => \E t \in Threads : Gives(t, GivenWhole, o)
            BY <2>1 DEF Given
        <3> QED BY <3>1, <3>2 DEF ByteOK
    <2> QED BY <2>3 DEF MemoryKept
<1> QED BY <1>1, InvokeInvariant, PTL

(* Native calls wait for one another without end only over an object that one of them *)
(* has given whole to native code, which stays locked (PinnedGuard), and that is also *)
(* behind a ref argument of one of them, which write_bytes locks to write back.       *)
THEOREM StuckOnlyOverRefs == PInvokeSpec => []StuckOnlyByRefs
<1>1. ASSUME IInv
      PROVE  StuckOnlyByRefs
    <2> SUFFICES ASSUME Halted, NEW t \in Threads, Blocked(t)
                 PROVE  \E v, u \in Threads : \E o \in Here(v).guards :
                            InCall(v) /\ InCall(u) /\ Gives(u, GivenByRef, o)
        BY DEF StuckOnlyByRefs
    <2>1. ASSUME NEW u \in Threads, NEW o \in HeapObjects, queued[u] = o
          PROVE  \E v \in Threads : o \in Here(v).guards /\ InCall(v) /\ InCall(u) /\ Gives(u, GivenByRef, o)
        <3>1. o # None
            BY PInvokeAssumption DEF None
        <3>2. QueuedOK(Here(u), o, gone) /\ \A w \in Threads : queued[w] = o => w = u
            BY <1>1, <2>1, <3>1 DEF IInv, QueueInv
        <3>3. Restoring(u) /\ BehindLock(Back(u)) /\ o = Back(u).arg.o /\ ~Marshalling(u) /\ InCall(u)
            BY Zenon, <3>2 DEF QueuedOK, Restoring, Back, Marshalling, InCall
        <3>4. Blocked(u)
            BY <3>3 DEF Halted
        <3>5. Guarded(o)
            BY Zenon, <3>2, <3>3, <3>4 DEF Blocked, OthersQueued
        <3>6. PICK v \in Threads : o \in Here(v).guards
            BY Zenon, <3>5 DEF Guarded
        <3>7. InCall(v)
            BY Zenon, <1>1, <3>6, ThreadFacts DEF EscapesOK, InCall
        <3>8. Gives(u, GivenByRef, o)
            BY Zenon, <1>1, <3>3, BackFacts DEF Gives, GivenByRef, BehindLock
        <3> QED BY <3>3, <3>6, <3>7, <3>8
    <2>2. \E u \in Threads : queued[u] \in HeapObjects
        <3>1. CASE /\ Marshalling(t) /\ Argument(t).is \in {"ObjectRef", "TypedRef", "ManagedPtr"}
                   /\ Argument(t).origin \in {"Heap", "Cross"} /\ ~CanRead(Argument(t).o)
            <4>1. Argument(t).o \in HeapObjects
                BY <1>1, <3>1, MarshalFacts DEF ProperArg
            <4> QED BY <3>1, <4>1 DEF CanRead
        <3>2. CASE /\ Restoring(t) /\ BehindLock(Back(t))
                   /\ OthersQueued(t, Back(t).arg.o) \/ queued[t] = Back(t).arg.o
            <4>1. Back(t).arg.o \in HeapObjects
                BY <1>1, <3>2, BackFacts
            <4> QED BY <3>2, <4>1 DEF OthersQueued
        <3> QED BY Zenon, <3>1, <3>2 DEF Blocked
    <2> QED BY <2>1, <2>2
<1> QED BY <1>1, InvokeInvariant, PTL
=============================================================================
