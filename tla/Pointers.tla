------------------------------ MODULE Pointers ------------------------------
(***************************************************************************)
(* Managed pointers (byrefs): what they point into, how they are moved,    *)
(* and the three words they occupy when they are stored in a field, an     *)
(* array element or a frame home (dotnet-value/src/pointer).               *)
(*                                                                         *)
(* A stored pointer is decoded again later, when the frame it pointed into *)
(* may have returned, the arena it pointed into may have been torn down    *)
(* and registered again under the same id, and heap addresses may have     *)
(* been recycled by a collection.  The module follows one thread with one  *)
(* pointer on its stack (held) and one stored pointer (slot) through all   *)
(* of these.                                                               *)
(*                                                                         *)
(* A word has 2 * HalfBits bits; the code's has 64.  The fields of the     *)
(* words keep their places relative to that width: three tag bits, three   *)
(* sub-tag bits, half a word of registry id or serial, and what is left of *)
(* word 0 mirrors the low bits of the offset.                              *)
(***************************************************************************)
EXTENDS Integers, Sequences, FiniteSets

LOCAL INSTANCE Bitwise

CONSTANTS
    HalfBits,      \* half the width of a word (the code: 32)
    Statics,       \* types with static storage
    Registered,    \* the type another thread has registered already
    HeapAddrs,     \* addresses the local heap may hand out
    RemoteAddr,    \* the address of the one object of the other arena
    PayloadLen,    \* length of every heap, static and boxed payload
    HomeLen,       \* length of every frame's home block
    Deltas,        \* byte deltas of pointer arithmetic
    Sizes,         \* sizes of accesses
    FirstSerials,  \* where the thread's serial counter may stand at the start
    MaxFrames,     \* bound on the depth of the call stack
    MaxEvents,     \* bound on the frames, objects and registrations together
    CacheCapacity, \* capacity of the decode cache
    Addresses,     \* unmanaged addresses a program may start from
    Offsets        \* bound on the offsets and addresses arithmetic reaches

Half == 2 ^ HalfBits
Word == Half * Half
MirrorMask == 2 ^ (HalfBits - 6)

ASSUME WordAssumption ==
    /\ HalfBits \in Nat /\ HalfBits >= 6
    /\ \A a \in HeapAddrs \cup {RemoteAddr} : a > 0 /\ a % 8 = 0 /\ a < Word
    /\ CacheCapacity \in Nat \ {0}
    /\ Registered \in Statics

VARIABLES
    frames,     \* serials of the live home blocks, innermost last
    serial,     \* next frame-home serial
    heap,       \* live local objects: address -> object number
    objects,    \* local objects allocated so far
    token,      \* token of the other arena's current registration, 0 if none
    tokens,     \* registrations so far
    dedup,      \* static registry: type -> id
    cache,      \* decode cache: the keyed addresses, oldest first, with owners
    held,       \* the pointer on the evaluation stack
    slot,       \* the stored words
    meant,      \* the pointer the slot was written from
    events      \* frames entered, objects allocated and registrations so far

worldVars == <<frames, serial, heap, objects, token, tokens, events>>
pointerVars == <<worldVars, dedup, cache, held, slot, meant>>

-----------------------------------------------------------------------------
(* Pointers.  An unmanaged pointer is its absolute address; its null is 0. *)

Unmanaged(addr) == [origin |-> "Unmanaged", of |-> 0, offset |-> addr]
Null == Unmanaged(0)
At(origin, of, offset) == [origin |-> origin, of |-> of, offset |-> offset]

Refused(why) == [refused |-> why]
IsRefused(r) == "refused" \in DOMAIN r

\* checked_offset: unmanaged addresses wrap, and an address that wraps to zero
\* is the canonical null; managed offsets must stay in half a word.
CheckedOffset(p, bytes) ==
    IF p.origin = "Unmanaged" THEN Unmanaged((p.offset + bytes) % Word)
    ELSE IF p.offset + bytes < 0 THEN Refused("NegativeResult")
    ELSE IF p.offset + bytes >= Half THEN Refused("CompactRangeExceeded")
    ELSE [p EXCEPT !.offset = @ + bytes]

-----------------------------------------------------------------------------
(* The three words.                                                        *)

Checked(w0, w1) == <<w0, w1, w0 ^^ w1>>

Tagged(subtag, field, offset) ==
    7 + 8 * subtag + 64 * (field % Half) + 64 * Half * (offset % MirrorMask)

FrameHomeWords(s, offset) ==
    Checked(Tagged(3, s, offset), offset + Half * (s \div Half))

\* Transient pointers are written, but every decoder rejects their sub-tag.
Words(p, ids, addrOf) ==
    CASE p.origin = "Heap"      -> Checked(addrOf[p.of], p.offset)
      [] p.origin = "Static"    -> Checked(Tagged(1, ids[p.of], p.offset), p.offset)
      [] p.origin = "Unmanaged" -> Checked(0, p.offset)
      [] p.origin = "Cross"     -> Checked(RemoteAddr + 5, (p.offset % Half) + Half * p.of)
      [] p.origin = "FrameHome" -> FrameHomeWords(p.of, p.offset)
      [] p.origin = "Transient" -> Checked((7 + 8 * 2 + 64 * p.offset) % Word, p.offset)

MirrorAgrees(w0, offset) ==
    w0 \div (64 * Half) = offset % MirrorMask

ParseFrameHome(w0, w1) ==
    IF ~MirrorAgrees(w0, w1 % Half) THEN Refused("OffsetMismatch")
    ELSE At("FrameHome",
            ((w0 \div 64) % Half) + Half * (w1 \div Half),
            w1 % Half)

ParseStatic(w0, w1, ids) ==
    LET id == (w0 \div 64) % Half IN
    IF w1 >= Half \/ ~MirrorAgrees(w0, w1) THEN Refused("OffsetMismatch")
    ELSE IF \E t \in DOMAIN ids : ids[t] = id
    THEN At("Static", CHOOSE t \in DOMAIN ids : ids[t] = id, w1)
    ELSE Refused("InvalidStaticId")

\* Mutant: any registration of the arena satisfies the token.
ParseCross_any(w1) ==
    IF w1 \div Half # 0 /\ token # 0
    THEN At("Cross", token, w1 % Half)
    ELSE Refused("UnresolvedCrossArenaToken")

\* A token resolves only to a lease of the registration it was issued for.
ParseCross(w1) ==
    IF w1 \div Half # 0 /\ w1 \div Half = token
    THEN At("Cross", w1 \div Half, w1 % Half)
    ELSE Refused("UnresolvedCrossArenaToken")

\* read_metadata_unchecked; owners maps an untagged address to its object.
ReadMetadata(w, owners) ==
    LET w0 == w[1]  w1 == w[2]
        tag == w0 % 8
        subtag == (w0 \div 8) % 8
    IN  CASE w[3] # w0 ^^ w1 -> Refused("ChecksumMismatch")
          [] w[3] = w0 ^^ w1 /\ tag = 0 /\ w0 = 0 -> Unmanaged(w1)
          [] w[3] = w0 ^^ w1 /\ tag = 0 /\ w0 # 0 -> At("Heap", owners[w0], w1)
          [] w[3] = w0 ^^ w1 /\ tag = 5 -> ParseCross(w1)
          [] w[3] = w0 ^^ w1 /\ tag = 7 /\ subtag = 1 -> ParseStatic(w0, w1, dedup)
          [] w[3] = w0 ^^ w1 /\ tag = 7 /\ subtag = 3 -> ParseFrameHome(w0, w1)
          [] OTHER -> Refused("UnknownTag")

Live(s) == \E i \in DOMAIN frames : frames[i] = s

\* frame_home_window: the block must belong to a live frame and hold the range.
FrameHomeWindow(s, offset, size) ==
    IF ~Live(s) THEN Refused("InvalidOrigin")
    ELSE IF offset + size > HomeLen THEN Refused("BoundsCheck")
    ELSE [bytes |-> {i \in 0..(HomeLen - 1) : offset <= i /\ i < offset + size}]

\* resolve_metadata_unchecked: only a frame home can still be refused here;
\* static storage always resolves and Cross was resolved by its token.
Resolve(p) ==
    IF IsRefused(p) THEN p
    ELSE IF p.origin = "FrameHome" /\ IsRefused(FrameHomeWindow(p.of, p.offset, 0))
    THEN Refused("UnresolvedFrameHome")
    ELSE p

-----------------------------------------------------------------------------
(* The decode cache of one call stack: address -> owner, oldest first.     *)

CacheGet(addr) == {c \in {cache[i] : i \in DOMAIN cache} : c.addr = addr}

CacheInsert(addr, obj) ==
    LET kept == IF Len(cache) = CacheCapacity THEN Tail(cache) ELSE cache
    IN  Append(kept, [addr |-> addr, obj |-> obj])

IsHeapWord(w0) == w0 # 0 /\ w0 % 8 = 0

\* The owner a heap word decodes to: a hit answers from the cache.
Owners(w0) ==
    IF CacheGet(w0) # {}
    THEN [heap EXCEPT ![w0] = (CHOOSE c \in CacheGet(w0) : TRUE).obj]
    ELSE heap

-----------------------------------------------------------------------------
(* Accesses.                                                               *)

Window(len, offset, size) ==
    IF offset + size > len THEN Refused("OutOfRange")
    ELSE [bytes |-> offset .. (offset + size - 1)]

Clamped(len, offset, size) ==
    [bytes |-> {i \in 0..(len - 1) : offset <= i /\ i < offset + size}]

LeaseHeld(p) == p.origin = "Cross" => p.of = token

\* try_with_data, or with_frame_home_data for a frame home: exact or refused.
\* A transient's copy is owned by the pointer and is clamped.  Static and
\* unmanaged pointers are used as they are and are not accessed this way.
Exactly(p, size) ==
    CASE p.origin \in {"Heap", "Cross"} ->
            IF LeaseHeld(p) THEN Window(PayloadLen, p.offset, size)
                            ELSE Refused("OwnerUnavailable")
      [] p.origin = "FrameHome" -> FrameHomeWindow(p.of, p.offset, size)
      [] p.origin = "Transient" -> Clamped(PayloadLen, p.offset, size)

\* with_data_up_to: heap payloads are clamped, an offset past them is refused;
\* a frame home is never read without a resolver.
UpTo(p, size) ==
    CASE p.origin \in {"Heap", "Cross"} ->
            IF LeaseHeld(p) /\ p.offset <= PayloadLen
            THEN Clamped(PayloadLen, p.offset, size)
            ELSE Refused("OwnerUnavailable")
      [] p.origin = "FrameHome" -> Refused("NeedsResolver")
      [] p.origin = "Transient" -> Clamped(PayloadLen, p.offset, size)

-----------------------------------------------------------------------------
PointersInit ==
    /\ frames = <<>>
    /\ serial \in FirstSerials
    /\ heap = << >> /\ objects = 0
    /\ token = 1 /\ tokens = 1
    /\ dedup = [t \in {Registered} |-> 1]
    /\ cache = <<>>
    /\ held = Null
    /\ slot = <<0, 0, 0>> /\ meant = Null
    /\ events = 0

\* Taking the address of a field, an element, a variable or a static.
TakeAddress ==
    /\ \/ \E a \in DOMAIN heap : held' = At("Heap", heap[a], 0)
       \/ token # 0 /\ held' = At("Cross", token, 0)
       \/ \E t \in Statics : held' = At("Static", t, 0)
       \/ \E i \in DOMAIN frames : held' = At("FrameHome", frames[i], 0)
       \/ \E a \in Addresses : held' = Unmanaged(a)
       \/ held' = At("Transient", 0, 0)
    /\ UNCHANGED <<worldVars, dedup, cache, slot, meant>>

\* Unsafe.Add and friends, and pointer arithmetic on the stack; a refused
\* move leaves the pointer as it was.
Move ==
    /\ \E d \in Deltas :
        LET r == CheckedOffset(held, d) IN
        ~IsRefused(r) /\ r.offset \in Offsets /\ held' = r
    /\ UNCHANGED <<worldVars, dedup, cache, slot, meant>>

\* The first store of a pointer into a type's statics registers the type.
Register(p) ==
    IF p.origin = "Static" /\ p.of \notin DOMAIN dedup
    THEN [t \in DOMAIN dedup \cup {p.of} |->
            IF t = p.of THEN Cardinality(DOMAIN dedup) + 1 ELSE dedup[t]]
    ELSE dedup

AddrOf == [o \in {heap[a] : a \in DOMAIN heap} |-> CHOOSE a \in DOMAIN heap : heap[a] = o]

Store ==
    /\ dedup' = Register(held)
    /\ slot' = Words(held, dedup', AddrOf)
    /\ meant' = held
    /\ UNCHANGED <<worldVars, cache, held>>

Decoded == Resolve(ReadMetadata(slot, Owners(slot[1])))

\* read_resolved_with_heap_cache_unchecked
Load ==
    LET w0 == slot[1] IN
    /\ cache' = IF IsHeapWord(w0) /\ CacheGet(w0) = {}
                THEN CacheInsert(w0, heap[w0]) ELSE cache
    /\ held' = IF IsRefused(Decoded) THEN held ELSE Decoded
    /\ UNCHANGED <<worldVars, dedup, slot, meant>>

\* A frame with a home block is entered; its serial is never issued again.
EnterFrame ==
    /\ Len(frames) < MaxFrames
    /\ events < MaxEvents
    /\ frames' = Append(frames, serial)
    /\ serial' = serial + 1
    /\ events' = events + 1
    /\ UNCHANGED <<heap, objects, token, tokens, dedup, cache, held, slot, meant>>

\* A frame returns; a pointer it holds may be stored in an outer frame.
LeaveFrame ==
    /\ frames # <<>>
    /\ frames' = SubSeq(frames, 1, Len(frames) - 1)
    /\ UNCHANGED <<serial, heap, objects, token, tokens, events,
                   dedup, cache, held, slot, meant>>

Allocate ==
    /\ events < MaxEvents
    /\ \E a \in HeapAddrs \ DOMAIN heap :
        heap' = [b \in DOMAIN heap \cup {a} |-> IF b = a THEN objects + 1 ELSE heap[b]]
    /\ objects' = objects + 1
    /\ events' = events + 1
    /\ UNCHANGED <<frames, serial, token, tokens, dedup, cache, held, slot, meant>>

\* What the collector reaches: the stack, the stored words (decoded to their
\* metadata) and the owners in the decode cache.
Traced ==
    LET decoded == ReadMetadata(slot, heap)
        pointers == {held} \cup (IF IsRefused(decoded) THEN {} ELSE {decoded})
    IN  {p.of : p \in {q \in pointers : q.origin = "Heap"}}
        \cup {cache[i].obj : i \in DOMAIN cache}

\* A collection frees the rest and then invalidates the cache.
Collect ==
    LET kept == {a \in DOMAIN heap : heap[a] \in Traced} IN
    /\ heap' = [a \in kept |-> heap[a]]
    /\ cache' = <<>>
    /\ UNCHANGED <<frames, serial, objects, token, tokens, events,
                   dedup, held, slot, meant>>

\* The other arena ends, or its id is registered again under a new token.
Unregister ==
    /\ token # 0
    /\ token' = 0
    /\ UNCHANGED <<frames, serial, heap, objects, tokens, events,
                   dedup, cache, held, slot, meant>>

RegisterArena ==
    /\ token = 0 /\ events < MaxEvents
    /\ token' = tokens + 1 /\ tokens' = tokens + 1
    /\ events' = events + 1
    /\ UNCHANGED <<frames, serial, heap, objects, dedup, cache, held, slot, meant>>

PointersNext ==
    \/ TakeAddress \/ Move \/ Store \/ Load
    \/ EnterFrame \/ LeaveFrame \/ Allocate \/ Collect
    \/ Unregister \/ RegisterArena

PointersSpec == PointersInit /\ [][PointersNext]_pointerVars

-----------------------------------------------------------------------------
(* What a stored pointer must come back as, said without the words: the    *)
(* pointer that was stored, unless what it pointed into is gone.           *)

Recoverable(p) ==
    CASE p.origin = "FrameHome" -> Live(p.of) /\ p.offset <= HomeLen
      [] p.origin = "Cross"     -> p.of = token
      [] p.origin = "Transient" -> FALSE
      [] OTHER                  -> TRUE

\* A pointer read back from storage is the pointer that was written, or is
\* refused because its frame has returned, its arena's registration has been
\* removed, or it points into a temporary; nothing else is refused, and no
\* pointer comes back as one into a later frame, a later registration or an
\* object that took over a freed address.
LoadsFaithful ==
    IF Recoverable(meant) THEN Decoded = meant ELSE IsRefused(Decoded)

\* Every access that is granted lies inside the payload of the pointer's own
\* live owner at or after the pointer's offset, and a range inside it is
\* granted in full.
Payload(p) ==
    CASE p.origin = "FrameHome" -> IF Live(p.of) THEN 0..(HomeLen - 1) ELSE {}
      [] p.origin = "Cross"     -> IF p.of = token THEN 0..(PayloadLen - 1) ELSE {}
      [] OTHER                  -> 0..(PayloadLen - 1)

AccessesInside ==
    held.origin \in {"Heap", "Cross", "FrameHome", "Transient"} =>
        \A size \in Sizes :
            LET wanted == held.offset .. (held.offset + size - 1)
                exact  == Exactly(held, size)
                upTo   == UpTo(held, size)
            IN  /\ ~IsRefused(exact) => exact.bytes \subseteq Payload(held) \cap wanted
                /\ ~IsRefused(upTo) => upTo.bytes = Payload(held) \cap wanted
                /\ wanted # {} /\ wanted \subseteq Payload(held) =>
                      ~IsRefused(exact) /\ exact.bytes = wanted

\* Moving a pointer never changes what it points into, and moving it back
\* gives the same pointer: no offset is silently truncated.
MovesExact ==
    \A d \in Deltas :
        LET r == CheckedOffset(held, d) IN
        ~IsRefused(r) =>
            /\ r.origin = held.origin /\ r.of = held.of
            /\ CheckedOffset(r, 0 - d) = held

\* Every object a live pointer refers to is still allocated.
OwnersAllocated ==
    \A p \in {held, meant} :
        p.origin = "Heap" => \E a \in DOMAIN heap : heap[a] = p.of

PointersSound == LoadsFaithful /\ AccessesInside /\ MovesExact /\ OwnersAllocated
=============================================================================
