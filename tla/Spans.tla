------------------------------- MODULE Spans --------------------------------
(***************************************************************************)
(* Span<T> and ReadOnlySpan<T>: how the intrinsics construct them from     *)
(* arrays, strings, references, native memory and the initial data of      *)
(* static fields, slice, index, compare and copy them.                     *)
(*                                                                         *)
(* A span is a managed pointer (the storage it points into and a byte      *)
(* offset) and a length in elements.  The storages are an array, a string, *)
(* a local of a frame that may return, native memory and a data blob; each *)
(* holds elements of ElementSize bytes.                                    *)
(***************************************************************************)
EXTENDS Integers, Sequences, FiniteSets, SequencesExt

CONSTANTS
    ElementSize,   \* bytes of an element
    Contents,      \* per storage, what it may hold at first
    BlobPadding,   \* bytes of the blob behind its last whole element
    Arguments,     \* the integers passed as start, length or index
    ElementValues,      \* the values written
    MaxSpanOps     \* bound: operations in one behaviour

VARIABLES
    store,      \* storage -> its elements
    returned,   \* the frame of the local has returned
    spans,      \* two variables holding spans
    item,       \* a reference to an element
    outcome,    \* what the last operation answered
    intended,   \* what the program means to be in the storages
    views,      \* the elements each span is meant to be
    itemView,   \* the element `item' is meant to be
    spanOps     \* the number of operations

spanVars == <<store, returned, spans, item, outcome, intended, views, itemView, spanOps>>
ghosts == <<intended, views, itemView>>

-----------------------------------------------------------------------------
(* Pointers and storages                                                   *)

Registers == {1, 2}

PointerTo(s, offset) == [of |-> s, offset |-> offset]
NoPointer == PointerTo("null", 0)
Span(pointer, n, readonly) == [pointer |-> pointer, len |-> n, readonly |-> readonly]
EmptySpan == Span(NoPointer, 0, FALSE)
Advance(p, bytes) == [p EXCEPT !.offset = @ + bytes]

Thrown(e) == [thrown |-> e]
IsThrown(r) == "thrown" \in DOMAIN r
OutOfRange == Thrown("ArgumentOutOfRangeException")

\* A reference stored in a span is decoded before it is used; the decoder finds
\* the live frame of a local.
Stale(p) == p.of = "home" /\ returned
PayloadBytes(s) == Len(store[s]) * ElementSize

\* An access to bytes of a storage: in a live frame, inside a heap payload.
Accessible(p, bytes) ==
    /\ p.of # "null"
    /\ ~Stale(p)
    /\ p.of \in {"array", "text", "home"} => p.offset + bytes <= PayloadBytes(p.of)

ElementAt(p) == store[p.of][p.offset \div ElementSize + 1]

-----------------------------------------------------------------------------
(* Construction                                                            *)

\* The length a source object gives, and the pointer to its first element.
SourceData(s) == IF s = "null" THEN [base |-> NoPointer, len |-> 0]
                 ELSE [base |-> PointerTo(s, 0), len |-> Len(store[s])]

\* AsSpan(source), AsSpan(source, start), AsSpan(source, start, length): the
\* arguments are as many as the arity says.
AsSpanOf(s, args) ==
    LET data   == SourceData(s)
        start  == IF args = <<>> THEN 0 ELSE args[1]
        length == IF Len(args) = 2 THEN args[2] ELSE data.len - start
    IN  IF \E i \in DOMAIN args : args[i] < 0 THEN OutOfRange
        ELSE IF start > data.len \/ start + length > data.len THEN OutOfRange
        ELSE Span(IF s = "null" THEN NoPointer ELSE Advance(data.base, start * ElementSize),
                  length, s = "text")

\* Span(T[]), which the reference overload Span(ref T) also reaches.
FromArray(p) ==
    IF p.of \in {"array", "null"} THEN Span(p, SourceData(p.of).len, FALSE)
    ELSE Span(p, 1, FALSE)

\* Span(void*, int) and Span(ref T, int); the range is the caller's word.
FromPointer(p, n) ==
    IF n < 0 \/ (p.of = "null" /\ n > 0) THEN OutOfRange ELSE Span(p, n, FALSE)

\* The bytes of the blob, as the name of its type states them.
ArraySize == PayloadBytes("blob") + BlobPadding

\* RuntimeHelpers.CreateSpan: as many elements as the data holds whole.
CreateSpan == Span(PointerTo("blob", 0), ArraySize \div ElementSize, TRUE)

\* GetArrayData: the first element of an array, without regard to its length.
GetArrayData(s) == SourceData(s).base

SliceOf(span, args) ==
    LET start  == args[1]
        length == IF Len(args) = 2 THEN args[2] ELSE span.len - start
    IN  IF \E i \in DOMAIN args : args[i] < 0 THEN OutOfRange
        ELSE IF Stale(span.pointer) THEN Thrown("error")
        ELSE IF start > span.len \/ length > span.len - start THEN OutOfRange
        ELSE Span(Advance(span.pointer, start * ElementSize), length, span.readonly)

\* op_Implicit to ReadOnlySpan<T>
ToReadOnly(span) ==
    IF Stale(span.pointer) THEN Thrown("error") ELSE [span EXCEPT !.readonly = TRUE]

-----------------------------------------------------------------------------
(* Access                                                                  *)

GetItem(span, i) ==
    IF Stale(span.pointer) THEN Thrown("error")
    ELSE IF i < 0 \/ i >= span.len THEN Thrown("IndexOutOfRangeException")
    ELSE Advance(span.pointer, i * ElementSize)

GetPinnableReference(span) ==
    IF Stale(span.pointer) THEN Thrown("error")
    ELSE IF span.len = 0 THEN NoPointer ELSE span.pointer

\* MemoryMarshal.GetReference does not look at the length.
GetReference(span) == IF Stale(span.pointer) THEN Thrown("error") ELSE span.pointer

\* Lengths first; then the references are decoded and the bytes compared.
SequenceEqual(a, b) ==
    IF a.len # b.len THEN [equal |-> FALSE]
    ELSE IF a.len = 0 THEN [equal |-> TRUE]
    ELSE IF Accessible(a.pointer, a.len * ElementSize) /\ Accessible(b.pointer, b.len * ElementSize)
    THEN [equal |-> \A i \in 0 .. a.len - 1 : ElementAt(Advance(a.pointer, i * ElementSize))
                                              = ElementAt(Advance(b.pointer, i * ElementSize))]
    ELSE Thrown("error")

PutElement(st, p, e) == [st EXCEPT ![p.of][p.offset \div ElementSize + 1] = e]

\* Mutant: each value is written as soon as it is read.
CopyForward(from, to) ==
    LET after[i \in 0 .. from.len] ==
            IF i = 0 THEN store
            ELSE PutElement(after[i - 1], Advance(to.pointer, (i - 1) * ElementSize),
                      LET p == Advance(from.pointer, (i - 1) * ElementSize)
                      IN  after[i - 1][p.of][p.offset \div ElementSize + 1])
    IN  after[from.len]

\* All values are read before the first is written.
CopyTo(from, to) ==
    LET values == [i \in 1 .. from.len |-> ElementAt(Advance(from.pointer, (i - 1) * ElementSize))]
        after[i \in 0 .. from.len] ==
            IF i = 0 THEN store
            ELSE PutElement(after[i - 1], Advance(to.pointer, (i - 1) * ElementSize), values[i])
    IN  after[from.len]

CopyVerdict(from, to) ==
    IF Stale(from.pointer) \/ Stale(to.pointer) THEN Thrown("error")
    ELSE IF to.len < from.len THEN Thrown("ArgumentException")
    ELSE [copied |-> from.len]

-----------------------------------------------------------------------------
(* Actions                                                                 *)

Count == spanOps < MaxSpanOps /\ spanOps' = spanOps + 1

\* The elements a range of a storage consists of.
View(s, start, n) == [i \in 1 .. n |-> <<s, start + i>>]

\* The variable r receives a span, unless the operation threw; `view' is the
\* sequence of elements the program asked for.
Receive(r, result, view) ==
    /\ outcome' = result
    /\ spans' = IF IsThrown(result) THEN spans ELSE [spans EXCEPT ![r] = result]
    /\ views' = IF IsThrown(result) THEN views ELSE [views EXCEPT ![r] = view]
    /\ Count
    /\ UNCHANGED <<store, returned, item, intended, itemView>>

ArgumentLists == {<<>>} \cup {<<s>> : s \in Arguments} \cup {<<s, n>> : s, n \in Arguments}
Rest(args, n) ==
    CASE args = <<>> -> n [] Len(args) = 1 -> n - args[1] [] OTHER -> args[2]

AsSpan ==
    \E r \in Registers, s \in {"array", "text", "null"}, args \in ArgumentLists :
        Receive(r, AsSpanOf(s, args),
                View(s, IF args = <<>> THEN 0 ELSE args[1], Rest(args, SourceData(s).len)))

ConstructFromArray ==
    \E r \in Registers :
        \/ \E s \in {"array", "null"} :
              Receive(r, FromArray(IF s = "null" THEN NoPointer ELSE PointerTo(s, 0)),
                      View(s, 0, SourceData(s).len))
        \/ item.of \in {"home", "native"} /\ Receive(r, FromArray(item), <<itemView>>)

\* The caller of the pointer constructors vouches for the range.
ConstructFromPointer ==
    \E r \in Registers, s \in {"native", "home", "null"}, n \in Arguments :
        /\ s # "null" => n <= Len(store[s])
        /\ s = "home" => ~returned
        /\ Receive(r, FromPointer(IF s = "null" THEN NoPointer ELSE PointerTo(s, 0), n), View(s, 0, n))

ConstructFromBlob ==
    \E r \in Registers : Receive(r, CreateSpan, View("blob", 0, Len(store["blob"])))

SliceSpan ==
    \E r \in Registers, q \in Registers, args \in ArgumentLists \ {<<>>} :
        Receive(q, SliceOf(spans[r], args),
                SubSeq(views[r], args[1] + 1, args[1] + Rest(args, spans[r].len)))

ConvertSpan ==
    \E r \in Registers : Receive(3 - r, ToReadOnly(spans[r]), views[r])

TakeItem(r, result, view) ==
    /\ ~spans[r].readonly
    /\ outcome' = result
    /\ item' = IF IsThrown(result) THEN item ELSE result
    /\ itemView' = IF IsThrown(result) THEN itemView ELSE view
    /\ Count
    /\ UNCHANGED <<store, returned, spans, intended, views>>

NoElement == <<"null", 0>>
First(view) == IF view = <<>> THEN NoElement ELSE view[1]

ArrayData ==
    \E s \in {"array", "null"} :
        /\ item' = GetArrayData(s)
        /\ itemView' = IF s = "null" THEN NoElement ELSE <<s, 1>>
        /\ outcome' = item'
        /\ Count
        /\ UNCHANGED <<store, returned, spans, intended, views>>

Index ==
    \E r \in Registers :
        \/ \E i \in Arguments :
              TakeItem(r, GetItem(spans[r], i), IF i + 1 \in DOMAIN views[r] THEN views[r][i + 1] ELSE NoElement)
        \/ TakeItem(r, GetPinnableReference(spans[r]), First(views[r]))
        \/ views[r] # <<>> /\ TakeItem(r, GetReference(spans[r]), First(views[r]))

\* Nothing is meant to change in a frame that has returned.
Frozen(element) == element[1] = "home" /\ returned

WriteItem ==
    /\ item.of # "null"
    /\ \E e \in ElementValues :
          IF Accessible(item, ElementSize)
          THEN /\ store' = PutElement(store, item, e)
               /\ intended' = IF Frozen(itemView) THEN intended
                              ELSE [intended EXCEPT ![itemView[1]][itemView[2]] = e]
               /\ outcome' = [written |-> e]
          ELSE /\ outcome' = Thrown("error")
               /\ UNCHANGED <<store, intended>>
    /\ Count
    /\ UNCHANGED <<returned, spans, item, views, itemView>>

CompareSpans ==
    /\ outcome' = SequenceEqual(spans[1], spans[2])
    /\ Count
    /\ UNCHANGED <<store, returned, spans, item, ghosts>>

\* What the program intends by a copy: every element at once.
Copied(source, target) ==
    [s \in DOMAIN intended |->
        [k \in DOMAIN intended[s] |->
            LET hits == {i \in DOMAIN source : target[i] = <<s, k>> /\ ~Frozen(target[i])}
            IN  IF hits = {} THEN intended[s][k]
                ELSE LET from == source[CHOOSE i \in hits : TRUE] IN intended[from[1]][from[2]]]]

Copy ==
    \E r \in Registers :
        LET from    == spans[r]
            to      == spans[3 - r]
            verdict == CopyVerdict(from, to)
        IN  /\ ~to.readonly
            /\ outcome' = verdict
            /\ store' = IF IsThrown(verdict) THEN store ELSE CopyTo(from, to)
            /\ intended' = IF IsThrown(verdict) THEN intended ELSE Copied(views[r], views[3 - r])
            /\ Count
            /\ UNCHANGED <<returned, spans, item, views, itemView>>

\* RuntimeHelpers.InitializeArray: the blob may be longer than the array.
InitializeArray ==
    LET fits == ArraySize >= PayloadBytes("array")
        data == [i \in DOMAIN store["array"] |-> store["blob"][i]]
    IN  /\ outcome' = IF fits THEN [initialized |-> TRUE] ELSE Thrown("ArgumentException")
        /\ store' = IF fits THEN [store EXCEPT !["array"] = data] ELSE store
        /\ intended' = IF Len(intended["array"]) <= Len(intended["blob"])
                       THEN [intended EXCEPT !["array"] =
                                 SubSeq(intended["blob"], 1, Len(intended["array"]))]
                       ELSE intended
        /\ Count
        /\ UNCHANGED <<returned, spans, item, views, itemView>>

FrameReturns ==
    /\ ~returned
    /\ returned' = TRUE
    /\ UNCHANGED <<store, spans, item, outcome, ghosts, spanOps>>

SpansInit ==
    /\ store \in [array : Contents.array, text : Contents.text, home : Contents.home,
                  native : Contents.native, blob : Contents.blob]
    /\ returned = FALSE
    /\ spans = [r \in Registers |-> EmptySpan]
    /\ item = NoPointer
    /\ outcome = [started |-> TRUE]
    /\ intended = store
    /\ views = [r \in Registers |-> <<>>]
    /\ itemView = NoElement
    /\ spanOps = 0

SpansNext ==
    \/ AsSpan \/ ConstructFromArray \/ ConstructFromPointer \/ ConstructFromBlob
    \/ SliceSpan \/ ConvertSpan \/ ArrayData \/ Index \/ WriteItem \/ CompareSpans \/ Copy
    \/ InitializeArray \/ FrameReturns

SpansSpec == SpansInit /\ [][SpansNext]_spanVars

-----------------------------------------------------------------------------
(* Properties                                                              *)

\* A span denotes exactly the elements asked for, in order and inside their
\* storage, through any chain of constructions and slices.
SpansExact ==
    \A r \in Registers :
        /\ spans[r].len = Len(views[r])
        /\ \A i \in DOMAIN views[r] :
              LET p == Advance(spans[r].pointer, (i - 1) * ElementSize)
              IN  /\ <<p.of, p.offset \div ElementSize + 1>> = views[r][i]
                  /\ p.offset % ElementSize = 0
                  /\ views[r][i][2] \in DOMAIN store[p.of]

\* The storages hold what the program's writes and copies mean: a copy between
\* overlapping spans moves every element, and nothing else changes.
StoresIntended == store = intended

\* A comparison answers whether the elements are equal; nothing is read or
\* written through a reference into a frame that has returned.
AnswersRight ==
    /\ "equal" \in DOMAIN outcome =>
           (outcome.equal <=> /\ Len(views[1]) = Len(views[2])
                              /\ \A i \in DOMAIN views[1] :
                                    intended[views[1][i][1]][views[1][i][2]]
                                    = intended[views[2][i][1]][views[2][i][2]])
    /\ "thrown" \in DOMAIN outcome /\ outcome.thrown = "error" => returned

SpansSound == SpansExact /\ StoresIntended /\ AnswersRight
=============================================================================
