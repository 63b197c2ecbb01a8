------------------------------ MODULE PInvoke ------------------------------
(***************************************************************************)
(* Calls to native methods: dotnet-pinvoke.  Threads call native functions *)
(* at the same time: a call is refused by its signature or its arguments,  *)
(* finds the library (in a table all threads share), turns each argument   *)
(* into a buffer libffi reads, runs the native code, writes what is behind *)
(* its ref arguments back and pushes the result.                           *)
(*                                                                         *)
(* An object given to native code is pinned and its lock held for reading  *)
(* until the call ends; a ref argument is a copy of the bytes behind it.   *)
(* The lock lets no reader in once a writer queues (parking_lot's RwLock). *)
(* A byte holds one bit, so the integer types have 1, 2, 4 and 8 bits.     *)
(***************************************************************************)
EXTENDS Integers, Sequences, FiniteSets

CONSTANTS
    Threads,
    HeapObjects,        \* the objects, each in the arena of a thread
    OwnerOf,            \* [HeapObjects -> Threads]
    PayloadSize,        \* bytes of an object
    StructSize,         \* bytes the native declaration of a struct has
    Installed,          \* [library -> the functions it exports]
    Programs            \* the calls considered: functions from Threads to calls

\* What a call may be: an object that is not of another arena is the caller's own.
ProperArg(t, arg) ==
    arg.is \in {"ObjectRef", "TypedRef", "ManagedPtr"} =>
        /\ arg.origin \in {"Heap", "Cross"} => arg.o \in HeapObjects
        /\ arg.origin = "Heap" => OwnerOf[arg.o] = t
        /\ arg.is = "ObjectRef" => arg.origin \in {"Null", "Heap"}
        /\ arg.type = "Ref" /\ arg.origin \in {"Heap", "Cross"} => arg.offset \in Nat
ProperCall(t, call) ==
    /\ call.library \in DOMAIN Installed
    /\ Len(call.args) \in Nat /\ DOMAIN call.args = 1 .. Len(call.args)
    /\ \A i \in DOMAIN call.args : ProperArg(t, call.args[i])

ASSUME PInvokeAssumption ==
    /\ OwnerOf \in [HeapObjects -> Threads]
    /\ {PayloadSize, StructSize} \subseteq Nat
    /\ HeapObjects \cap {"none", "home", "elsewhere"} = {}
    /\ \A p \in Programs : DOMAIN p = Threads /\ \A t \in Threads : ProperCall(t, p[t])

VARIABLES
    invocations,    \* the call each thread makes, and how far it is
    pinnedBy,       \* HeapManager::pinned_objects of each thread
    payload,        \* the bytes of each object
    queued,         \* the object whose lock a thread waits for as a writer
    cached,         \* NativeLibraries::libraries
    open,           \* the library handles that are open
    gone            \* the threads whose arena is no longer registered

invokeVars == <<invocations, pinnedBy, payload, queued, cached, open, gone>>

None == "none"
NoHandle == <<>>
NoValue == [is |-> None, n |-> 0]
Word == 8                   \* size of a pointer

(***************************************************************************)
(* Types and numbers.                                                      *)
(***************************************************************************)
Signed == {"Int8", "Int16", "Int32", "Int64", "IntPtr"}
Unsigned == {"Boolean", "UInt8", "Char", "UInt16", "UInt32", "UInt64", "UIntPtr"}

\* param_to_type: the size libffi reads for a parameter
FfiSize(type) ==
    CASE type \in {"Boolean", "Int8", "UInt8"} -> 1
      [] type \in {"Char", "Int16", "UInt16"} -> 2
      [] type \in {"Int32", "UInt32", "Float32"} -> 4
      [] type = "Struct" -> StructSize
      [] type = "TypedRef" -> 2 * Word
      [] type = "Void" -> 0
      [] OTHER -> Word

Bits(n, w) == [i \in 1 .. w |-> (n \div 2^(i - 1)) % 2]
RangeOf(type) ==
    LET w == FfiSize(type)
    IN  IF type \in Signed THEN -(2^(w - 1)) .. 2^(w - 1) - 1 ELSE 0 .. 2^w - 1
Decoded(bytes, type) == CHOOSE n \in RangeOf(type) : Bits(n, FfiSize(type)) = bytes

\* An argument: the operand on the stack and the type of its parameter.
IsInteger(arg) == arg.is \in {"Int32", "Int64", "NativeInt"}
OperandSize(arg) == IF arg.is = "Int32" THEN 4 ELSE 8

\* The parameter types checked_narrow_integer is called for.
Narrowed(arg) ==
    \/ arg.type \in {"Boolean", "Int8", "UInt8", "Char", "Int16", "UInt16"}
    \/ arg.type \in {"Int32", "UInt32"} /\ arg.is # "Int32"

\* What libffi takes from a buffer: the bytes past its end are any bytes.
Unknown == -1
Received(bytes, w) == [i \in 1 .. w |-> IF i <= Len(bytes) THEN bytes[i] ELSE Unknown]

(***************************************************************************)
(* Buffers: bytes, a pointer (to an object, to a frame home or elsewhere), *)
(* or the two words of a typedref.                                         *)
(***************************************************************************)
BytesBuffer(bytes) == [kind |-> "bytes", bytes |-> bytes, to |-> None]
PointerBuffer(to) == [kind |-> "pointer", bytes |-> <<>>, to |-> to]
PairBuffer(to) == [kind |-> "typedref", bytes |-> <<>>, to |-> to]
DoubleBuffer == [kind |-> "f64", bytes |-> <<>>, to |-> None]

Padded(bytes, w) == [i \in 1 .. w |-> IF i <= Len(bytes) THEN bytes[i] ELSE 0]

\* with_data_up_to: the bytes of an object from an offset on, at most a word
CopyOf(o, offset) ==
    [i \in 1 .. (IF PayloadSize - offset < Word THEN PayloadSize - offset ELSE Word) |->
        payload[o][offset + i]]

(***************************************************************************)
(* Guards and locks.                                                       *)
(***************************************************************************)
Here(t) == invocations[t]
InCall(t) == Here(t).at # "done"
Guarded(o) == \E t \in Threads : o \in Here(t).guards
CanRead(o) == \A t \in Threads : queued[t] # o

Move(t, changes) == invocations' = [invocations EXCEPT ![t] = changes]

\* Mutant: the guards are forgotten, not dropped.
EndInGuarded(t, outcome, operands, value) ==
    Move(t, [Here(t) EXCEPT !.at = "done", !.outcome = outcome, !.operands = operands, !.value = value])
\* A call ends: its guards go with it, and what it has pinned but not unpinned stays.
EndIn(t, outcome, operands, value) ==
    Move(t, [Here(t) EXCEPT !.at = "done", !.guards = {}, !.outcome = outcome,
                            !.operands = operands, !.value = value])
Refuse(t, outcome) == EndIn(t, outcome, Here(t).operands, NoValue)
ThrowInstead(t) == EndIn(t, "Exception", 0, NoValue)

Started(call) ==
    [call |-> call, at |-> "enter", next |-> 1, buffers |-> <<>>, backs |-> <<>>,
     restored |-> 0, pins |-> {}, guards |-> {}, bound |-> NoHandle, returned |-> <<>>,
     outcome |-> None, operands |-> Len(call.args), value |-> NoValue]

PInvokeInit ==
    /\ \E p \in Programs : invocations = [t \in Threads |-> Started(p[t])]
    /\ pinnedBy = [t \in Threads |-> Here(t).call.handles]
    /\ payload = [o \in HeapObjects |-> [i \in 1 .. PayloadSize |-> i]]
    /\ queued = [t \in Threads |-> None]
    /\ cached = [l \in DOMAIN Installed |-> NoHandle]
    /\ open = {} /\ gone = {}

(***************************************************************************)
(* Before anything is marshalled: the signature and the operands.          *)
(***************************************************************************)
ByRefLike(call) == call.ret = "ByRefLike" \/ \E i \in DOMAIN call.args : call.args[i].type = "ByRefLike"

\* Mutant: only typedrefs are looked at.
EscapesArenaTypedRefs(arg) == arg.is = "TypedRef" /\ arg.origin = "Cross"
\* rejects_cross_arena_native_escape
EscapesArena(arg) ==
    /\ arg.is = "TypedRef" \/ (arg.is = "ManagedPtr" /\ arg.type # "Ref")
    /\ arg.origin = "Cross"

Preflight(t) ==
    /\ Here(t).at = "enter"
    /\ LET call == Here(t).call
       IN  IF call.ret = "TypedRef" \/ ByRefLike(call)
                \/ \E i \in DOMAIN call.args : EscapesArena(call.args[i])
           THEN Refuse(t, "Error")
           ELSE Move(t, [Here(t) EXCEPT !.at = "find"])
    /\ UNCHANGED <<pinnedBy, payload, queued, cached, open, gone>>

(***************************************************************************)
(* NativeLibraries: get_library and get_function.                          *)
(***************************************************************************)
FindLibrary(t) ==
    /\ Here(t).at = "find"
    /\ Move(t, [Here(t) EXCEPT !.at = IF cached[Here(t).call.library] # NoHandle THEN "bind" ELSE "load"])
    /\ UNCHANGED <<pinnedBy, payload, queued, cached, open, gone>>

HandleOf(t) == <<Here(t).call.library, t>>

LoadLibrary(t) ==
    /\ Here(t).at = "load"
    /\ IF Installed[Here(t).call.library] # {}
       THEN /\ open' = open \cup {HandleOf(t)}
            /\ Move(t, [Here(t) EXCEPT !.at = "insert"])
       ELSE ThrowInstead(t) /\ UNCHANGED open
    /\ UNCHANGED <<pinnedBy, payload, queued, cached, gone>>

\* Mutant: the library loaded last takes the place of the one in the table.
InsertLibraryOver(t) ==
    /\ Here(t).at = "insert"
    /\ cached' = [cached EXCEPT ![Here(t).call.library] = HandleOf(t)]
    /\ open' = open \ {cached[Here(t).call.library]}
    /\ Move(t, [Here(t) EXCEPT !.at = "bind"])
    /\ UNCHANGED <<pinnedBy, payload, queued, gone>>
\* entry().or_insert: the handle of a thread that comes second is closed
InsertLibrary(t) ==
    /\ Here(t).at = "insert"
    /\ IF cached[Here(t).call.library] = NoHandle
       THEN cached' = [cached EXCEPT ![Here(t).call.library] = HandleOf(t)] /\ UNCHANGED open
       ELSE open' = open \ {HandleOf(t)} /\ UNCHANGED cached
    /\ Move(t, [Here(t) EXCEPT !.at = "bind"])
    /\ UNCHANGED <<pinnedBy, payload, queued, gone>>

BindFunction(t) ==
    /\ Here(t).at = "bind"
    /\ IF Here(t).call.function \in Installed[Here(t).call.library]
       THEN Move(t, [Here(t) EXCEPT !.at = "marshal", !.bound = cached[Here(t).call.library]])
       ELSE ThrowInstead(t)
    /\ UNCHANGED <<pinnedBy, payload, queued, cached, open, gone>>

(***************************************************************************)
(* Pass 1: a buffer for each argument.  A failure returns at once, past    *)
(* the code that unpins.                                                   *)
(***************************************************************************)
Argument(t) == Here(t).call.args[Here(t).next]
Marshalling(t) == Here(t).at = "marshal" /\ Here(t).next <= Len(Here(t).call.args)
UnchangedByMarshalling == UNCHANGED <<payload, queued, cached, open, gone>>

Marshalled(t, buffer, pin, guard, backs) ==
    /\ Move(t, [Here(t) EXCEPT !.next = @ + 1, !.buffers = Append(@, buffer), !.pins = @ \cup pin,
                               !.guards = @ \cup guard, !.backs = @ \o backs])
    /\ pinnedBy' = [pinnedBy EXCEPT ![t] = @ \cup pin]
Plainly(t, buffer) == Marshalled(t, buffer, {}, {}, <<>>)
FailMarshal(t, outcome) == Refuse(t, outcome) /\ UNCHANGED pinnedBy

\* Mutant: the value is cut down to the parameter's size.
MarshalIntegerCut(t) ==
    /\ IsInteger(Argument(t))
    /\ LET arg == Argument(t)
       IN  Plainly(t, BytesBuffer(Bits(arg.n, IF Narrowed(arg) THEN FfiSize(arg.type) ELSE OperandSize(arg))))
\* marshal_integer_arg
MarshalInteger(t) ==
    /\ IsInteger(Argument(t))
    /\ LET arg == Argument(t)
       IN  IF ~Narrowed(arg) THEN Plainly(t, BytesBuffer(Bits(arg.n, OperandSize(arg))))
           ELSE IF arg.n \in RangeOf(arg.type)
           THEN Plainly(t, BytesBuffer(Bits(arg.n, FfiSize(arg.type))))
           ELSE FailMarshal(t, "Error")

\* A float is always an f64, an unmanaged pointer itself, a struct its bytes.
MarshalPlain(t) ==
    \/ Argument(t).is = "NativeFloat" /\ Plainly(t, DoubleBuffer)
    \/ Argument(t).is = "UnmanagedPtr" /\ Plainly(t, PointerBuffer("elsewhere"))
    \/ /\ Argument(t).is = "ValueType"
       /\ LET size == Argument(t).size
          IN  Plainly(t, BytesBuffer(Padded(Bits(-1, size), IF size < StructSize THEN StructSize ELSE size)))
    \/ Argument(t).is = "UninitializedTypedRef" /\ FailMarshal(t, "Error")

\* Mutant: the guard is a temporary that is dropped with the statement.
PassObjectUnguarded(t, o, buffer) == CanRead(o) /\ Marshalled(t, buffer, {o}, {}, <<>>)
\* pin_object, and PinnedGuard::new, which waits for the object's lock
PassObject(t, o, buffer) == CanRead(o) /\ Marshalled(t, buffer, {o}, {o}, <<>>)

MarshalObject(t) ==
    /\ Argument(t).is = "ObjectRef"
    /\ IF Argument(t).origin = "Null" THEN Plainly(t, PointerBuffer(None))
       ELSE PassObject(t, Argument(t).o, PointerBuffer(Argument(t).o))

\* The address of what a managed pointer that is not a ref argument, or a
\* typedref, leads to.  A null heap origin is refused in a typedref only, an
\* origin in another arena always (Preflight has seen to it already).
MarshalAddress(t) ==
    /\ Argument(t).is = "TypedRef" \/ (Argument(t).is = "ManagedPtr" /\ Argument(t).type # "Ref")
    /\ LET arg == Argument(t)
           Buffer(to) == IF arg.is = "TypedRef" THEN PairBuffer(to) ELSE PointerBuffer(to)
       IN  \/ arg.origin = "Heap" /\ PassObject(t, arg.o, Buffer(arg.o))
           \/ /\ arg.origin \in {"HeapNull", "Cross"}
              /\ IF arg.is = "TypedRef" \/ arg.origin = "Cross" THEN FailMarshal(t, "Error")
                 ELSE Plainly(t, Buffer("elsewhere"))
           \/ /\ arg.origin = "FrameHome"
              /\ IF arg.live THEN Plainly(t, Buffer("home")) ELSE FailMarshal(t, "Error")
           \/ arg.origin = "Elsewhere" /\ Plainly(t, Buffer("elsewhere"))

\* A ref argument: a copy of a word, and a note to write it back.  The buffer
\* itself is what libffi reads the argument from.
MarshalRef(t) ==
    /\ Argument(t).is = "ManagedPtr" /\ Argument(t).type = "Ref"
    /\ LET arg == Argument(t)
           back == <<[arg |-> arg, buffer |-> Here(t).next]>>
           Copied(pin) == Marshalled(t, BytesBuffer(Padded(CopyOf(arg.o, arg.offset), Word)), pin, {}, back)
           Kept == Marshalled(t, BytesBuffer(Padded(<<>>, Word)), {}, {}, back)
       IN  \/ arg.origin = "Heap" /\ CanRead(arg.o) /\ Copied({arg.o})
           \/ /\ arg.origin = "Cross"
              /\ IF OwnerOf[arg.o] \in gone THEN FailMarshal(t, "Panic")
                 ELSE CanRead(arg.o) /\ Copied({})
           \/ /\ arg.origin = "FrameHome"
              /\ IF arg.live /\ arg.room >= Word THEN Kept ELSE FailMarshal(t, "Error")
           \/ arg.origin = "Elsewhere" /\ Kept
           \/ arg.origin = "Null" /\ FailMarshal(t, "Panic")

Marshal(t) ==
    /\ Marshalling(t)
    /\ \/ MarshalInteger(t) \/ MarshalPlain(t) \/ MarshalObject(t) \/ MarshalAddress(t) \/ MarshalRef(t)
    /\ UnchangedByMarshalling

(***************************************************************************)
(* The native code (it may store into an object it was given) and what     *)
(* follows it.                                                             *)
(***************************************************************************)
Written == 99               \* what native code stores
Passed(t) == {Here(t).buffers[i].to : i \in DOMAIN Here(t).buffers} \cap HeapObjects

InNative(t) == Here(t).at = "marshal" /\ Here(t).next > Len(Here(t).call.args)
RunNative(t) ==
    /\ InNative(t)
    /\ \/ UNCHANGED payload
       \/ \E o \in Passed(t), i \in {1, PayloadSize} : payload' = [payload EXCEPT ![o][i] = Written]
    /\ \E bit \in {0, 1} :
          Move(t, [Here(t) EXCEPT !.at = "restore", !.returned = Bits(-bit, FfiSize(Here(t).call.ret))])
    /\ UNCHANGED <<pinnedBy, queued, cached, open, gone>>

(***************************************************************************)
(* apply_write_backs: in order, a word each, until one fails.  write_bytes *)
(* looks at the object, then waits for its lock as a writer.               *)
(***************************************************************************)
Back(t) == Here(t).backs[Here(t).restored + 1]
Restoring(t) == Here(t).at = "restore" /\ Here(t).restored < Len(Here(t).backs)
BehindLock(back) == back.arg.origin \in {"Heap", "Cross"}
OwnerGone(back) == back.arg.origin = "Cross" /\ OwnerOf[back.arg.o] \in gone
OthersQueued(t, o) == \E u \in Threads \ {t} : queued[u] = o

AwaitLock(t) ==
    /\ Restoring(t) /\ BehindLock(Back(t)) /\ ~OwnerGone(Back(t))
    /\ Guarded(Back(t).arg.o) /\ CanRead(Back(t).arg.o)
    /\ queued' = [queued EXCEPT ![t] = Back(t).arg.o]
    /\ UNCHANGED <<invocations, pinnedBy, payload, cached, open, gone>>

\* Mutant: the word goes to the object's first bytes.
OverwrittenAtStart(bytes, offset, word) ==
    [i \in DOMAIN bytes |-> IF i \in 1 .. Word THEN word[i] ELSE bytes[i]]
\* The bytes of an object with a word of them replaced.
Overwritten(bytes, offset, word) ==
    [i \in DOMAIN bytes |-> IF i - offset \in 1 .. Word THEN word[i - offset] ELSE bytes[i]]

\* unpin_object for every object the call has pinned: a handle's pin goes as well
Unpinned(t) == pinnedBy' = [pinnedBy EXCEPT ![t] = @ \ Here(t).pins]

\* Mutant: the early return of a failed write back passes by the code that unpins.
FailWriteBackPinned(t) == Refuse(t, "Error") /\ UNCHANGED pinnedBy
FailWriteBack(t) == Refuse(t, "Error") /\ Unpinned(t)

WriteBack(t) ==
    /\ Restoring(t)
    /\ LET back == Back(t)
           o == back.arg.o
           word == Here(t).buffers[back.buffer].bytes
           Restored(bytes) ==
               /\ payload' = bytes /\ Move(t, [Here(t) EXCEPT !.restored = @ + 1])
               /\ UNCHANGED pinnedBy
       IN  IF ~BehindLock(back) THEN Restored(payload)
           ELSE IF OwnerGone(back) THEN FailWriteBack(t) /\ UNCHANGED payload
           ELSE /\ ~Guarded(o) /\ ~OthersQueued(t, o)
                /\ IF back.arg.offset + Word > PayloadSize
                   THEN FailWriteBack(t) /\ UNCHANGED payload
                   ELSE Restored([payload EXCEPT ![o] = Overwritten(@, back.arg.offset, word)])
    /\ queued' = [queued EXCEPT ![t] = None]
    /\ UNCHANGED <<cached, open, gone>>

(***************************************************************************)
(* handle_pinvoke_return: the operands go and the result comes.            *)
(***************************************************************************)
Narrow == {"Boolean", "Int8", "UInt8", "Char", "Int16", "UInt16"}

\* Mutant: what the native code returned is sign-extended whatever its type.
ReturnedNumberSigned(bytes, type) ==
    CHOOSE n \in -(2^(Len(bytes) - 1)) .. 2^(Len(bytes) - 1) - 1 : Bits(n, Len(bytes)) = bytes
\* A narrow result is extended as its type says; a wide one fills its slot, signed.
ReturnedNumber(bytes, type) ==
    IF type \in Narrow THEN Decoded(bytes, type)
    ELSE Decoded(bytes, IF type \in {"Int32", "UInt32"} THEN "Int32" ELSE "Int64")

StackKind(type) ==
    CASE type \in Narrow \cup {"Int32", "UInt32"} -> "Int32"
      [] type \in {"Int64", "UInt64"} -> "Int64"
      [] type \in {"IntPtr", "UIntPtr"} -> "NativeInt"
      [] type \in {"Float32", "Float64"} -> "NativeFloat"
      [] type = "Struct" -> "ValueType"
      [] type = "Ref" -> "ManagedPtr"
      [] OTHER -> "UnmanagedPtr"

Pushed(call, bytes) ==
    IF call.ret = "Void" THEN NoValue
    ELSE [is |-> StackKind(call.ret),
          n |-> IF call.ret \in Signed \cup Unsigned THEN ReturnedNumber(bytes, call.ret) ELSE 0]

Finish(t) ==
    /\ Here(t).at = "restore" /\ Here(t).restored = Len(Here(t).backs)
    /\ EndIn(t, "Continue", 0, Pushed(Here(t).call, Here(t).returned))
    /\ Unpinned(t)
    /\ UNCHANGED <<payload, queued, cached, open, gone>>

\* The thread ends and takes its arena along, when nobody is inside an access to it.
LeaveArena(t) ==
    /\ ~InCall(t) /\ t \notin gone
    /\ \A u \in Threads : queued[u] \in HeapObjects => OwnerOf[queued[u]] # t
    /\ gone' = gone \cup {t}
    /\ UNCHANGED <<invocations, pinnedBy, payload, queued, cached, open>>

\* A call waits for an object's lock: as a reader behind a queued writer, or as
\* a writer behind a guard.
Blocked(t) ==
    \/ /\ Marshalling(t)
       /\ Argument(t).is \in {"ObjectRef", "TypedRef", "ManagedPtr"}
       /\ Argument(t).origin = "Heap" \/ (Argument(t).origin = "Cross" /\ OwnerOf[Argument(t).o] \notin gone)
       /\ ~CanRead(Argument(t).o)
    \/ /\ Restoring(t) /\ BehindLock(Back(t)) /\ ~OwnerGone(Back(t))
       /\ OthersQueued(t, Back(t).arg.o) \/ (queued[t] = Back(t).arg.o /\ Guarded(Back(t).arg.o))

Halted == \A t \in Threads : Blocked(t) \/ ~InCall(t)
Halt == Halted /\ UNCHANGED invokeVars

InvokeStep(t) ==
    \/ Preflight(t) \/ FindLibrary(t) \/ LoadLibrary(t) \/ InsertLibrary(t) \/ BindFunction(t)
    \/ Marshal(t) \/ RunNative(t) \/ AwaitLock(t) \/ WriteBack(t) \/ Finish(t) \/ LeaveArena(t)
PInvokeNext == Halt \/ \E t \in Threads : InvokeStep(t)
PInvokeSpec == PInvokeInit /\ [][PInvokeNext]_invokeVars

(***************************************************************************)
(* Properties                                                              *)
(***************************************************************************)
GivenWhole(arg, o) ==
    /\ arg.is \in {"ObjectRef", "TypedRef"} \/ (arg.is = "ManagedPtr" /\ arg.type # "Ref")
    /\ arg.origin = "Heap" /\ arg.o = o
GivenByRef(arg, o) ==
    arg.is = "ManagedPtr" /\ arg.type = "Ref" /\ arg.origin \in {"Heap", "Cross"} /\ arg.o = o
Gives(t, Way(_, _), o) == \E i \in DOMAIN Here(t).call.args : Way(Here(t).call.args[i], o)

(* While native code has the address of an object, the object is its thread's own,
   pinned and locked against writers; what is behind a ref argument of the thread's
   own arena is pinned until it has been written back. *)
EscapesGuarded ==
    \A t \in Threads :
        /\ InNative(t) => Passed(t) \subseteq Here(t).guards \cap pinnedBy[t]
        /\ \A o \in Passed(t) : OwnerOf[o] = t
        /\ Restoring(t) /\ Back(t).arg.origin = "Heap" => Back(t).arg.o \in pinnedBy[t]

(* A call that came as far as the native code, or ended in an exception, has unpinned
   what it pinned, whichever way it returned; one that would have let an address of
   another arena out is refused before it has pinned anything ("before marshalling
   pins any earlier arguments").  Nothing else is ever unpinned. *)
PinsEnd ==
    \A t \in Threads :
        LET i == Here(t)
        IN  /\ i.call.handles \ i.pins \subseteq pinnedBy[t]
            /\ i.at = "done" /\ (i.next > Len(i.call.args) \/ i.outcome = "Exception")
                 => pinnedBy[t] = i.call.handles \ i.pins
            /\ i.at = "done" /\ (\E a \in DOMAIN i.call.args :
                                   i.call.args[a].type # "Ref" /\ i.call.args[a].is \in {"TypedRef", "ManagedPtr"}
                                   /\ i.call.args[a].origin = "Cross")
                 => pinnedBy[t] = i.call.handles

(* The operands are replaced by one result exactly when the call returns normally, are
   gone when it throws, and still there when it fails; a number comes back with the value
   its declared type gives its bits, or with its bits where the slot is as wide. *)
OperandsRight ==
    \A t \in Threads :
        LET i == Here(t)
            ret == i.call.ret
        IN  /\ i.operands = IF i.outcome \in {"Continue", "Exception"} THEN 0 ELSE Len(i.call.args)
            /\ (i.value = NoValue) = (i.outcome # "Continue" \/ ret = "Void")
            /\ i.value # NoValue /\ ret \in Signed \cup Unsigned =>
                 /\ Bits(i.value.n, FfiSize(ret)) = i.returned
                 /\ ret \in Narrow \cup Signed => i.value.n \in RangeOf(ret)

(* A number reaches the native code with its value, or the call is refused: narrowing
   never changes it, and libffi finds as many bytes as it reads, but for an int32 that
   is passed where a word is declared. *)
NumbersArrive ==
    \A t \in Threads : InNative(t) =>
        \A i \in DOMAIN Here(t).call.args :
            LET arg == Here(t).call.args[i]
                size == FfiSize(arg.type)
                got == Received(Here(t).buffers[i].bytes, size)
            IN  /\ IsInteger(arg) /\ Narrowed(arg) => arg.n \in RangeOf(arg.type)
                /\ IsInteger(arg) /\ (size < Word \/ arg.is # "Int32") => got = Bits(arg.n, size)
                /\ arg.is = "ValueType" \/ arg.type = "Ref" => Unknown \notin {got[b] : b \in 1 .. size}

(* Threads that load a library at the same time end up with one handle: a function is
   bound in the library of the table, which is never closed, and no other stays open. *)
LibraryKept ==
    /\ \A t \in Threads : Here(t).bound # NoHandle =>
          Here(t).bound = cached[Here(t).call.library] /\ Here(t).bound \in open
    /\ \A handle \in open :
          cached[handle[1]] = handle \/ Here(handle[2]).at = "insert"

(* A byte of an object is never moved: after any write backs, late or failed ones
   included, each is the one that was there or one that native code stored into an
   object it was given whole. *)
MemoryKept ==
    \A o \in HeapObjects : \A i \in 1 .. PayloadSize :
        \/ payload[o][i] = i
        \/ payload[o][i] = Written /\ \E t \in Threads : Gives(t, GivenWhole, o)

(* Calls wait for one another without end only if an object that one of them has given
   whole to native code is behind a ref argument of one of them, itself perhaps. *)
StuckOnlyByRefs ==
    Halted /\ (\E t \in Threads : Blocked(t)) =>
        \E t, u \in Threads : \E o \in Here(t).guards : InCall(t) /\ InCall(u) /\ Gives(u, GivenByRef, o)

PInvokeSound ==
    /\ EscapesGuarded /\ PinsEnd /\ OperandsRight /\ NumbersArrive
    /\ LibraryKept /\ MemoryKept /\ StuckOnlyByRefs
=============================================================================
