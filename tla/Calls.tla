------------------------------- MODULE Calls -------------------------------
(* One managed thread's frames and evaluation stack: calls, returns, tail    *)
(* calls, jmp, constructors, delegates, reflection, the calls the runtime    *)
(* makes by itself (static constructors, finalizers) and unwinding.          *)
(* The program is arbitrary: at an instruction pointer nobody has read yet   *)
(* any instruction may stand, and it stays there until the pointer moves.    *)
EXTENDS Naturals, Sequences, FiniteSets

CONSTANTS
    Method,             \* method names
    Args(_),            \* number of arguments, the receiver included
    Locals(_),          \* number of local variables
    Returns(_),         \* whether a value is returned
    Homed(_),           \* whether its code takes the address of a variable
    Lazy(_),            \* whether its type has a precise static constructor
    Intrinsic(_),       \* whether the runtime implements it in place
    Entry, Cctor, Finalizer, Invoke,  \* the methods with a role
    Code(_),            \* the instructions that can stand in its body
    Constants,          \* values the code can load
    FrameLimit,         \* DOTNET_RS_MANAGED_FRAME_LIMIT
    MaxOperands,        \* bound: operands of a frame
    MaxFrames,          \* bound: frames of the stack
    MaxSerial,          \* bound: home blocks ever allocated
    MaxFinalizers,      \* bound: finalizable objects that die
    Situations          \* what the program gets into of "reflected throw caught",
                        \* a frame catching what its reflected call throws, and
                        \* "finalizer at limit", one coming due at the frame limit

ASSUME CallsAssumption ==
    /\ {Entry, Cctor, Finalizer, Invoke} \subseteq Method
    /\ \A m \in Method : Args(m) \in Nat /\ Locals(m) \in Nat
    /\ Args(Entry) = 0 /\ Args(Cctor) = 0 /\ Args(Finalizer) = 1 /\ Args(Invoke) = 2
    /\ \A m, c \in Method : <<"newobj", c>> \in Code(m) => Args(c) > 0 /\ ~Returns(c)
    /\ Situations \subseteq {"reflected throw caught", "finalizer at limit"}
    /\ {FrameLimit, MaxOperands, MaxFrames, MaxSerial, MaxFinalizers} \subseteq Nat

(* What code can load is data, the packed operands of a reflected call, or a *)
(* delegate with one target or more, each of one argument.                   *)
ASSUME ConstantsAssumption ==
    \A c \in Constants :
        /\ c.k \in {"data", "packed", "delegate"}
        /\ c.k = "packed" => c.args \in Seq(Constants)
        /\ c.k = "delegate" => /\ c.targets \in Seq({m \in Method : Args(m) = 1})
                              /\ c.targets # <<>>

VARIABLES
    frames,      \* FrameStack::frames
    stack,       \* EvaluationStack, all frames' slots
    serial,      \* FrameStack::last_home_serial
    type,        \* initialisation state of the type of the Lazy methods
    processing,  \* HeapManager::processing_finalizer
    pending,     \* objects queued for finalization
    died,        \* finalizable objects that have died so far
    status,      \* what the executor is doing
    blocks       \* history: home blocks allocated so far

vars == <<frames, stack, serial, type, processing, pending, died, status, blocks>>

Null == [k |-> "null"]
Hole == [k |-> "hole"]         \* the null newobj leaves for the struct under construction
This == [k |-> "this"]         \* an object reference
Delegate(ts) == [k |-> "delegate", targets |-> ts]
Packed(as) == [k |-> "packed", args |-> as]     \* the operands of MethodBase.Invoke
Byref(s, b) == [k |-> "byref", serial |-> s, block |-> b]
Struct(v) == [k |-> "struct", content |-> v]
Boxed(v) == [k |-> "boxed", content |-> v]

Any == <<"any">>               \* no instruction read yet at this pointer
Ret == <<"ret">>
NoCast == [targets |-> <<>>, next |-> 0, args |-> <<>>]
NoResult == [slot |-> 0, serial |-> 0]

-----------------------------------------------------------------------------
(* The machine as one value, so that a handler is the composition of the     *)
(* functions it calls.                                                       *)

Machine == [frames |-> frames, stack |-> stack, serial |-> serial, type |-> type,
            processing |-> processing, status |-> status, blocks |-> blocks]

Become(m) ==
    /\ frames' = m.frames /\ stack' = m.stack /\ serial' = m.serial /\ type' = m.type
    /\ processing' = m.processing /\ status' = m.status /\ blocks' = m.blocks

Depth(m) == Len(m.frames)
Top(m) == m.frames[Depth(m)]
WithTop(m, f) == [m EXCEPT !.frames[Depth(m)] = f]
Stop(m, why) == [m EXCEPT !.status = why]

(* push counts the operand in the current frame's height. *)
PushAll(m, vs) ==
    LET s == [m EXCEPT !.stack = @ \o vs]
    IN  IF Depth(m) = 0 THEN s ELSE WithTop(s, [Top(m) EXCEPT !.height = @ + Len(vs)])

Push(m, v) == PushAll(m, <<v>>)

Truncate(m, n) == [m EXCEPT !.stack = SubSeq(@, 1, n)]

Drop(m, n) ==
    WithTop(Truncate(m, Len(m.stack) - n), [Top(m) EXCEPT !.height = @ - n])

PopFrame(m) == [m EXCEPT !.frames = SubSeq(@, 1, Depth(m) - 1)]

(* The last n operands of the machine, in call order. *)
Last(m, n) == SubSeq(m.stack, Len(m.stack) - n + 1, Len(m.stack))

(* The live block with a serial, searched from the current frame down. *)
FramesWith(m, s) == {i \in 1..Depth(m) : s \in DOMAIN m.frames[i].homes}
Live(m, s) == FramesWith(m, s) # {}
Owner(m, s) == CHOOSE i \in FramesWith(m, s) : \A j \in FramesWith(m, s) : j <= i
HomeBlock(m, s) == m.frames[Owner(m, s)].homes[s]

(* Mutant: the serial of a released block is issued again. *)
IssueHomeSerialReused(m) == CHOOSE s \in 1..(Depth(m) + m.serial + 1) : ~Live(m, s)

IssueHomeSerial(m) == m.serial + 1

Install(homes, s, b, v) ==
    [x \in DOMAIN homes \cup {s} |-> IF x = s THEN [block |-> b, value |-> v] ELSE homes[x]]

NoHomes == [x \in {} |-> 0]

(* A new frame, from the pool or not: both paths set every field. searched:  *)
(* whether a handler search under way has seen it. history: want, the        *)
(* operands its instruction will leave; invoked and last, the targets a      *)
(* multicast has run and what the last one returned; below, its caller's     *)
(* slots.                                                                    *)
NewFrame(m, method) ==
    LET base == Len(m.stack) - Args(method)
        s == IssueHomeSerial(m)
        first == IF Args(method) > 0 THEN m.stack[base + 1] ELSE Null
    IN  [method |-> method, arguments |-> base, base |-> base + Args(method) + Locals(method),
         height |-> 0, at |-> Any, want |-> 0, finalizer |-> FALSE,
         multicast |-> NoCast, action |-> "none", result |-> NoResult,
         homes |-> IF Homed(method) THEN Install(NoHomes, s, m.blocks + 1, first) ELSE NoHomes,
         searched |-> TRUE, invoked |-> <<>>, last |-> Null, below |-> SubSeq(m.stack, 1, base)]

(* call_frame: locals above the arguments, the caller's operands shortened,  *)
(* the frame pushed and its homed first argument copied into its block.      *)
CallFrame(m, method) ==
    LET grown == [m EXCEPT !.stack = @ \o [i \in 1..Locals(method) |-> Null]]
        homed == IF Homed(method) THEN [grown EXCEPT !.serial = IssueHomeSerial(m), !.blocks = @ + 1] ELSE grown
        shorter == IF Depth(m) = 0 THEN homed
                   ELSE WithTop(homed, [Top(m) EXCEPT !.height = @ - Args(method)])
    IN  [shorter EXCEPT !.frames = Append(@, NewFrame(m, method))]

(* managed_frame_abort, then call_frame. *)
LimitedCall(m, method) ==
    IF Depth(m) + 1 > FrameLimit THEN Stop(m, "aborted") ELSE CallFrame(m, method)

(* The instruction pointer of the current frame moves on. *)
Advance(m) ==
    WithTop(m, [Top(m) EXCEPT !.at = IF @[1] = "tail" /\ @[3] THEN Ret ELSE Any])

(* A target counts as invoked by the multicast frame that picked it. *)
Record(m, method) ==
    IF Depth(m) > 0 /\ Top(m).multicast # NoCast /\ method # Cctor
    THEN WithTop(m, [Top(m) EXCEPT !.invoked = Append(@, method)])
    ELSE m

NoteResult(m, v) ==
    IF Depth(m) > 0 /\ Top(m).multicast # NoCast
    THEN WithTop(m, [Top(m) EXCEPT !.last = v]) ELSE m

(* A method the runtime implements: no frame, its result at once. *)
RunInPlace(m, method) ==
    LET popped == Drop(m, Args(method))
        done == IF Returns(method) THEN NoteResult(Push(popped, Null), Null) ELSE popped
    IN  IF Top(m).multicast # NoCast THEN done ELSE Advance(done)

(* dispatch_method: the static constructor first, where the type asks for it *)
(* and nobody ran it; the call itself is tried again when it returns.        *)
Dispatch(m, method) ==
    IF Lazy(method) /\ m.type = "uninit"
    THEN LimitedCall([m EXCEPT !.type = "running"], Cctor)
    ELSE IF Lazy(method) /\ m.type = "failed" THEN Stop(m, "throwing")
    ELSE IF Intrinsic(method) THEN RunInPlace(Record(m, method), method)
    ELSE LimitedCall(Record(m, method), method)

-----------------------------------------------------------------------------
(* Returning and unwinding.                                                  *)

FrameEnds(m, f, state) ==
    [m EXCEPT !.type = IF f.method = Cctor THEN state ELSE @,
              !.processing = IF f.finalizer THEN FALSE ELSE @]

(* complete_constructor_receiver: the struct replaces the placeholder. *)
CompleteConstructor(m, r) ==
    IF r = NoResult THEN m
    ELSE IF ~Live(m, r.serial) THEN Stop(m, "aborted")
    ELSE [m EXCEPT !.stack[r.slot] = Struct(HomeBlock(m, r.serial).value)]

(* box_value for a value type; a reference stays what it is. *)
Box(v) == IF v.k \in {"data", "struct"} THEN Boxed(v) ELSE v

(* The action a reflected call left in the frame that is now on top. *)
TakeAction(m) ==
    IF Depth(m) = 0 THEN m
    ELSE LET a == Top(m).action
             cleared == WithTop(m, [Top(m) EXCEPT !.action = "none"])
         IN  IF a = "none" THEN m
             ELSE IF a = "void" THEN Push(cleared, Null)
             ELSE IF Top(m).height = 0 THEN Stop(cleared, "aborted")
             ELSE Push(Drop(cleared, 1), Box(Last(m, 1)[1]))

(* Mutant: a method without a result returns its last slot. *)
ReturnFrameAlways(m) ==
    LET f == Top(m)
        v == m.stack[f.base + f.height]
        popped == Truncate(FrameEnds(PopFrame(m), f, "done"), f.arguments)
    IN  IF f.base + f.height = 0 THEN popped
        ELSE TakeAction(CompleteConstructor(NoteResult(Push(popped, v), v), f.result))

(* return_frame *)
ReturnFrame(m) ==
    LET f == Top(m)
        v == m.stack[f.base + f.height]
        popped == Truncate(FrameEnds(PopFrame(m), f, "done"), f.arguments)
        given == IF Returns(f.method) THEN NoteResult(Push(popped, v), v) ELSE popped
        done == CompleteConstructor(given, f.result)
    IN  IF done.status = "running" THEN TakeAction(done) ELSE done

AutoInvoked(f) == f.method = Cctor \/ f.finalizer

HandleReturn(m) ==
    LET r == ReturnFrame(m)
    IN  IF r.status # "running" THEN r
        ELSE IF Depth(r) = 0 THEN Stop(r, "returned")
        ELSE IF AutoInvoked(Top(m)) \/ Top(r).multicast # NoCast THEN r
        ELSE Advance(r)

-----------------------------------------------------------------------------
Init ==
    /\ frames = <<NewFrame([stack |-> <<>>, serial |-> 0, blocks |-> 0], Entry)>>
    /\ stack = [i \in 1..Locals(Entry) |-> Null]
    /\ serial = (IF Homed(Entry) THEN 1 ELSE 0) /\ blocks = serial
    /\ type = "uninit" /\ processing = FALSE /\ pending = 0 /\ died = 0
    /\ status = "running"

(* The current frame executes instruction i. *)
At(i) ==
    /\ status = "running" /\ frames # <<>>
    /\ Top(Machine).multicast = NoCast
    /\ i \in Code(Top(Machine).method) /\ Top(Machine).at \in {Any, i}

(* The instruction is read; the operands it will leave are noted once. *)
Fetch(i, effect) ==
    LET f == Top(Machine)
    IN  WithTop(Machine, [f EXCEPT !.at = i,
                                   !.want = IF f.at = Any THEN effect ELSE @])

Operands == Top(Machine).height

Given(m) == IF Returns(m) THEN 1 ELSE 0

Room == Depth(Machine) < MaxFrames /\ serial < MaxSerial

(* A frame that has finished an instruction holds the operands it left. *)
Settle(m) == WithTop(m, [Top(m) EXCEPT !.at = Any, !.want = Top(m).height])

OnHeap == UNCHANGED <<pending, died>>

-----------------------------------------------------------------------------
(* Instructions that stay in their frame.                                    *)

LoadConstant ==
    \E v \in Constants :
        /\ At(<<"load", v>>) /\ Operands < MaxOperands
        /\ Become(Settle(Push(Machine, v)))
        /\ OnHeap

PopOperand ==
    /\ At(<<"pop">>) /\ Operands > 0
    /\ Become(Settle(Drop(Machine, 1)))
    /\ OnHeap

(* ldarga or ldloca of the frame's own homed variable. *)
LoadAddress ==
    /\ At(<<"lda">>) /\ Operands < MaxOperands
    /\ Homed(Top(Machine).method)
    /\ LET homes == Top(Machine).homes
           own == CHOOSE s \in DOMAIN homes : \A x \in DOMAIN homes : s <= x
       IN  Become(Settle(Push(Machine, Byref(own, homes[own].block))))
    /\ OnHeap

(* A load through a byref: of a home whose frame is gone, the host's error. *)
LoadIndirect ==
    /\ At(<<"ldind">>) /\ Operands > 0
    /\ LET b == Last(Machine, 1)[1]
       IN  /\ b.k = "byref"
           /\ Become(IF Live(Machine, b.serial)
                     THEN Settle(Push(Drop(Machine, 1), HomeBlock(Machine, b.serial).value))
                     ELSE Stop(Machine, "aborted"))
    /\ OnHeap

StoreIndirect ==
    \E v \in {c \in Constants : c.k = "data"} :
        /\ At(<<"stind", v>>) /\ Operands > 0
        /\ LET b == Last(Machine, 1)[1]
           IN  /\ b.k = "byref"
               /\ Become(IF Live(Machine, b.serial)
                         THEN Settle(Drop([Machine EXCEPT
                                !.frames[Owner(Machine, b.serial)].homes[b.serial].value = v], 1))
                         ELSE Stop(Machine, "aborted"))
        /\ OnHeap

-----------------------------------------------------------------------------
(* Calls.                                                                    *)

Call ==
    \E m \in Method :
        /\ At(<<"call", m>>) /\ Operands >= Args(m) /\ Room
        /\ Become(Dispatch(Fetch(<<"call", m>>, Operands - Args(m) + Given(m)), m))
        /\ OnHeap

(* should_honor_tail_call: outside every try and handler, nothing else on    *)
(* the stack, a return next, and no work waiting for this frame's return.    *)
Honored(f, m, followed) ==
    /\ f.method # Cctor /\ ~f.finalizer /\ f.multicast = NoCast
    /\ f.action = "none" /\ f.result = NoResult
    /\ followed /\ f.height = Args(m)

(* The frame is replaced: its slots are cleared, the arguments go back up. *)
Replace(m, as, method) ==
    LimitedCall(PushAll(Truncate(PopFrame(m), Top(m).arguments), as), method)

TailCall ==
    \E m \in Method, followed \in BOOLEAN :
        LET i == <<"tail", m, followed>>
            fetched == Fetch(i, Operands - Args(m) + Given(m))
        IN  /\ At(i) /\ Operands >= Args(m) /\ Room
            /\ followed => Returns(m) = Returns(Top(Machine).method)
            /\ Become(IF Intrinsic(m) THEN RunInPlace(fetched, m)
                      ELSE IF Honored(Top(Machine), m, followed)
                      THEN Replace(Machine, Last(Machine, Args(m)), m)
                      ELSE LimitedCall(fetched, m))
            /\ OnHeap

(* The arguments of a frame; a homed one is what its home holds by now. *)
Arguments(m) ==
    LET f == Top(m)
        own == CHOOSE s \in DOMAIN f.homes : \A x \in DOMAIN f.homes : s <= x
    IN  [i \in 1..Args(f.method) |->
            IF i = 1 /\ Homed(f.method) THEN f.homes[own].value ELSE m.stack[f.arguments + i]]

(* jmp: from a plain frame with no operands, to a method of its signature. *)
Jump ==
    \E m \in Method :
        /\ At(<<"jmp", m>>) /\ Operands = 0 /\ Room
        /\ Top(Machine).method # Cctor /\ ~Top(Machine).finalizer /\ ~Intrinsic(m)
        /\ Args(m) = Args(Top(Machine).method) /\ Returns(m) = Returns(Top(Machine).method)
        /\ LET r == Replace(Machine, Arguments(Machine), m)
           IN  Become(IF r.status = "running"
                      THEN WithTop(r, [Top(r) EXCEPT !.result = Top(Machine).result]) ELSE r)
        /\ OnHeap

(* prepare_constructor_receiver: a temporary home of the caller holds the    *)
(* struct, a placeholder the slot of the result; then constructor_frame.     *)
ConstructorFrame(m, c) ==
    LET params == Last(m, Args(c) - 1)
        s == IssueHomeSerial(m)
        popped == Drop(m, Args(c) - 1)
        homed == WithTop([popped EXCEPT !.serial = s, !.blocks = @ + 1],
                         [Top(popped) EXCEPT !.homes = Install(@, s, m.blocks + 1, Null)])
        slot == Len(homed.stack) + 1
        called == CallFrame(PushAll(homed, <<Hole, Byref(s, m.blocks + 1)>> \o params), c)
    IN  WithTop(called, [Top(called) EXCEPT !.result = [slot |-> slot, serial |-> s]])

NewObject ==
    \E c \in Method :
        /\ At(<<"newobj", c>>) /\ Operands + 1 >= Args(c) /\ Room
        /\ LET fetched == Fetch(<<"newobj", c>>, Operands - Args(c) + 2)
           IN  Become(IF Lazy(c) /\ type \in {"uninit", "failed"} THEN Dispatch(fetched, c)
                      ELSE ConstructorFrame(fetched, c))
        /\ OnHeap

(* Delegates: the receiver and one argument. *)
InvokeDelegate(m) ==
    LET d == Last(m, 2)[1]
        as == Last(m, 1)
        popped == Drop(m, 2)
        cast == CallFrame(PushAll(popped, <<d>> \o as), Invoke)
    IN  IF d.k = "null" THEN Stop(popped, "throwing")
        ELSE IF Len(d.targets) > 1
        THEN WithTop(cast, [Top(cast) EXCEPT !.multicast =
                                [targets |-> d.targets, next |-> 0, args |-> as]])
        ELSE Dispatch(PushAll(popped, as), d.targets[1])

CallDelegate ==
    /\ At(<<"invoke">>) /\ Operands >= 2 /\ Room
    /\ Last(Machine, 2)[1].k \in {"delegate", "null"}
    /\ Become(InvokeDelegate(Fetch(<<"invoke">>, Operands - 1)))
    /\ OnHeap

(* A target has returned and another one follows: its result is dropped. *)
DiscardResult(m) ==
    LET f == Top(m)
    IN  IF f.height > 0 /\ f.multicast.next < Len(f.multicast.targets) /\ Returns(Invoke)
        THEN Drop(m, 1) ELSE m

(* handle_multicast_step *)
MulticastStep ==
    /\ status = "running" /\ frames # <<>> /\ Top(Machine).multicast # NoCast
    /\ LET m == DiscardResult(Machine)
           cast == Top(m).multicast
           picked == WithTop(m, [Top(m) EXCEPT !.multicast.next = @ + 1])
       IN  IF cast.next < Len(cast.targets)
           THEN /\ Room
                /\ Become(InvokeDelegate(
                       PushAll(picked, <<Delegate(<<cast.targets[cast.next + 1]>>)>> \o cast.args)))
           ELSE Become(HandleReturn(m))
    /\ OnHeap

(* MethodBase.Invoke: the operands unpacked, the result's conversion left    *)
(* with this frame for the callee's return.                                  *)
Reflect ==
    \E m \in Method :
        /\ At(<<"reflect", m>>) /\ Operands > 0 /\ Room
        /\ Last(Machine, 1)[1].k = "packed" /\ Len(Last(Machine, 1)[1].args) = Args(m)
        /\ LET popped == Drop(Fetch(<<"reflect", m>>, Operands), 1)
               kept == WithTop(popped, [Top(popped) EXCEPT !.action =
                                            IF Returns(m) THEN "value" ELSE "void"])
           IN  Become(Dispatch(PushAll(kept, Last(Machine, 1)[1].args), m))
        /\ OnHeap

Return ==
    /\ At(Ret) /\ (Returns(Top(Machine).method) => Operands > 0)
    /\ Become(HandleReturn(Machine))
    /\ OnHeap

-----------------------------------------------------------------------------
(* Exceptions: the search has chosen a frame, the others are unwound.        *)

Throw ==
    /\ At(<<"throw">>)
    /\ Become(Stop(Machine, "throwing"))
    /\ OnHeap

UnwindFrame ==
    /\ status = "throwing" /\ Depth(Machine) > 1
    /\ LET f == Top(Machine)
       IN  Become(Truncate(FrameEnds(PopFrame(Machine), f, "failed"), f.arguments))
    /\ OnHeap

Catch ==
    /\ status = "throwing"
    /\ Top(Machine).multicast = NoCast /\ Top(Machine).method # Cctor /\ Top(Machine).searched
    /\ "reflected throw caught" \in Situations \/ Top(Machine).action = "none"
    /\ LET f == Top(Machine)
           cleared == WithTop(Truncate(Machine, f.base), [f EXCEPT !.height = 0])
       IN  Become([Settle(Push(cleared, This)) EXCEPT !.status = "running"])
    /\ OnHeap

Unhandled ==
    /\ status = "throwing"
    /\ Become(Stop(Machine, "threw"))
    /\ OnHeap

-----------------------------------------------------------------------------
(* The executor between two instructions.                                    *)

(* A collection finds an unreachable object with a finalizer. *)
ObjectDies ==
    /\ status \in {"running", "throwing", "returned"} /\ died < MaxFinalizers
    /\ pending' = pending + 1 /\ died' = died + 1
    /\ UNCHANGED <<frames, stack, serial, type, processing, status, blocks>>

FinalizerFrame(m) ==
    LET called == CallFrame(Push(m, This), Finalizer)
    IN  WithTop(called, [Top(called) EXCEPT !.finalizer = TRUE, !.searched = (m.status # "throwing")])

(* process_pending_finalizers. The run loop ignores its error at the frame   *)
(* limit: the object stays on the stack and processing_finalizer set.        *)
RunFinalizer ==
    /\ status \in {"running", "throwing", "returned"}
    /\ pending > 0 /\ ~processing /\ Room
    /\ Depth(Machine) < FrameLimit \/ "finalizer at limit" \in Situations
    /\ pending' = pending - 1
    /\ LET m == [Machine EXCEPT !.processing = TRUE]
       IN  Become(IF Depth(m) + 1 > FrameLimit THEN Push(m, This)
                  ELSE [FinalizerFrame(m) EXCEPT !.status = IF @ = "returned" THEN "running" ELSE @])
    /\ UNCHANGED died

(* complete_entrypoint_return: nothing left to finalize. *)
Exit ==
    /\ status = "returned" /\ pending = 0
    /\ status' = "exited"
    /\ UNCHANGED <<frames, stack, serial, type, processing, pending, died, blocks>>

(* The thread is done, or at a bound of the model. *)
Ended == (status \in {"exited", "threw", "aborted"} \/ ~Room) /\ UNCHANGED vars

Next ==
    \/ LoadConstant \/ PopOperand \/ LoadAddress \/ LoadIndirect \/ StoreIndirect
    \/ Call \/ TailCall \/ Jump \/ NewObject \/ CallDelegate \/ MulticastStep \/ Reflect
    \/ Return \/ Throw \/ UnwindFrame \/ Catch \/ Unhandled
    \/ ObjectDies \/ RunFinalizer \/ Exit \/ Ended

Spec == Init /\ [][Next]_vars

-----------------------------------------------------------------------------
(* Properties.                                                               *)

Values ==
    [k : {"null", "hole", "this"}]
        \cup [k : {"byref"}, serial : 1..MaxSerial + 1, block : 1..MaxSerial + 1]

(* A value of any kind; structs and boxes hold one. *)
IsValue(v) ==
    \/ v \in Constants \cup Values
    \/ v.k \in {"struct", "boxed", "delegate"}

(* Every frame's bookkeeping has its shape, as FrameStack declares it. *)
TypeOK ==
    /\ \A i \in 1..Len(stack) : IsValue(stack[i])
    /\ \A i \in 1..Len(frames) :
           /\ frames[i].method \in Method
           /\ {frames[i].arguments, frames[i].base, frames[i].height} \subseteq 0..Len(stack)
           /\ frames[i].action \in {"none", "void", "value"}
    /\ serial \in 0..MaxSerial + 1 /\ blocks \in 0..MaxSerial + 1
    /\ type \in {"uninit", "running", "done", "failed"}
    /\ processing \in BOOLEAN /\ pending \in 0..MaxFinalizers /\ died \in 0..MaxFinalizers
    /\ status \in {"running", "throwing", "returned", "exited", "threw", "aborted"}

Alive == status \in {"running", "throwing"}

(* The frames share the evaluation stack without a gap or an overlap: the    *)
(* operands each frame counts end where the arguments of the next begin, and *)
(* the last frame's end at the top (call_frame, return_frame, tail calls,    *)
(* jmp and unwind_frame each recompute one side of that boundary).           *)
FramesContiguous ==
    Alive =>
        \A i \in 1..Len(frames) :
            frames[i].base + frames[i].height =
                (IF i = Len(frames) THEN Len(stack) ELSE frames[i + 1].arguments)

(* The bookkeeping of frames and stack is sound: shapes, and no gap or overlap. *)
WellFormed == TypeOK /\ FramesContiguous

(* What a frame's callers left on the stack is what they find again: nothing *)
(* a callee does, through byrefs included, changes a slot under its own.     *)
CallersUntouched ==
    Alive => \A i \in 1..Len(frames) : SubSeq(stack, 1, frames[i].arguments) = frames[i].below

(* A call leaves its caller the operands its signature announces, whatever   *)
(* ran in between: a static constructor, a finalizer, a tail call, several   *)
(* targets of a delegate, or a result converted for reflection.              *)
CallBalance ==
    (status = "running" /\ frames # <<>>) =>
        ((Top(Machine).at \in {Any, Ret} /\ Top(Machine).multicast = NoCast) =>
            Top(Machine).height = Top(Machine).want)

Byrefs == {stack[i] : i \in {j \in 1..Len(stack) : stack[j].k = "byref"}}

(* A byref to a variable resolves while the frame that owns it lives, to     *)
(* that frame's block, and never afterwards: no block allocated later, in a  *)
(* pooled frame or not, is taken for it (F3.StableFrameHomes).               *)
HomesNotConfused ==
    \A b \in Byrefs :
        Live(Machine, b.serial) => HomeBlock(Machine, b.serial).block = b.block

(* The struct under construction stays in a live home of the caller, and the *)
(* slot of its result directly under the constructor's arguments, until the  *)
(* constructor returns, also when another method takes the frame over.       *)
ReceiverStaysLive ==
    Alive =>
        \A i \in 1..Len(frames) :
            LET r == frames[i].result
            IN  r # NoResult =>
                    /\ i > 1 /\ r.serial \in DOMAIN frames[i - 1].homes
                    /\ r.slot = frames[i].arguments /\ stack[r.slot] = Hole

(* No frame goes on with the placeholder of an unfinished newobj. *)
ConstructorDelivers ==
    (status = "running" /\ frames # <<>> /\ Top(Machine).at \in {Any, Ret}) =>
        \A i \in (Top(Machine).base + 1)..Len(stack) : stack[i] # Hole

(* A byref finds the home it was taken of, or nothing, and the home of a     *)
(* struct under construction is there as long as it is needed.               *)
HomesHold == HomesNotConfused /\ ReceiverStaysLive

(* What a frame keeps, on the stack or in a home, only it and its byrefs change. *)
StorageHolds == CallersUntouched /\ HomesHold

(* A multicast delegate runs each target it has picked, in the list's order, *)
(* and what it holds at the end is the last one's result.                    *)
MulticastInOrder ==
    (status = "running" /\ frames # <<>> /\ Top(Machine).multicast # NoCast) =>
        LET f == Top(Machine)
        IN  /\ f.invoked = SubSeq(f.multicast.targets, 1, f.multicast.next)
            /\ (f.multicast.next > 0 /\ Returns(Invoke)) =>
                   (f.height = 1 /\ stack[Len(stack)] = f.last)

(* The code of a type with a precise static constructor runs only once that  *)
(* constructor has begun, on this thread's own stack or completely.          *)
LazyAfterCctor ==
    \A i \in 1..Len(frames) :
        Lazy(frames[i].method) =>
            \/ type = "done"
            \/ type = "running" /\ \E j \in 1..(i - 1) : frames[j].method = Cctor

(* processing_finalizer is set exactly while one finalizer frame is on the   *)
(* stack, however that frame ends: never two, and never none for good.       *)
OneFinalizer ==
    LET running == {i \in 1..Len(frames) : frames[i].finalizer}
    IN  (status # "aborted") => (Cardinality(running) = IF processing THEN 1 ELSE 0)

(* A frame that goes on has no reflected result left to convert: the action  *)
(* set for one call is taken at that call's return and no other.             *)
NoStaleAction ==
    (status = "running" /\ frames # <<>> /\ Top(Machine).at \in {Any, Ret}) =>
        Top(Machine).action = "none"

(* The value the entry point returned is still the one at the bottom of the  *)
(* stack when the finalizers that ran after it are done: it is the exit code.*)
ExitCodeKept ==
    status = "returned" => Len(stack) = Given(Entry)

(* A frame goes on with what its call announced: the operands, the finished  *)
(* object, and no conversion that belongs to another call.                   *)
CallsDeliver == CallBalance /\ ConstructorDelivers /\ NoStaleAction

(* What the runtime calls on its own, static constructors and finalizers,    *)
(* comes when it should and leaves no trace in what the program computes.    *)
RuntimeCallsInOrder == LazyAfterCctor /\ OneFinalizer /\ ExitCodeKept

(* However calls nest, return, are replaced and unwound, the frames partition *)
(* the stack, and what a frame keeps, on the stack or in a home, only it and  *)
(* its byrefs change (FrameStack, FrameHomes).                                *)
FramesSound == WellFormed /\ StorageHolds

(* Every call, the runtime's own and each of a multicast delegate included,   *)
(* runs in its turn and leaves the operands its signature announces           *)
(* (call_frame, return_frame, handle_return).                                 *)
CallsSound == CallsDeliver /\ MulticastInOrder /\ RuntimeCallsInOrder
=============================================================================
