------------------------------ MODULE MCCalls ------------------------------
(* A small program for Calls: a method with a homed argument, a static       *)
(* method of a type with a precise static constructor, a struct constructor  *)
(* that another one can take over, an intrinsic, delegates and the methods   *)
(* the runtime calls. Beside it, Delegates: how the lists that Invoke walks   *)
(* come about; and PInvoke: two threads that call native functions at the    *)
(* same time. The three share no state, and one of them moves.               *)
EXTENDS Calls, Delegates, PInvoke

VARIABLE part   \* the one that moves

Data == [k |-> "data"]
Both == Delegate(<<"f", "len">>)
MCMethod == {"main", "f", "s", "ctor", "len", "cctor", "fin", "invoke"}
MCArgs(m) ==
    CASE m \in {"f", "s", "ctor", "fin", "len"} -> 1 [] m = "invoke" -> 2 [] OTHER -> 0
MCLocals(m) == IF m = "f" THEN 1 ELSE 0
MCReturns(m) == m \in {"main", "f", "s", "len", "invoke"}
MCHomed(m) == m = "f"
MCLazy(m) == m = "s"
MCIntrinsic(m) == m = "len"
MCConstants == {Data, Packed(<<Data>>), Both}

MainCode ==
    {<<"load", c>> : c \in MCConstants} \cup
    {<<"pop">>, <<"ldind">>, <<"call", "f">>, <<"call", "s">>, <<"newobj", "ctor">>,
     <<"invoke">>, <<"reflect", "f">>, Ret}
FCode ==
    {<<"lda">>, <<"ldind">>, <<"stind", Data>>, <<"tail", "f", TRUE>>, <<"tail", "f", FALSE>>,
     <<"tail", "len", TRUE>>, <<"jmp", "f">>, <<"call", "s">>, <<"newobj", "ctor">>,
     <<"throw">>, Ret}
MCCode(m) ==
    CASE m = "main" -> MainCode
      [] m = "f" -> FCode
      [] m = "ctor" -> {<<"jmp", "ctor">>, <<"lda">>, <<"stind", Data>>, <<"call", "f">>, <<"throw">>, Ret}
      [] m = "cctor" -> {<<"load", Data>>, <<"call", "s">>, <<"throw">>, Ret}
      [] m = "s" -> {<<"load", Data>>, <<"throw">>, Ret}
      [] OTHER -> {<<"throw">>, Ret}

(* The same program with a delegate whose targets need their type's static   *)
(* constructor.                                                              *)
LazyBoth == Delegate(<<"s", "f">>)
LazyConstants == {Data, LazyBoth}
LazyCode(m) ==
    CASE m = "main" -> {<<"load", Data>>, <<"load", LazyBoth>>, <<"invoke">>, Ret}
      [] OTHER -> MCCode(m)

(* Native calls: every integer type with every kind of operand, every type   *)
(* of result, every pair of arguments that are addresses, and calls of two   *)
(* threads that share objects.                                               *)
Own == "x"          \* an object of thread p
Other == "y"        \* one of thread q
MCOwner == [o \in {Own, Other} |-> IF o = Own THEN "p" ELSE "q"]
MCInstalled == [l \in {"lib", "absent"} |-> IF l = "lib" THEN {"function"} ELSE {}]

NativeCall(args, ret) ==
    [args |-> args, ret |-> ret, library |-> "lib", function |-> "function", handles |-> {}]
NoLibrary == [NativeCall(<<>>, "Void") EXCEPT !.library = "absent"]
NoFunction == [NativeCall(<<>>, "Void") EXCEPT !.function = "missing"]

Numbers(is) == IF is = "Int32" THEN {-8, -1, 0, 1, 7} ELSE {-128, -9, -8, -1, 0, 1, 7, 8, 15, 16, 127}
Integer(is, as, n) == [is |-> is, type |-> as, n |-> n]
IntegerArgs ==
    UNION {{Integer(is, as, n) : n \in Numbers(is)} :
             is \in {"Int32", "Int64", "NativeInt"}, as \in Signed \cup Unsigned}
Whole(o) == [is |-> "ObjectRef", type |-> "Class", origin |-> "Heap", o |-> o]
ByRef(origin, o, offset) ==
    [is |-> "ManagedPtr", type |-> "Ref", origin |-> origin, o |-> o, offset |-> offset]
ToHome(is, as, live, room) ==
    [is |-> is, type |-> as, origin |-> "FrameHome", live |-> live, room |-> room]
To(is, as, origin) == [is |-> is, type |-> as, origin |-> origin, o |-> Own]
AddressArgs ==
    {Whole(Own), To("ObjectRef", "Class", "Null"), ByRef("Heap", Own, 1), ByRef("Heap", Own, 2),
     ByRef("Cross", Other, 0), To("ManagedPtr", "Ref", "Elsewhere"), To("ManagedPtr", "Ref", "Null"),
     ToHome("ManagedPtr", "Ref", TRUE, Word), ToHome("ManagedPtr", "Ref", TRUE, 4),
     ToHome("ManagedPtr", "IntPtr", FALSE, Word), ToHome("TypedRef", "TypedRef", TRUE, Word),
     To("TypedRef", "TypedRef", "HeapNull"), To("ManagedPtr", "IntPtr", "HeapNull"),
     To("TypedRef", "TypedRef", "Heap"), To("ManagedPtr", "IntPtr", "Heap"),
     To("TypedRef", "TypedRef", "Elsewhere"), To("TypedRef", "TypedRef", "Cross"),
     To("ManagedPtr", "IntPtr", "Cross"), [is |-> "NativeFloat", type |-> "Float64"],
     [is |-> "UnmanagedPtr", type |-> "IntPtr"], [is |-> "ValueType", type |-> "Struct", size |-> 2],
     [is |-> "UninitializedTypedRef", type |-> "TypedRef"], [is |-> "ValueType", type |-> "ByRefLike", size |-> 2]}
Results == Signed \cup Unsigned \cup {"Void", "Float64", "Struct", "Ref", "Class", "TypedRef", "ByRefLike"}

Alone ==
    {NativeCall(<<a>>, "Void") : a \in IntegerArgs}
      \cup {NativeCall(<<>>, ret) : ret \in Results}
      \cup {NativeCall(<<a, b>>, "Int32") : a, b \in AddressArgs}
      \cup {NoLibrary, NoFunction, [NativeCall(<<Whole(Own)>>, "Void") EXCEPT !.handles = {Own}]}
Shared(mine, others) ==
    {NativeCall(args, "Void") : args \in
        {<<Whole(mine)>>, <<ByRef("Cross", others, 0)>>, <<Whole(mine), ByRef("Cross", others, 0)>>,
         <<ByRef("Heap", mine, 2), ByRef("Heap", mine, 1)>>, <<Whole(mine), ByRef("Heap", mine, 1)>>}}
MCPrograms ==
    {[t \in {"p", "q"} |-> IF t = "p" THEN c ELSE NoLibrary] : c \in Alone}
      \cup {[t \in {"p", "q"} |-> IF t = "p" THEN c ELSE d] :
               c \in Shared(Own, Other), d \in Shared(Other, Own)}

RunInit ==
    /\ Init /\ DelegatesInit /\ PInvokeInit
    /\ part \in {"calls", "delegates", "pinvoke"}
    /\ part # "pinvoke" => \A t \in Threads : Here(t).call = NoLibrary
RunNext ==
    /\ \/ part = "calls" /\ Next /\ UNCHANGED <<delegateVars, invokeVars>>
       \/ part = "delegates" /\ DelegatesNext /\ UNCHANGED <<vars, invokeVars>>
       \/ part = "pinvoke" /\ PInvokeNext /\ UNCHANGED <<vars, delegateVars>>
    /\ UNCHANGED part
RunSpec == RunInit /\ [][RunNext]_<<part, vars, delegateVars, invokeVars>>

(* What is called, and in which order, is what the program put together: by   *)
(* a call instruction, by the runtime, or by combining delegates; and what a  *)
(* native function is given is what the program passed, kept in place for as  *)
(* long as it can be used.                                                    *)
CallsRight ==
    CASE part = "calls" -> CallsSound
      [] part = "delegates" -> DelegatesSound
      [] part = "pinvoke" -> PInvokeSound
=============================================================================
