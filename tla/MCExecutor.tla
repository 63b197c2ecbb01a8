----------------------------- MODULE MCExecutor -----------------------------
(* The execution engine in small instances of what it does, one in each behaviour: the loop
   that runs instructions, the handling of exceptions, and a full collection over all
   arenas.  The others are at rest: a program that has ended, a collection that is done. *)
EXTENDS MCInterpreter, ExceptionHandling, CrossArenaGC

CONSTANTS a1, a2, o1, o2, o3

VARIABLE
    part   \* what this behaviour is about

(* Two arenas and objects whose paths cross and come back. *)
TwoArenas == {a1, a2}
ThreeObjects == {o1, o2, o3}
OwnerOfThree == [o \in ThreeObjects |-> IF o \in {o1, o3} THEN a1 ELSE a2]

(* Programs for ExceptionHandling.  A program fixes the protected sections and, at every
   offset, the instructions that may stand there. *)
I(op) == [op |-> op, arg |-> Nothing]
To(op, arg) == [op |-> op, arg |-> arg]
Row(try, kind, of, range) == [try |-> try, kind |-> kind, of |-> of, range |-> range]
Body(seq) == [offset \in 0..Len(seq) - 1 |-> seq[offset + 1]]

\* Two unrelated exceptions, the wrapper of a static constructor's and null's.
MCExceptions == {"e1", "e2", "wrapped", "null"}
MCTypeOf == [e1 |-> "A", e2 |-> "B", wrapped |-> "TypeInit", null |-> "NullRef"]
MCBases == [A |-> {"A", "Any"}, B |-> {"B", "Any"}, TypeInit |-> {"TypeInit", "Any"},
            NullRef |-> {"NullRef", "Any"}]
MCTypeInit == [m \in {"cctor"} |-> "wrapped"]

\* Main: try { try { try { push; ?; pop } catch (A) { ? } } finally { ? } } catch (Any) { ? }
MainRows == <<Row(<<0, 9>>, "catch", "Any", <<9, 12>>),
              Row(<<0, 4>>, "catch", "A", <<4, 7>>),
              Row(<<0, 7>>, "finally", Nothing, <<7, 9>>)>>
MainCode(body, caught, cleanup, outer) == Body(<<
    {I("push")}, body, {I("pop")}, {To("leave", 12)},
    {I("pop")}, caught, {To("leave", 12)},
    cleanup, {I("endfinally")},
    {I("pop")}, outer, {To("leave", 12)},
    {I("ret")}>>)

\* callee: try { try { ? } fault { } } finally { }; ?
CalleeRows == <<Row(<<0, 2>>, "fault", Nothing, <<2, 3>>), Row(<<0, 3>>, "finally", Nothing, <<3, 5>>)>>
CalleeCode == Body(<<
    {I("nop"), To("throw", "e1"), To("throw", "e2"), To("throw", Nothing), I("ret")}, {To("leave", 5)},
    {I("endfinally")},
    {I("nop")}, {I("endfinally")},
    {I("ret"), To("throw", "e2")}>>)

\* cctor: may throw
CctorCode == Body(<<{I("nop"), To("throw", "e1")}, {I("ret")}>>)

\* tidy, called by a finally: try { } finally { }
TidyRows == <<Row(<<0, 2>>, "finally", Nothing, <<2, 3>>)>>
TidyCode == Body(<<{I("nop")}, {To("leave", 3)}, {I("endfinally")}, {I("ret")}>>)

NestedRows == [main |-> MainRows, callee |-> CalleeRows, cctor |-> <<>>, tidy |-> TidyRows]
NestedCode == [
    main |-> MainCode({To("call", "callee"), To("throw", "e1"), To("init", "cctor")},
                      {I("nop"), I("rethrow"), To("throw", "e1"), To("throw", "e2"),
                       To("init", "cctor"), To("call", "callee")},
                      {I("nop"), To("throw", "e2"), To("call", "tidy")},
                      {I("nop"), I("rethrow"), To("init", "cctor"), To("call", "callee")}),
    callee |-> CalleeCode, cctor |-> CctorCode, tidy |-> TidyCode]

\* A try block with a filter, a second filter or a catch behind it, a finally
\* around them and a filter around that.
FilterRows == <<Row(<<0, 14>>, "filter", 14, <<17, 19>>),
                Row(<<0, 4>>, "filter", 4, <<8, 10>>),
                Row(<<0, 4>>, "catch", "B", <<10, 12>>),
                Row(<<0, 12>>, "finally", Nothing, <<12, 14>>)>>
FilterCode(body, clause) == Body(<<
    {I("push")}, body, {I("pop")}, {To("leave", 19)},
    {I("pop")}, clause, {I("push")}, {To("endfilter", 0), To("endfilter", 1)},
    {I("pop")}, {To("leave", 19)},
    {I("pop")}, {To("leave", 19)},
    {I("nop")}, {I("endfinally")},
    {I("pop")}, {I("push")}, {To("endfilter", 0), To("endfilter", 1)},
    {I("pop")}, {To("leave", 19)},
    {I("ret")}>>)
PredCode == Body(<<{I("nop")}, {I("ret")}>>)

FilterProgramRows == [outer |-> FilterRows, middle |-> FilterRows, inner |-> FilterRows, pred |-> <<>>]
FilterProgramCode == [
    outer |-> FilterCode({To("call", "middle"), To("throw", "e1")}, {I("nop"), To("call", "pred")}),
    middle |-> FilterCode({To("call", "inner"), To("throw", "e2")}, {I("nop"), To("call", "pred")}),
    inner |-> FilterCode({To("throw", "e1"), To("throw", "e2")}, {I("nop")}),
    pred |-> PredCode]

AllRows == NestedRows @@ FilterProgramRows
AllCode == NestedCode @@ FilterProgramCode
AllMethods == DOMAIN AllRows

CodeAtRest ==
    /\ program = [mt |-> FALSE, code |-> <<Simple("ret")>>] /\ at = "done" /\ outcome = "exited"
    /\ ip = 2 /\ stack = <<>> /\ memory = [c \in 0..(Cells - 1) |-> c]
    /\ work = NoWork /\ substring = NoWork /\ executed = 0 /\ sincePoll = 0
    /\ finalizer = 0 /\ due = 0 /\ swept = {}
    /\ stop = FALSE /\ abort = FALSE /\ stops = 0 /\ late = 0 /\ others = TRUE

HandlingAtRest ==
    /\ frames = <<>> /\ suspended = <<>> /\ top = 0 /\ spare = 0 /\ mode = Idle /\ unwinds = <<>>
    /\ trace = [e \in Exceptions |-> Nothing] /\ origin = [e \in Exceptions |-> Nothing]
    /\ cctor = [m \in Cctors |-> "uninitialized"] /\ halt = "returned"
    /\ thrown = <<>> /\ rejected = {}

CollectionAtRest ==
    /\ refs = [o \in Objects |-> {}] /\ roots = [a \in Arenas |-> {}] /\ registered = Arenas
    /\ queue = {} /\ crossRoots = {} /\ pending = {} /\ phase = "Done" /\ todo = {}
    /\ objs = {} /\ found = {} /\ dispatched = {} /\ marked = {} /\ freed = Objects

EngineInit ==
    \/ part = "code" /\ CodeInit /\ HandlingAtRest /\ CollectionAtRest
    \/ part = "handling" /\ CodeAtRest /\ HandlingInit /\ CollectionAtRest
    \/ part = "collection" /\ CodeAtRest /\ HandlingAtRest /\ Init

EngineNext ==
    /\ \/ part = "code" /\ CodeNext /\ UNCHANGED <<handlingVars, vars>>
       \/ part = "handling" /\ HandlingNext /\ UNCHANGED <<codeVars, vars>>
       \/ part = "collection" /\ Next /\ UNCHANGED <<codeVars, handlingVars>>
    /\ UNCHANGED part

(* At rest, none of the steps that fairness is about is enabled. *)
EngineSpec ==
    /\ EngineInit /\ [][EngineNext]_<<part, codeVars, handlingVars, vars>>
    /\ CodeFairness /\ HandlingFairness /\ WF_vars(Next)
=============================================================================
