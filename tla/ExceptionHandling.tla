-------------------------- MODULE ExceptionHandling --------------------------
(***************************************************************************)
(* Two-pass exception handling: ExceptionHandlingSystem (dotnet-exceptions) *)
(* and the throw, rethrow, leave, endfinally, endfilter and ret operations *)
(* that start and resume it (dotnet-vm, stack/exception_ops_impl.rs).      *)
(*                                                                         *)
(* The interpreter runs methods whose instructions are chosen from a set   *)
(* at every offset, so one constant stands for many programs.  In the      *)
(* modes none, handler and filtering the dispatch loop runs instructions;  *)
(* in the others it calls handle_exception, and the actions here are the   *)
(* turns of that call.  Methods take no arguments and return nothing; of   *)
(* the evaluation stack only the number of slots is kept.                  *)
(*                                                                         *)
(* begin_throwing is entered in mode throwing only, so its tests for the   *)
(* modes filtering and searching never succeed: it always drops what a     *)
(* filter has suspended, nested_filter is always None, and                 *)
(* complete_nested_filter_unwind is never reached.                         *)
(***************************************************************************)
EXTENDS Naturals, Sequences, FiniteSets, SequencesExt

CONSTANTS
    Methods,
    Entries,      \* the methods a run may start with
    Cctors,       \* the methods that are static constructors
    Rows,         \* the exception rows of each method's body
    Code,         \* the instructions possible at each offset of each method
    Exceptions,   \* the exception objects
    TypeOf,       \* the type of each
    Bases,        \* the types each type is assignable to
    TypeInit,     \* the TypeInitializationException of each constructor
    NullRef,      \* the exception of a throw of null
    Nothing

ASSUME ExceptionConstants ==
    /\ Entries \subseteq Methods /\ Cctors \subseteq Methods
    /\ TypeOf \in [Exceptions -> DOMAIN Bases]
    /\ TypeInit \in [Cctors -> Exceptions]
    /\ NullRef \in Exceptions
    /\ Nothing \notin Exceptions

VARIABLES
    frames,     \* FrameStack::frames
    suspended,  \* FrameStack::suspended_frames
    top,        \* EvaluationStack::stack, its length
    spare,      \* EvaluationStack::suspended_stack, its length
    mode,       \* ThreadContext::exception_mode
    unwinds,    \* VmContinuation::HandlerUnwinds
    trace,      \* Exception._stackTraceString, as the frames it names
    cctor,      \* the state of each static constructor
    halt,       \* how the run ended
    thrown,     \* history: the frames when the search in progress began
    rejected,   \* history: the filters that have refused the exception sought
    origin      \* history: where each exception was last thrown, not rethrown

handlingVars == <<frames, suspended, top, spare, mode, unwinds, trace, cctor, halt, thrown, rejected, origin>>
history == <<thrown, rejected, origin>>

-----------------------------------------------------------------------------
(* Protected sections *)

In(range, ip) == range[1] <= ip /\ ip < range[2]

\* Mutant: of two sections with the same start the outer one comes first.
BeforeOuterFirst(a, b) == a[1] > b[1] \/ (a[1] = b[1] /\ a[2] > b[2])

\* The sort key of parse: later start first, then earlier end.
Before(a, b) == a[1] > b[1] \/ (a[1] = b[1] /\ a[2] < b[2])

\* The rows of a body grouped by try range, in the order the search visits them.
Parse(rows) ==
    LET ranges == SetToSortSeq({rows[i].try : i \in DOMAIN rows}, Before)
    IN  [i \in DOMAIN ranges |->
            [try |-> ranges[i], handlers |-> SelectSeq(rows, LAMBDA r : r.try = ranges[i])]]

Sections == [m \in Methods |-> Parse(Rows[m])]

Address(f, s, h) == [frame |-> f, section |-> s, handler |-> h]

\* The handlers of the methods on the frame stack fs.
Addresses(fs) ==
    UNION {UNION {{Address(f, s, h) : h \in DOMAIN Sections[fs[f].method][s].handlers} :
                    s \in DOMAIN Sections[fs[f].method]} : f \in DOMAIN fs}

Section(fs, a) == Sections[fs[a.frame].method][a.section]
Handler(fs, a) == Section(fs, a).handlers[a.handler]

\* a is reached from cursor c, or is it: frames from the top down, sections in order.
Reached(a, c) ==
    \/ a.frame < c.frame
    \/ a.frame = c.frame /\ a.section > c.section
    \/ a.frame = c.frame /\ a.section = c.section /\ a.handler >= c.handler

First(S) == CHOOSE a \in S : \A b \in S : Reached(b, a)

IsA(e, type) == type \in Bases[TypeOf[e]]

-----------------------------------------------------------------------------
(* The modes of ExceptionState *)

Idle == [kind |-> "none"]
Throwing(e, preserve) == [kind |-> "throwing", exc |-> e, preserve |-> preserve]
Searching(e, cursor) == [kind |-> "searching", exc |-> e, cursor |-> cursor]
Filtering(e, handler, ip, height) ==
    [kind |-> "filtering", exc |-> e, handler |-> handler, ip |-> ip, height |-> height]
Unwinding(e, target, cursor) ==
    [kind |-> "unwinding", exc |-> e, target |-> target, cursor |-> cursor]
ToHandler(a) == [to |-> "handler", at |-> a]
ToInstruction(ip) == [to |-> "instruction", at |-> ip]
ToReturn == [to |-> "return"]

Frame(m) == [method |-> m, ip |-> 0, base |-> top, height |-> 0, excs |-> <<>>]

HandlingInit ==
    /\ \E m \in Entries : frames = <<[method |-> m, ip |-> 0, base |-> 0, height |-> 0, excs |-> <<>>]>>
    /\ suspended = <<>>
    /\ top = 0 /\ spare = 0
    /\ mode = Idle
    /\ unwinds = <<>>
    /\ trace = [e \in Exceptions |-> Nothing]
    /\ cctor = [m \in Cctors |-> "uninitialized"]
    /\ halt = "no"
    /\ thrown = <<>> /\ rejected = {}
    /\ origin = [e \in Exceptions |-> Nothing]

Current == Len(frames)
Callers(fs) == [i \in DOMAIN fs |-> <<fs[i].method, fs[i].ip>>]

Executing == halt = "no" /\ mode.kind \in {"none", "handler", "filtering"}
Fetch(op) == {i \in Code[frames[Current].method][frames[Current].ip] : i.op = op}
Cursor(f) == Address(f, 1, 1)

-----------------------------------------------------------------------------
(* Instructions *)

\* Instructions that neither call nor throw: they push or pop operands.
Plain(op, pushed, popped) ==
    /\ Executing /\ Fetch(op) # {}
    /\ frames' = [frames EXCEPT ![Current].ip = @ + 1, ![Current].height = @ + pushed - popped]
    /\ top' = top + pushed - popped
    /\ UNCHANGED <<suspended, spare, mode, unwinds, trace, cctor, halt, history>>

Nop == Plain("nop", 0, 0)
Push == Plain("push", 1, 0)
Pop == Plain("pop", 0, 1)

Call ==
    /\ Executing
    /\ \E i \in Fetch("call") : frames' = Append(frames, Frame(i.arg))
    /\ UNCHANGED <<suspended, top, spare, mode, unwinds, trace, cctor, halt, history>>

\* throw pops the exception and starts the search; a null is replaced.
Throw ==
    /\ Executing
    /\ \E i \in Fetch("throw") :
        /\ mode' = Throwing(IF i.arg = Nothing THEN NullRef ELSE i.arg, FALSE)
        /\ origin' = [origin EXCEPT ![mode'.exc] = Callers(frames)]
    /\ UNCHANGED <<frames, suspended, top, spare, unwinds, trace, cctor, halt, thrown, rejected>>

\* rethrow raises the exception that the innermost catch of the frame has caught.
Rethrow ==
    /\ Executing /\ Fetch("rethrow") # {}
    /\ IF frames[Current].excs = <<>> THEN halt' = "error" /\ UNCHANGED mode
       ELSE mode' = Throwing(Last(frames[Current].excs), TRUE) /\ UNCHANGED halt
    /\ UNCHANGED <<frames, suspended, top, spare, unwinds, trace, cctor, history>>

\* initialize_static_storage, on one thread.
InitStatic ==
    /\ Executing
    /\ \E i \in Fetch("init") :
        \/ /\ cctor[i.arg] = "uninitialized"
           /\ cctor' = [cctor EXCEPT ![i.arg] = "initializing"]
           /\ frames' = Append(frames, Frame(i.arg))
           /\ UNCHANGED <<mode, origin>>
        \/ /\ cctor[i.arg] \in {"initializing", "initialized"}
           /\ frames' = [frames EXCEPT ![Current].ip = @ + 1]
           /\ UNCHANGED <<cctor, mode, origin>>
        \/ /\ cctor[i.arg] = "failed"
           /\ mode' = Throwing(TypeInit[i.arg], FALSE)
           /\ origin' = [origin EXCEPT ![TypeInit[i.arg]] = Callers(frames)]
           /\ UNCHANGED <<cctor, frames>>
    /\ UNCHANGED <<suspended, top, spare, unwinds, trace, halt, thrown, rejected>>

\* leave saves the unwind of a handler that runs in a frame further out.
Leave ==
    /\ Executing
    /\ \E i \in Fetch("leave") : mode' = Unwinding(Nothing, ToInstruction(i.arg), Cursor(Current))
    /\ unwinds' = IF mode.kind = "handler" /\ mode.cursor.frame < Current
                  THEN Append(unwinds, mode) ELSE unwinds
    /\ UNCHANGED <<frames, suspended, top, spare, trace, cctor, halt, history>>

EndFinally ==
    /\ Executing /\ Fetch("endfinally") # {}
    /\ IF mode.kind = "handler"
       THEN mode' = [mode EXCEPT !.kind = "unwinding"] /\ UNCHANGED halt
       ELSE halt' = "error" /\ UNCHANGED mode
    /\ UNCHANGED <<frames, suspended, top, spare, unwinds, trace, cctor, history>>

\* What the frames are when the filter's frame is put back as it was found.
Restored(f) ==
    [frames EXCEPT ![f].ip = mode.ip, ![f].height = mode.height - frames[f].base, ![f].excs = Front(@)]
        \o suspended

AfterRefusal(a) == [a EXCEPT !.handler = @ + 1]

\* endfilter pops the verdict, restores what the filter suspended, and goes on.
EndFilter ==
    /\ Executing
    /\ \E i \in Fetch("endfilter") :
        IF mode.kind # "filtering"
        THEN /\ halt' = "error"
             /\ UNCHANGED <<frames, suspended, top, spare, mode, rejected>>
        ELSE /\ frames' = Restored(mode.handler.frame)
             /\ suspended' = <<>> /\ top' = top - 1 + spare /\ spare' = 0
             /\ mode' = IF i.arg = 1
                        THEN Unwinding(mode.exc, ToHandler(mode.handler), Cursor(Len(frames')))
                        ELSE Searching(mode.exc, AfterRefusal(mode.handler))
             /\ rejected' = IF i.arg = 1 THEN rejected ELSE rejected \cup {mode.handler}
             /\ UNCHANGED halt
    /\ UNCHANGED <<unwinds, trace, cctor, thrown, origin>>

\* Mutant: a static constructor that returns leaves its type uninitialized.
ReturnUnmarked(fs) ==
    LET callee == Last(fs)
        caller == Front(fs)
    IN  /\ top' = callee.base
        /\ cctor' = IF callee.method \in Cctors
                    THEN [cctor EXCEPT ![callee.method] = "uninitialized"] ELSE cctor
        /\ IF caller = <<>> THEN frames' = <<>> /\ halt' = "returned"
           ELSE /\ frames' = IF callee.method \in Cctors THEN caller
                             ELSE [caller EXCEPT ![Len(caller)].ip = @ + 1]
                /\ UNCHANGED halt

\* handle_return: the frame is popped and its caller goes on after the call,
\* or, if the callee was a static constructor, retries the instruction.
Return(fs) ==
    LET callee == Last(fs)
        caller == Front(fs)
    IN  /\ top' = callee.base
        /\ cctor' = IF callee.method \in Cctors
                    THEN [cctor EXCEPT ![callee.method] = "initialized"] ELSE cctor
        /\ IF caller = <<>> THEN frames' = <<>> /\ halt' = "returned"
           ELSE /\ frames' = IF callee.method \in Cctors THEN caller
                             ELSE [caller EXCEPT ![Len(caller)].ip = @ + 1]
                /\ UNCHANGED halt

\* ret inside a try with a finally unwinds first.
Ret ==
    /\ Executing /\ Fetch("ret") # {}
    /\ LET frame == frames[Current]
           guarded == \E s \in DOMAIN Sections[frame.method] :
                        /\ In(Sections[frame.method][s].try, frame.ip)
                        /\ \E h \in DOMAIN Sections[frame.method][s].handlers :
                            Sections[frame.method][s].handlers[h].kind \in {"finally", "fault"}
       IN  IF mode.kind = "handler" /\ mode.cursor.frame = Current
           THEN /\ mode' = Unwinding(mode.exc, ToReturn, mode.cursor)
                /\ UNCHANGED <<frames, top, cctor, halt>>
           ELSE IF guarded
           THEN /\ mode' = Unwinding(Nothing, ToReturn, Cursor(Current))
                /\ UNCHANGED <<frames, top, cctor, halt>>
           ELSE Return(frames) /\ UNCHANGED mode
    /\ UNCHANGED <<suspended, spare, unwinds, trace, history>>

-----------------------------------------------------------------------------
(* handle_exception: throwing and searching *)

Engine(kind) == halt = "no" /\ mode.kind = kind

\* begin_throwing records the stack trace, unless a rethrow finds one, forgets
\* what a filter has suspended, and seeds the search at the top frame.
BeginThrowing ==
    /\ Engine("throwing")
    /\ trace' = IF mode.preserve /\ trace[mode.exc] # Nothing THEN trace
                ELSE [trace EXCEPT ![mode.exc] = Callers(frames)]
    /\ suspended' = <<>> /\ spare' = 0
    /\ mode' = Searching(mode.exc, Cursor(Current))
    /\ thrown' = frames /\ rejected' = {}
    /\ UNCHANGED <<frames, top, unwinds, cctor, halt, origin>>

\* A handler that the search stops at: a catch of the type, or any filter.
Candidate(e, a) ==
    /\ In(Section(frames, a).try, frames[a.frame].ip)
    /\ \/ Handler(frames, a).kind = "filter"
       \/ Handler(frames, a).kind = "catch" /\ IsA(e, Handler(frames, a).of)

Candidates == {a \in Addresses(frames) : Reached(a, mode.cursor) /\ Candidate(mode.exc, a)}

\* search_for_handler, the search stopping at a catch.
FoundCatch ==
    /\ Engine("searching") /\ Candidates # {}
    /\ Handler(frames, First(Candidates)).kind = "catch"
    /\ mode' = Unwinding(mode.exc, ToHandler(First(Candidates)), Cursor(Current))
    /\ UNCHANGED <<frames, suspended, top, spare, unwinds, trace, cctor, halt, history>>

\* search_for_handler, the search stopping at a filter: the frames and the
\* operands above the filter's are set aside and the filter clause runs.
FoundFilter ==
    /\ Engine("searching") /\ Candidates # {}
    /\ LET a == First(Candidates)
           frame == frames[a.frame]
       IN  /\ Handler(frames, a).kind = "filter"
           /\ mode' = Filtering(mode.exc, a, frame.ip, frame.base + frame.height)
           /\ suspended' = SubSeq(frames, a.frame + 1, Current)
           /\ spare' = top - frame.base
           /\ frames' = [SubSeq(frames, 1, a.frame) EXCEPT
                            ![a.frame].ip = Handler(frames, a).of,
                            ![a.frame].height = 1,
                            ![a.frame].excs = Append(@, mode.exc)]
           /\ top' = frame.base + 1
    /\ UNCHANGED <<unwinds, trace, cctor, halt, history>>

\* search_for_handler without a handler: the whole stack is dropped.
Unhandled ==
    /\ Engine("searching") /\ Candidates = {}
    /\ mode' = Idle /\ halt' = "threw"
    /\ frames' = <<>> /\ suspended' = <<>> /\ top' = 0 /\ spare' = 0
    /\ UNCHANGED <<unwinds, trace, cctor, history>>

-----------------------------------------------------------------------------
(* handle_exception: unwinding.  The cursor is the position the loop of      *)
(* unwind has reached.                                                       *)

Here == mode.cursor.frame
IsTarget == mode.target.to = "handler" => Here = mode.target.at.frame

\* Whether control leaves the section on the way to the target.
IsExitingSection(section, ip) ==
    IF mode.target.to = "handler" THEN In(section.try, ip)
    ELSE LET inside == {h \in ToSet(section.handlers) : In(h.range, ip)}
             staysIn(range) == mode.target.to = "instruction" /\ In(range, mode.target.at)
         IN  /\ ~\E h \in inside : staysIn(h.range)
             /\ In(section.try, ip) \/ inside # {}
             /\ ~staysIn(section.try)

\* The handlers of the frame that the loop visits from the cursor on.
Visited ==
    {a \in Addresses(frames) :
        /\ a.frame = Here
        /\ Reached(a, mode.cursor)
        /\ mode.target.to = "handler" /\ Here = mode.target.at.frame
            => a.section < mode.target.at.section
        /\ IsExitingSection(Section(frames, a), frames[Here].ip)}

Running(a) == In(Handler(frames, a).range, frames[Here].ip)

Intervenes(a) ==
    /\ ~Running(a)
    /\ \/ Handler(frames, a).kind = "finally"
       \/ Handler(frames, a).kind = "fault" /\ mode.exc # Nothing

\* The catch and filter handlers among S that control is leaving.
Left(S) == {a \in S : Running(a) /\ Handler(frames, a).kind \in {"catch", "filter"}}

DropLast(seq, n) == SubSeq(seq, 1, Len(seq) - n)

\* The next finally or fault handler of the frame is entered.
RunHandler ==
    /\ Engine("unwinding")
    /\ \E a \in Visited : Intervenes(a)
    /\ LET a == First({b \in Visited : Intervenes(b)})
           next == IF a.handler < Len(Section(frames, a).handlers)
                   THEN [a EXCEPT !.handler = @ + 1]
                   ELSE Address(Here, a.section + 1, 1)
           left == Left({b \in Visited : b # a /\ Reached(a, b)})
       IN  /\ mode' = [mode EXCEPT !.kind = "handler", !.cursor = next]
           /\ frames' = [frames EXCEPT ![Here].ip = Handler(frames, a).range[1],
                                       ![Here].height = 0,
                                       ![Here].excs = DropLast(@, Cardinality(left))]
    /\ UNCHANGED <<suspended, top, spare, unwinds, trace, cctor, halt, history>>

\* unwind_frame: a frame above the target is popped once its handlers have
\* run; the exception of a static constructor is replaced by a wrapper.
UnwindFrame ==
    /\ Engine("unwinding") /\ ~IsTarget
    /\ ~\E a \in Visited : Intervenes(a)
    /\ frames' = Front(frames)
    /\ top' = Last(frames).base
    /\ IF Last(frames).method \in Cctors
       THEN /\ cctor' = [cctor EXCEPT ![Last(frames).method] = "failed"]
            /\ mode' = Throwing(TypeInit[Last(frames).method], FALSE)
            /\ origin' = [origin EXCEPT ![mode'.exc] = Callers(frames')]
       ELSE /\ mode' = [mode EXCEPT !.cursor = Cursor(Here - 1)]
            /\ UNCHANGED <<cctor, origin>>
    /\ UNCHANGED <<suspended, spare, unwinds, trace, halt, thrown, rejected>>

Unwound == Engine("unwinding") /\ IsTarget /\ ~\E a \in Visited : Intervenes(a)
AfterLeaving == [frames EXCEPT ![Here].excs = DropLast(@, Cardinality(Left(Visited)))]

\* The catch or filter handler is entered with the exception as only operand.
EnterHandler ==
    /\ Unwound /\ mode.target.to = "handler"
    /\ mode' = Idle
    /\ frames' = [AfterLeaving EXCEPT ![Here].ip = Handler(frames, mode.target.at).range[1],
                                      ![Here].height = 1,
                                      ![Here].excs = Append(@, mode.exc)]
    /\ top' = frames[Here].base + 1
    /\ UNCHANGED <<suspended, spare, unwinds, trace, cctor, halt, history>>

\* Mutant: the unwind that was interrupted is not taken up again.
ArriveIdle ==
    /\ Unwound /\ mode.target.to = "instruction"
    /\ mode' = Idle
    /\ frames' = [AfterLeaving EXCEPT ![Here].ip = mode.target.at, ![Here].height = 0]
    /\ UNCHANGED <<suspended, top, spare, unwinds, trace, cctor, halt, history>>

\* A leave arrives; the unwind of a handler it interrupted is taken up again.
\* The operands of the frame stay on the stack although its height says none.
Arrive ==
    /\ Unwound /\ mode.target.to = "instruction"
    /\ IF unwinds = <<>> THEN mode' = Idle /\ UNCHANGED unwinds
       ELSE mode' = Last(unwinds) /\ unwinds' = Front(unwinds)
    /\ frames' = [AfterLeaving EXCEPT ![Here].ip = mode.target.at, ![Here].height = 0]
    /\ UNCHANGED <<suspended, top, spare, trace, cctor, halt, history>>

ReturnUnwound ==
    /\ Unwound /\ mode.target.to = "return"
    /\ mode' = Idle
    /\ Return(AfterLeaving)
    /\ UNCHANGED <<suspended, spare, unwinds, trace, history>>

Terminated == halt # "no" /\ UNCHANGED handlingVars

HandlingNext ==
    \/ Nop \/ Push \/ Pop \/ Call \/ Throw \/ Rethrow \/ InitStatic
    \/ Leave \/ EndFinally \/ EndFilter \/ Ret
    \/ BeginThrowing \/ FoundCatch \/ FoundFilter \/ Unhandled
    \/ RunHandler \/ UnwindFrame \/ EnterHandler \/ Arrive \/ ReturnUnwound
    \/ Terminated

\* The engine goes on with what it is doing.
HandlingFairness == WF_handlingVars(HandlingNext)

-----------------------------------------------------------------------------
(* Properties *)

FrameType ==
    [method : Methods, ip : Nat, base : Nat, height : Nat, excs : Seq(Exceptions)]

\* Type invariant: frames, suspended frames, saved unwinds and the state of
\* every static constructor keep the types their structures declare.
HandlingTypeOK ==
    /\ frames \in Seq(FrameType) /\ suspended \in Seq(FrameType)
    /\ \A i \in DOMAIN frames : frames[i].ip \in DOMAIN Code[frames[i].method]
    /\ top \in Nat /\ spare \in Nat
    /\ mode.kind \in {"none", "throwing", "searching", "filtering", "unwinding", "handler"}
    /\ mode.kind \in {"throwing", "searching", "filtering"} => mode.exc \in Exceptions
    /\ \A i \in DOMAIN unwinds : unwinds[i].kind = "handler"
    /\ cctor \in [Cctors -> {"uninitialized", "initializing", "initialized", "failed"}]
    /\ halt \in {"no", "returned", "threw", "error"}

Protects(fs, a) == In(Section(fs, a).try, fs[a.frame].ip)

Encloses(outer, inner) == outer # inner /\ outer[1] <= inner[1] /\ inner[2] <= outer[2]

\* a must be asked before b: it is in a frame nearer the throw, in a try block
\* nested in b's, or earlier among the handlers of b's try block.
Nearer(fs, a, b) ==
    \/ a.frame > b.frame
    \/ /\ a.frame = b.frame
       /\ \/ Encloses(Section(fs, b).try, Section(fs, a).try)
          \/ a.section = b.section /\ a.handler < b.handler

\* The handler that search_for_handler settles on is the nearest that accepts
\* the exception: every nearer catch is of another type and every nearer
\* filter has been run and has refused.
NearestHandler ==
    [][mode.kind \in {"searching", "filtering"} /\ mode'.kind = "unwinding" =>
        \A a \in Addresses(thrown) :
            Protects(thrown, a) /\ Nearer(thrown, a, mode'.target.at) =>
                \/ Handler(thrown, a).kind \in {"finally", "fault"}
                \/ Handler(thrown, a).kind = "catch" /\ ~IsA(mode.exc, Handler(thrown, a).of)
                \/ a \in rejected]_handlingVars

\* When endfilter has given its verdict, the frames, their offsets and the
\* operand stack are those of the moment the exception was thrown.
FilterRestores ==
    [][mode.kind = "filtering" /\ mode'.kind \in {"searching", "unwinding"} =>
        /\ frames' = thrown
        /\ top' = Last(thrown).base + Last(thrown).height]_handlingVars

\* Control leaves a try block that has a finally only into that finally (or,
\* for a while, into a filter clause): not by leave, not by ret, and not by
\* the unwinding of its frame.
FinallyNotSkipped ==
    [][halt' \in {"no", "returned"} => \A f \in DOMAIN frames :
        LET old == frames[f] IN
        \A s \in DOMAIN Sections[old.method] : \A h \in ToSet(Sections[old.method][s].handlers) :
            h.kind = "finally" /\ In(h.try, old.ip) =>
                /\ f \in DOMAIN (frames' \o suspended')
                /\ LET now == (frames' \o suspended')[f] IN
                    \/ In(h.try, now.ip)
                    \/ now.ip = h.range[1] /\ mode'.kind = "handler"
                    \/ mode'.kind = "filtering" /\ mode'.handler.frame = f]_handlingVars

\* endfinally, endfilter and rethrow always find the state they resume.
EndsMatch == halt # "error"

\* While no exception is in flight, the operands on the evaluation stack are
\* those the current frame knows of: unwinding has dropped all others.
OperandsBalanced ==
    mode.kind = "none" /\ halt = "no" => top = Last(frames).base + Last(frames).height

Catching(frame) ==
    {h \in ToSet(Rows[frame.method]) : h.kind \in {"catch", "filter"} /\ In(h.range, frame.ip)}

\* A frame's exception_stack holds an exception for every catch block that is
\* running in it, so that rethrow finds one.
CaughtAreRunning ==
    mode.kind = "none" =>
        \A f \in DOMAIN frames : Len(frames[f].excs) >= Cardinality(Catching(frames[f]))

\* The stack trace of an exception in flight is that of its throw: rethrow
\* keeps it and a second throw of the object replaces it.
TraceIsOfThrow ==
    mode.kind \in {"searching", "filtering"} => trace[mode.exc] = origin[mode.exc]

\* Whatever handlers are nested in one another, the end of each finds what it
\* is to resume, and rethrow the exception it is to throw again, with its trace.
HandlersResume == EndsMatch /\ CaughtAreRunning /\ TraceIsOfThrow

\* The frames and the evaluation stack agree with one another.
WellFormed == HandlingTypeOK /\ OperandsBalanced

\* Frames, operands and the handlers in progress belong together at every step.
HandlersSound == WellFormed /\ HandlersResume

\* An exception, a leave and a ret pass the handlers on their way in order.
HandlersInOrder == NearestHandler /\ FilterRestores /\ FinallyNotSkipped

\* The handling of an exception ends: in a handler, after it, or with the run.
HandlingEnds == <>(halt # "no")

=============================================================================
