----------------------------- MODULE Interpreter -----------------------------
(***************************************************************************)
(* One executor (Executor::run), its engine (ExecutionEngine::run and      *)
(* step_normal) and the instructions and intrinsics that look at the stop  *)
(* flag while they work.  Another thread may stop the world at any moment, *)
(* or the run may be aborted.                                              *)
(*                                                                         *)
(* An instruction that finds the flag raised gives up what it was doing    *)
(* and returns Yield: the instruction pointer stays, and after the safe    *)
(* point the same instruction is run again.  Everything such an            *)
(* instruction kept in local variables is lost; only the evaluation stack, *)
(* the memory and, without multithreading, the retained copy of a          *)
(* Substring are there when it starts again.                               *)
(*                                                                         *)
(* A value on the stack is an object, named by the instruction that makes  *)
(* it.  Memory is cells; a chunk is what an instruction handles between    *)
(* two looks at the flag.                                                  *)
(***************************************************************************)
EXTENDS Integers, Sequences, FiniteSets

CONSTANTS
    Programs,       \* [mt : whether built with multithreading, code : instructions]
    Cells,          \* cells of memory
    Chunk,          \* CHUNK_SIZE and its like, and LARGE_ARRAY_THRESHOLD
    Batch,          \* DISPATCH_BATCH_SIZE
    PollInterval,   \* DOTNET_SAFE_POINT_POLL_INTERVAL
    MaxStops,       \* bound: stops of the world, and collections of a program that runs alone
    MaxFinalizers   \* bound: finalizers that collections find due

ASSUME SizeAssumption == {Cells, Chunk, Batch, PollInterval} \subseteq Nat \ {0}
ASSUME BoundAssumption == {MaxStops, MaxFinalizers} \subseteq Nat
ASSUME ProgramAssumption ==
    \A p \in Programs :
        /\ p.mt \in BOOLEAN /\ Len(p.code) \in Nat \ {0} /\ DOMAIN p.code = 1..Len(p.code)
        /\ \A k \in 1..Len(p.code) :
               p.code[k].op \in {"ldstr", "join", "stsfld", "collect", "ret"} \/ p.code[k].size \in Nat

VARIABLES
    program,
    at,          \* where Executor::run and ExecutionEngine::run are
    ip,
    stack,
    memory,
    work,        \* the local variables of the instruction that is running
    substring,   \* CallState::substring
    executed,    \* executed_in_batch
    sincePoll,   \* since_poll
    finalizer,   \* instructions the frame of a finalizer still has to run
    due,     \* pending_finalization
    stop,        \* gc_stop_requested, which a build without multithreading never sets
    abort,       \* is_abort_requested: a timeout of the host, say
    stops,
    late,        \* instructions and chunks run since stop was raised
    others,      \* what the program waits for on other threads has happened
    swept,       \* objects swept
    outcome      \* ExecutorResult

execution == <<ip, stack, memory, work, substring>>
engine == <<executed, sincePoll>>
finalization == <<due, swept>>
world == <<stop, abort, stops, others>>
codeVars == <<program, at, execution, engine, finalizer, finalization, world, late, outcome>>

code == program.code
mt == program.mt
Instruction == code[ip]

NoWork == [op |-> "none"]
Returned == Len(code) + 1   \* ip once the frame of the program is gone

CodeInit ==
    /\ program \in Programs
    /\ at = "top" /\ ip = 1 /\ stack = <<>> /\ memory = [c \in 0..(Cells - 1) |-> c]
    /\ work = NoWork /\ substring = NoWork
    /\ executed = 0 /\ sincePoll = 0
    /\ finalizer = 0 /\ due = 0
    /\ stop = FALSE /\ abort = FALSE /\ stops = 0 /\ late = 0 /\ others = FALSE
    /\ swept = {} /\ outcome = "running"

-----------------------------------------------------------------------------
(* The instructions.  A record has the operation, the size of what it handles
   and, where it copies, the cells.  The operations stand for groups of
   handlers with one shape:
     ldstr       makes a value
     newarr      takes its operand, then looks at the flag, then makes a value
     convert     takes its operand, then reads a string in chunks
     cpblk       takes its operands, then copies forward in chunks
     memmove     takes its operands, then copies in chunks, backward if it must
     fill        takes its operands, then writes in chunks
     equals      leaves its operands, reads two strings in chunks
     substring   leaves its operands, or retains the copy
     join        leaves its operand and waits for another thread
     stsfld      waits for another thread's static constructor, then takes its operand
     collect     GC.Collect
     ret *)

Takes(i) ==
    CASE i.op \in {"ldstr", "collect", "ret"} -> 0
      [] i.op = "equals" -> 2
      [] OTHER -> 1

Makes(i) == i.op \in {"ldstr", "newarr", "convert", "equals", "substring"}

Copies(i) == i.op \in {"cpblk", "memmove", "fill"}

Drop(s, n) == SubSeq(s, 1, Len(s) - n)
Completed(s, i, k) == IF Makes(i) THEN Append(s, k) ELSE s

(* What a frame leaves: its result, if its method has one. *)
Result(s) == IF s = <<>> THEN s ELSE <<s[Len(s)]>>

(* ptr::copy, or a fill, of n cells that begin start cells into the range. *)
CopyCells(m, i, start, n) ==
    [c \in DOMAIN m |->
        IF c \in (i.dst + start)..(i.dst + start + n - 1)
          THEN IF i.op = "fill" THEN Cells ELSE m[c - i.dst + i.src]
          ELSE m[c]]

(* The order of the chunks in chunked_copy_with_safe_point. *)
Backward(i) == i.op = "memmove" /\ i.dst > i.src /\ i.dst < i.src + i.size

Smaller(a, b) == IF a < b THEN a ELSE b

-----------------------------------------------------------------------------
(* The executor's loop *)

(* Objects that a collection finds: on the stack, held by the frames of
   finalizers (not named here), and by the retained copy. *)
Traced == {stack[k] : k \in 1..Len(stack)} \cup (IF substring = NoWork THEN {} ELSE {substring.source})

(* The values a program has made so far. *)
Made == {k \in 1..(Smaller(ip, Len(code)) - 1) : Makes(code[k])}

(* A collection, this executor's own or that of the thread that stopped it; it may
   find a finalizer due. *)
Collect ==
    /\ swept' = swept \cup (Made \ Traced)
    /\ due' \in {due, Smaller(due + 1, MaxFinalizers)}

(* The loop ends, and drops a retained copy. *)
Abort ==
    /\ at = "top" /\ abort
    /\ at' = "done" /\ outcome' = "aborted" /\ substring' = NoWork
    /\ UNCHANGED <<program, ip, stack, memory, work, engine, finalizer, finalization, world, late>>

(* collection_check and perform_full_gc: the program asked, or the arena has
   allocated enough. *)
CollectionCheck ==
    /\ at = "top" /\ ~abort /\ at' = "safe point"
    /\ \/ Collect /\ stops < MaxStops /\ stops' = stops + 1
       \/ UNCHANGED <<finalization, stops>>
    /\ UNCHANGED <<program, execution, engine, finalizer, stop, abort, others, late, outcome>>

(* ThreadManager::safe_point, where the thread parks until it is resumed. *)
SafePoint ==
    /\ at = "safe point" /\ ~stop
    /\ at' = "finalizers"
    /\ UNCHANGED <<program, execution, engine, finalizer, finalization, world, late, outcome>>

Resume ==
    /\ at = "safe point" /\ stop
    /\ stop' = FALSE /\ late' = 0 /\ at' = "finalizers"
    /\ Collect
    /\ UNCHANGED <<program, execution, engine, finalizer, abort, stops, others, outcome>>

(* Mutant: finalizers start although a copy is retained. *)
ProcessPendingFinalizersAnyway ==
    /\ at = "finalizers" /\ at' = "engine"
    /\ IF finalizer = 0 /\ due > 0
         THEN finalizer' = 2 /\ due' = due - 1
         ELSE UNCHANGED <<finalizer, due>>
    /\ UNCHANGED <<program, execution, engine, swept, world, late, outcome>>

(* process_pending_finalizers pushes the frame of one finalizer. *)
ProcessPendingFinalizers ==
    /\ at = "finalizers" /\ at' = "engine"
    /\ IF substring = NoWork /\ finalizer = 0 /\ due > 0
         THEN finalizer' = 2 /\ due' = due - 1
         ELSE UNCHANGED <<finalizer, due>>
    /\ UNCHANGED <<program, execution, engine, swept, world, late, outcome>>

(* ExecutionEngine::run up to its first instruction. *)
EnterEngine ==
    /\ at = "engine" /\ substring = NoWork
    /\ IF stop \/ abort
         THEN at' = "top" /\ UNCHANGED engine
         ELSE at' = "batch" /\ executed' = 0 /\ sincePoll' = 0
    /\ UNCHANGED <<program, execution, finalizer, finalization, world, late, outcome>>

-----------------------------------------------------------------------------
(* What becomes of an instruction *)

(* One more instruction or chunk. *)
Counted == late' = IF stop THEN late + 1 ELSE 0

(* StepResult::Continue, and the rest of the batch's loop. *)
ContinueBatch ==
    /\ Counted
    /\ executed' = executed + 1
    /\ IF sincePoll + 1 >= PollInterval
         THEN /\ sincePoll' = 0
              /\ at' = IF stop \/ abort \/ executed' = Batch THEN "top" ELSE "batch"
         ELSE /\ sincePoll' = sincePoll + 1
              /\ at' = IF executed' = Batch THEN "top" ELSE "batch"

(* StepResult::Yield: the local variables are gone. *)
Yield ==
    /\ at' = "top" /\ work' = NoWork
    /\ UNCHANGED <<ip, engine>>

Done(result) ==
    /\ at' = "done" /\ outcome' = result /\ substring' = NoWork /\ work' = NoWork

(* StepResult::Return, and complete_entrypoint_return. *)
ReturnFromEntry ==
    IF due > 0
      THEN at' = "top" /\ UNCHANGED <<outcome, substring, work>>
      ELSE Done("exited")

Executes(op) == at = "batch" /\ finalizer = 0 /\ ip \in DOMAIN code /\ Instruction.op = op
Others == <<program, finalizer, finalization, world>>

(* The operands are there: pop_safe's error is for a program that the properties
   have already found out. *)
Ready(op) == Executes(op) /\ Len(stack) >= Takes(Instruction)

-----------------------------------------------------------------------------
(* The groups of handlers *)

Ldstr ==
    /\ Ready("ldstr")
    /\ stack' = Append(stack, ip) /\ ip' = ip + 1
    /\ ContinueBatch
    /\ UNCHANGED <<memory, work, substring, outcome, Others>>

(* newarr, FastAllocateString, MakeGenericType, GetGenericArguments and
   CreateInstance: the operands are popped before the flag is read. *)
NewArr ==
    /\ Ready("newarr")
    /\ IF Instruction.size > Chunk /\ stop
         THEN stack' = Drop(stack, 1) /\ Yield /\ UNCHANGED late
         ELSE /\ stack' = Append(Drop(stack, 1), ip) /\ ip' = ip + 1
              /\ ContinueBatch /\ UNCHANGED work
    /\ UNCHANGED <<memory, substring, outcome, Others>>

(* The first thing that an instruction that pops its operands does. *)
PopOperands ==
    /\ at = "batch" /\ finalizer = 0 /\ ip \in DOMAIN code /\ work = NoWork
    /\ Instruction.op \in {"convert", "cpblk", "memmove", "fill"}
    /\ Len(stack) >= Takes(Instruction)
    /\ stack' = Drop(stack, Takes(Instruction))
    /\ work' = [op |-> Instruction.op, done |-> 0]
    /\ UNCHANGED <<at, ip, memory, substring, engine, late, outcome, Others>>

(* One turn, of n cells, of the loop of an instruction that has popped its
   operands. *)
PoppedTurn(n) ==
    LET i == Instruction
        done == work.done + n
    IN  /\ \/ /\ done < i.size
              /\ Counted /\ UNCHANGED stack
              /\ IF stop THEN Yield
                         ELSE work' = [work EXCEPT !.done = done] /\ UNCHANGED <<at, ip, engine>>
           \/ /\ done = i.size
              /\ stack' = Completed(stack, i, ip) /\ ip' = ip + 1 /\ work' = NoWork
              /\ ContinueBatch
        /\ UNCHANGED <<substring, outcome, Others>>

Popped(op) == at = "batch" /\ finalizer = 0 /\ work.op = op

(* Mutant: only whole chunks are moved, and the rest is never reached. *)
NextWholeChunk(done) == IF Instruction.size - done < Chunk THEN 0 ELSE Chunk

(* What the next turn of a loop in chunks takes. *)
NextChunk(done) == Smaller(Chunk, Instruction.size - done)

(* The String constructors and GetHashCodeOrdinalIgnoreCase. *)
Convert ==
    /\ Popped("convert")
    /\ PoppedTurn(NextChunk(work.done))
    /\ UNCHANGED memory

(* cpblk goes forward whatever the ranges are. *)
Cpblk ==
    LET n == NextChunk(work.done)
    IN  /\ Popped("cpblk")
        /\ memory' = CopyCells(memory, Instruction, work.done, n)
        /\ PoppedTurn(n)

(* Buffer.Memmove, through chunked_copy_with_safe_point. *)
Memmove ==
    LET i == Instruction
        n == IF i.src = i.dst THEN i.size ELSE NextChunk(work.done)
        start == IF Backward(i) THEN i.size - work.done - n ELSE work.done
    IN  /\ Popped("memmove")
        /\ memory' = CopyCells(memory, i, start, n)
        /\ PoppedTurn(n)

(* initblk, SpanHelpers.Fill and ClearWithoutReferences. *)
Fill ==
    LET n == NextChunk(work.done)
    IN  /\ Popped("fill")
        /\ memory' = CopyCells(memory, Instruction, work.done, n)
        /\ PoppedTurn(n)

(* One turn of the loop of an instruction that has only peeked at its operands,
   and drops them at the end; a comparison ends at the first difference. *)
PeekedTurn ==
    LET i == Instruction
        before == IF work = NoWork THEN 0 ELSE work.done
        done == before + NextChunk(before)
    IN  /\ \/ /\ done < i.size /\ stop
              /\ Counted /\ Yield /\ UNCHANGED stack
           \/ /\ done < i.size /\ ~stop
              /\ Counted
              /\ work' = [op |-> i.op, done |-> done]
              /\ UNCHANGED <<at, ip, stack, engine>>
           \/ /\ done = i.size \/ i.op = "equals"
              /\ stack' = Completed(Drop(stack, Takes(i)), i, ip) /\ ip' = ip + 1 /\ work' = NoWork
              /\ ContinueBatch
        /\ UNCHANGED <<memory, substring, outcome, Others>>

(* String.Equals, IsNullOrWhiteSpace, Concat and SequenceEqual. *)
Equals == Ready("equals") /\ PeekedTurn

-----------------------------------------------------------------------------
(* The retained copy of a long Substring, in a build without multithreading *)

(* advance_native_substring, on a copy whose caller is as it was. *)
AdvanceNativeSubstring(s, copy) ==
    LET done == copy.done + Smaller(Chunk, Instruction.size - copy.done)
    IN  IF done < Instruction.size
          THEN substring' = [copy EXCEPT !.done = done] /\ stack' = s /\ ip' = ip
          ELSE substring' = NoWork /\ stack' = Append(s, ip) /\ ip' = ip + 1

(* Substring where nothing is retained: in a build with multithreading, for a short
   string, or when the call is not a direct one (substring_eligible). *)
Substring == Ready("substring") /\ PeekedTurn

(* offer_substring_continuation consumes the operands and makes the first turn. *)
OfferSubstringContinuation ==
    /\ Ready("substring") /\ work = NoWork /\ ~mt /\ Instruction.size > Chunk
    /\ LET s == Drop(stack, 1)
       IN  AdvanceNativeSubstring(s, [op |-> "substring", source |-> stack[Len(stack)], done |-> 0,
                                      ip |-> ip, height |-> Len(s), frames |-> 1])
    /\ at' = "top" /\ Counted
    /\ UNCHANGED <<memory, work, engine, outcome, Others>>

(* resume_native_substring, before any instruction. *)
ResumeNativeSubstring ==
    /\ at = "engine" /\ substring # NoWork
    /\ IF /\ substring.frames = (IF finalizer > 0 THEN 2 ELSE 1)
          /\ substring.ip = ip /\ substring.height = Len(stack)
         THEN /\ AdvanceNativeSubstring(stack, substring)
              /\ at' = "top" /\ UNCHANGED <<work, outcome>>
         ELSE Done("error") /\ UNCHANGED <<ip, stack>>
    /\ Counted
    /\ UNCHANGED <<memory, engine, Others>>

-----------------------------------------------------------------------------
(* Instructions that wait for other threads, and those that end a batch *)

(* Thread.Join returns Yield until the other thread has ended. *)
Join ==
    /\ Ready("join")
    /\ IF others
         THEN stack' = Drop(stack, 1) /\ ip' = ip + 1 /\ ContinueBatch /\ UNCHANGED work
         ELSE Yield /\ UNCHANGED <<stack, late>>
    /\ UNCHANGED <<memory, substring, outcome, Others>>

(* initialize_static_storage before the operand is popped: wait_for_init comes back
   when the constructor is done or the world stops, and yield_and_retry then
   restores the instruction pointer and cuts the stack to its height. *)
Stsfld ==
    /\ Ready("stsfld") /\ (others \/ stop)
    /\ IF others
         THEN stack' = Drop(stack, 1) /\ ip' = ip + 1 /\ ContinueBatch /\ UNCHANGED work
         ELSE Yield /\ UNCHANGED <<stack, late>>
    /\ UNCHANGED <<memory, substring, outcome, Others>>

(* GC.Collect moves on and then ends the batch. *)
GCCollect ==
    /\ Ready("collect")
    /\ ip' = ip + 1 /\ at' = "top" /\ Counted
    /\ UNCHANGED <<stack, memory, work, substring, engine, outcome, Others>>

(* return_frame pops the frame of the program. *)
RetInstruction ==
    /\ Ready("ret")
    /\ stack' = Result(stack) /\ ip' = Returned
    /\ Counted /\ ReturnFromEntry
    /\ UNCHANGED <<memory, engine, Others>>

(* The finalizer's own instructions, then its return: the instruction pointer
   of the frame below stays.  Without a frame below, the run may end here; the
   engine is never entered with no frame at all. *)
FinalizerStep ==
    /\ at = "batch" /\ finalizer > 0
    /\ finalizer' = finalizer - 1
    /\ IF finalizer' = 0 /\ ip = Returned
         THEN Counted /\ ReturnFromEntry /\ UNCHANGED engine
         ELSE ContinueBatch /\ UNCHANGED <<outcome, substring, work>>
    /\ UNCHANGED <<program, ip, stack, memory, finalization, world>>

-----------------------------------------------------------------------------
(* The rest of the runtime *)

RequestAbort ==
    /\ ~abort /\ at # "done" /\ abort' = TRUE
    /\ UNCHANGED <<program, at, execution, engine, finalizer, finalization, stop, stops, others, late, outcome>>

RaiseStop ==
    /\ mt /\ ~stop /\ stops < MaxStops /\ at # "done"
    /\ stop' = TRUE /\ stops' = stops + 1 /\ late' = 0
    /\ UNCHANGED <<program, at, execution, engine, finalizer, finalization, abort, others, outcome>>

OtherThreadEnds ==
    /\ ~others /\ others' = TRUE
    /\ UNCHANGED <<program, at, execution, engine, finalizer, finalization, stop, abort, stops, late, outcome>>

Execute ==
    \/ Ldstr \/ NewArr \/ PopOperands \/ Convert \/ Cpblk \/ Memmove \/ Fill
    \/ Equals \/ Substring \/ OfferSubstringContinuation \/ ResumeNativeSubstring
    \/ Join \/ Stsfld \/ GCCollect \/ RetInstruction \/ FinalizerStep

Loop == Abort \/ CollectionCheck \/ SafePoint \/ Resume \/ ProcessPendingFinalizers \/ EnterEngine

CodeNext == Loop \/ Execute \/ RequestAbort \/ RaiseStop \/ OtherThreadEnds
CodeSpec == CodeInit /\ [][CodeNext]_codeVars

(* The executor's thread goes on, a stopped world is resumed, and the threads
   that this one waits for come to their ends. *)
CodeFairness == WF_codeVars(Loop \/ Execute) /\ WF_codeVars(OtherThreadEnds)

-----------------------------------------------------------------------------
(* Properties *)

CodeTypeOK ==
    /\ mt \in BOOLEAN /\ Len(code) > 0
    /\ at \in {"top", "safe point", "finalizers", "engine", "batch", "done"}
    /\ ip \in 1..Returned /\ stack \in Seq(Nat)
    /\ memory \in [0..(Cells - 1) -> 0..Cells]
    /\ executed \in 0..Batch /\ sincePoll \in 0..PollInterval
    /\ finalizer \in 0..2 /\ due \in 0..MaxFinalizers
    /\ {stop, abort, others} \subseteq BOOLEAN /\ stops \in 0..MaxStops /\ late \in Nat
    /\ swept \subseteq Nat
    /\ outcome \in {"running", "exited", "aborted", "error"}

(* The stack and the memory after the first k instructions when nothing ever
   interrupts them and a copy is one move. *)
Uninterrupted[k \in 0..Len(code)] ==
    IF k = 0
      THEN [stack |-> <<>>, memory |-> [c \in 0..(Cells - 1) |-> c]]
      ELSE LET before == Uninterrupted[k - 1]
               i == code[k]
           IN  [stack  |-> IF i.op = "ret"
                             THEN Result(before.stack)
                             ELSE Completed(Drop(before.stack, Takes(i)), i, k),
                memory |-> IF Copies(i) THEN CopyCells(before.memory, i, 0, i.size) ELSE before.memory]

(* Whenever no instruction is in the middle of its work, in particular wherever a
   collection or a finalizer may come in between, the stack and the memory are
   those of an execution that nothing interrupts: an instruction that has given
   up finds its operands again, and its result appears once. *)
ResumesExactly ==
    work = NoWork /\ outcome \in {"running", "exited"} =>
        LET ref == Uninterrupted[ip - 1]
        IN  /\ memory = ref.memory
            /\ stack = IF substring = NoWork THEN ref.stack ELSE Drop(ref.stack, 1)

(* Nothing that the program still holds is swept, the source of a retained copy
   included. *)
OperandsLive ==
    /\ \A k \in 1..Len(stack) : stack[k] \notin swept
    /\ substring # NoWork => substring.source \notin swept

(* The run ends without an error, and reports an exit only after the program has
   returned and every finalizer that is due has run. *)
EndsInOrder ==
    /\ outcome # "error"
    /\ outcome = "exited" => ip = Returned /\ due = 0 /\ finalizer = 0
    /\ at = "done" => substring = NoWork

(* Stops of the world, collections, finalizers and aborts do not change what a
   program computes. *)
InterruptionsUnseen == CodeTypeOK /\ ResumesExactly /\ OperandsLive /\ EndsInOrder

(* A thread runs no more than PollInterval instructions or chunks from the moment
   the world is to stop to its safe point, however long an instruction takes
   altogether. *)
StopSeenInTime == late <= PollInterval

(* A stop is seen in time; and although instructions start again when they are
   interrupted, the program comes to its end. *)
Responsive == []StopSeenInTime /\ (stop ~> ~stop \/ at = "done") /\ <>(at = "done")
=============================================================================
