---------------------------- MODULE MCInterpreter ----------------------------
(* Instances of Interpreter for TLC: all the programs of three instructions
   before the ret in which none lacks an operand. *)
EXTENDS Interpreter, TLC

Simple(op) == [op |-> op]
Sized(op, size) == [op |-> op, size |-> size]
Copy(op, src, dst, size) == [op |-> op, src |-> src, dst |-> dst, size |-> size]

(* What both builds can be asked to do. *)
Common == {Simple("ldstr"), Simple("collect"), Sized("newarr", 1), Sized("equals", 5)}

Single == Common \cup
    {Sized("substring", 5), Sized("convert", 3), Sized("newarr", 3), Copy("cpblk", 2, 0, 5),
     Copy("memmove", 0, 2, 5), Copy("memmove", 2, 0, 5), Copy("fill", 1, 1, 3)}

Multi == Common \cup {Sized("substring", 3), Copy("memmove", 0, 1, 2), Simple("join"), Simple("stsfld")}

(* With instructions that pop their operands before they look at the flag. *)
Large == Common \cup {Sized("newarr", 3)}

(* Enough operands for each instruction. *)
Valid(c) ==
    LET height[k \in 0..Len(c)] ==
            IF k = 0 THEN 0
            ELSE IF height[k - 1] < Takes(c[k]) THEN -10
            ELSE height[k - 1] - Takes(c[k]) + (IF Makes(c[k]) THEN 1 ELSE 0)
    IN  \A k \in 1..Len(c) : height[k] >= 0

Codes(alphabet, n) == {c \o <<Simple("ret")>> : c \in {c \in [1..n -> alphabet] : Valid(c)}}

AllPrograms ==
    [mt : {FALSE}, code : Codes(Single, 3)] \cup [mt : {TRUE}, code : Codes(Multi, 3)]
LargePrograms == [mt : {TRUE}, code : Codes(Large, 3)]
=============================================================================
