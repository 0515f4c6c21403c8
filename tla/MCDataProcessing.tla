--------------------------- MODULE MCDataProcessing ---------------------------
(***************************************************************************)
(* Words of three bits, two registers and the pc; every operation, every   *)
(* condition, every kind of operand.                                       *)
(***************************************************************************)
EXTENDS DataProcessing

Ins(cond, op, s, rd, o) ==
    [cond |-> cond, op |-> op, s |-> s, rn |-> 0, rd |-> rd, operand |-> o]

R1 == [kind |-> "shift", rm |-> 1, type |-> 0, count |-> 0]

Operands ==
    [kind : {"immediate"}, imm : 0 .. 2 ^ ByteBits - 1, rot : {0, 1}]
    \cup [kind : {"shift"}, rm : {1}, type : 0 .. 3, count : {0, 1, Bits - 1}]
    \cup [kind : {"register"}, rm : {1}, type : {0, 2}, rs : {0, PC}]
    \cup [kind : {"other"}]

MCInstructions ==
    {Ins("AL", op, s, 0, R1) : op \in Opcodes, s \in BOOLEAN}
    \cup {Ins(c, "MOV", FALSE, 1, R1) : c \in Conditions}
    \cup {Ins("AL", "MOV", TRUE, 0, o) : o \in Operands}
    \cup {Ins("AL", op, TRUE, PC, R1) : op \in {"MOV", "ADD"}}
=============================================================================
