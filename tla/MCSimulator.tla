----------------------------- MODULE MCSimulator ------------------------------
(***************************************************************************)
(* Small instances of Simulator: words of 4 bits, three memory words,      *)
(* registers r0 and pc, and a handful of commands and memory contents.     *)
(***************************************************************************)
EXTENDS Simulator, Sequences

\* Word 0 does nothing, 1 sets r0, 2 branches to 4, 3 changes cpsr, 4 stores
\* r0 over address 4, 5 branches outside memory, 6 exits, 7 is the breakpoint;
\* 8 branches to 8, 9 to a misaligned address, 10 is not implemented, the rest
\* do nothing.
I(b, o, r, v) == [brk |-> b, op |-> o, reg |-> r, val |-> v]

MCDecode ==
    [w \in 0 .. 15 |->
        CASE w = 1 -> I(FALSE, "set", 0, 5)
          [] w = 2 -> I(FALSE, "set", 1, 4)
          [] w = 3 -> I(FALSE, "flags", 0, 9)
          [] w = 4 -> I(FALSE, "store", 0, 4)
          [] w = 5 -> I(FALSE, "set", 1, 12)
          [] w = 6 -> I(FALSE, "exit", 0, 0)
          [] w = 7 -> I(TRUE, "none", 0, 0)
          [] w = 8 -> I(FALSE, "set", 1, 8)
          [] w = 9 -> I(FALSE, "set", 1, 7)
          [] w = 10 -> I(FALSE, "undef", 0, 0)
          [] OTHER -> I(FALSE, "none", 0, 0)]

Words(a, b, c) == [x \in Cell |-> IF x = 0 THEN a ELSE IF x = 4 THEN b ELSE c]

\* Programs that reach a breakpoint, leave memory, exit or patch themselves,
\* loop for ever through a reset or on a branch, run an unknown instruction.
MCMemories == {Words(1, 7, 0), Words(5, 7, 3), Words(4, 3, 6), Words(9, 7, 7),
               Words(2, 2, 8), Words(10, 7, 0)}

CmdOnly(c) == [cmd |-> c]
ReadMem(a, n) == [cmd |-> "m", addr |-> a, len |-> n]
WriteMem(a, w) == [cmd |-> "X", addr |-> a, len |-> Len(w),
                   words |-> [i \in 0 .. Len(w) - 1 |-> w[i + 1]]]

MCRequests ==
    {CmdOnly(c) : c \in {"c", "k", "q", "g", "?", "s", "other"}}
    \cup {ReadMem(4, 3), WriteMem(0, <<7>>), WriteMem(8, <<1, 2>>),
          WriteMem(12, <<1>>),
          [cmd |-> "p", reg |-> 1], [cmd |-> "p", reg |-> 25],
          [cmd |-> "P", reg |-> 1, value |-> 6], [cmd |-> "P", reg |-> 2, value |-> 0],
          [cmd |-> "G", image |-> [i \in 0 .. 2 |-> <<3, 4, 1>>[i + 1]]],
          [cmd |-> "H", known |-> TRUE], [cmd |-> "H", known |-> FALSE]}

\* Commands that loop, execute, shut down or write, where interrupts must wait.
LivenessRequests ==
    {CmdOnly(c) : c \in {"c", "s", "k", "g", "?"}}
    \cup {WriteMem(0, <<7>>), WriteMem(8, <<1, 2>>), [cmd |-> "p", reg |-> 1]}

\* Registers asked for alone: one gdb sends as "d", the pc, and cpsr, whose
\* number is 25.
NumberRequests == {[cmd |-> "p", reg |-> n] : n \in {13, 15, 25}}

\* Reset and an interrupt that is ignored.
MCIrqBytes == {1, 6}
=============================================================================
