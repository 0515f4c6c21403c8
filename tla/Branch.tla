-------------------------------- MODULE Branch --------------------------------
(***************************************************************************)
(* arm_branch_other.c together with the data processing instructions,      *)
(* running Examples/example1.s: a loop that calls a function backwards,    *)
(* returns from it through the link register and branches back while the   *)
(* counter is not zero.                                                    *)
(*                                                                         *)
(* The layout of the instruction word is kept, cond(4) 101 L offset, with  *)
(* an offset of OffsetBits bits, because the handler computes with it.     *)
(***************************************************************************)
EXTENDS DataProcessing

CONSTANTS
    OffsetBits,  \* 24
    Counts       \* the values the counter is started with, 5 in the example

ASSUME BranchAssumption ==
    /\ OffsetBits \in Nat /\ OffsetBits > 3 /\ Bits = OffsetBits + 8
    /\ Counts \subseteq 0 .. Pow2[ByteBits] - 1

VARIABLES
    count,   \* the immediate of the first instruction
    calls,   \* how often decr was entered
    halted   \* swi 0x123456 was executed

vars == <<m, count, calls, halted>>

LR == PC - 1

CondCode == [EQ |-> 0, NE |-> 1, CS_HS |-> 2, CC_LO |-> 3, MI |-> 4, PL |-> 5,
             VS |-> 6, VC |-> 7, HI |-> 8, LS |-> 9, GE |-> 10, LT |-> 11,
             GT |-> 12, LE |-> 13, AL |-> 14, NV |-> 15]

Offset(o) == o % Pow2[OffsetBits]

\* The instruction word of a branch.
Encoded(i) ==
    (CondCode[i.cond] * 16 + 10 + Bit(i.link)) * Pow2[OffsetBits] + Offset(i.offset)

\* Mutant: the address of the branch itself is linked.
arm_branch_links_itself(k, i) ==
    LET pc == arm_read_register(k, PC)
        linked == IF i.link THEN arm_write_register(k, LR, Wrap(pc - 8)) ELSE k
    IN  IF ConditionPassed(k, i.cond)
        THEN arm_write_register(linked, PC, Wrap(pc + 4 * i.offset)) ELSE k

\* Mutant: the condition is not tested.
arm_branch_always(k, i) ==
    LET pc == arm_read_register(k, PC)
        linked == IF i.link THEN arm_write_register(k, LR, Wrap(pc - 4)) ELSE k
    IN  arm_write_register(linked, PC, Wrap(pc + 4 * i.offset))

\* A negative offset is extended; ~0 >> 9 is all ones, so a positive one keeps
\* the opcode above it.
arm_branch(k, i) ==
    LET ins == Encoded(i)
        pc == arm_read_register(k, PC)
        linked == IF i.link THEN arm_write_register(k, LR, Wrap(pc - 4)) ELSE k
        val == IF get_bit(ins, OffsetBits - 1) = 1
               THEN ins | Wrap(MaxWord * Pow2[OffsetBits - 1]) ELSE ins & MaxWord
    IN  IF ConditionPassed(k, i.cond)
        THEN arm_write_register(linked, PC, Wrap(pc + Wrap(4 * val))) ELSE k

-----------------------------------------------------------------------------
Immediate(v) == [kind |-> "immediate", imm |-> v, rot |-> 0]

Data(op, s, rd, o) ==
    [cond |-> "AL", op |-> op, s |-> s, rn |-> 0, rd |-> rd, operand |-> o]

MovPcLr ==
    Data("MOV", FALSE, PC, [kind |-> "shift", rm |-> LR, type |-> 0, count |-> 0])

FetchAddress == Wrap(arm_read_register(m, PC) - 4)

\* Calls are counted up to one more than a loop can make.
Counted(n) == IF n > Pow2[Bits] THEN Pow2[Bits] + 1 ELSE n

\* decr: subs, mov pc, lr; main: mov; loop: bl decr, bne loop; end: swi.
Executes(a, i, k) ==
    /\ FetchAddress = a
    /\ m' \in arm_data_processing_shift(arm_fetch(m), i)
    /\ calls' = Counted(calls + k)
    /\ UNCHANGED <<count, halted>>

Branches(a, cond, link, target) ==
    /\ FetchAddress = a
    /\ m' = arm_branch(arm_fetch(m), [cond |-> cond, link |-> link,
                                      offset |-> (target - a - 8) \div 4])
    /\ UNCHANGED <<count, calls, halted>>

swi ==
    /\ FetchAddress = 20
    /\ m' = arm_fetch(m)
    /\ halted' = TRUE
    /\ UNCHANGED <<count, calls>>

Step ==
    /\ ~halted
    /\ \/ Executes(0, Data("SUB", TRUE, 0, Immediate(1)), 1)
       \/ Executes(4, MovPcLr, 0)
       \/ Executes(8, Data("MOV", FALSE, 0, Immediate(count)), 0)
       \/ Branches(12, "AL", TRUE, 0)
       \/ Branches(16, "NE", FALSE, 12)
       \/ swi

\* The debugger has loaded the program and set the pc to main.
Start ==
    /\ m = [reg |-> [r \in RegNo |-> IF r = PC THEN 8 ELSE 0],
            N |-> 0, Z |-> 0, C |-> 0, V |-> 0]
    /\ count \in Counts /\ calls = 0 /\ halted = FALSE

Finished == halted /\ UNCHANGED vars

\* A continue command executes instructions as long as there is one.
Program == Start /\ [][Step \/ Finished]_vars /\ WF_vars(Step)

-----------------------------------------------------------------------------
\* The loop calls decr as often as its counter says, once round the word when
\* it starts at zero, and leaves zero in the counter (example1.s with
\* arm_branch_other.c:29-38).
LoopCount ==
    halted => /\ calls = IF count = 0 THEN Pow2[Bits] ELSE count
              /\ m.reg[0] = 0

\* The loop ends.
LoopEnds == <>halted

\* From anywhere, a backward call enters its target, and the function's
\* MOV pc, lr returns to the instruction after the call
\* (arm_branch_other.c:31-35, arm_core.c:68-81, 125-139).
CallReturns ==
    \A o \in -(Pow2[OffsetBits - 1]) .. -1 :
        LET called == arm_branch(arm_fetch(m), [cond |-> "AL", link |-> TRUE,
                                                offset |-> o])
            a == FetchAddress
            Fetches(k) == Wrap(arm_read_register(k, PC) - 4)
        IN  /\ Fetches(called) = Wrap(a + 8 + 4 * o)
            /\ \A k \in arm_data_processing_shift(arm_fetch(called), MovPcLr) :
                    Fetches(k) = Wrap(a + 4)

\* B and BL are "tested arm operation[s]" (README.md:3-4): a forward branch
\* goes to its target.
ForwardBranch ==
    \A o \in 0 .. Pow2[OffsetBits - 1] - 1 :
        LET k == arm_branch(arm_fetch(m), [cond |-> "AL", link |-> FALSE,
                                           offset |-> o])
        IN  Wrap(arm_read_register(k, PC) - 4) = Wrap(FetchAddress + 8 + 4 * o)
=============================================================================
