------------------------------ MODULE ArmMachine ------------------------------
(***************************************************************************)
(* The simulated processor as the debugger and the interrupt port see it:  *)
(* registers, status word and memory, and what one instruction, one reset  *)
(* and one debugger command do to them.  No variables: the threads of      *)
(* Simulator and the abstract AtomicMachine both use these operators.      *)
(*                                                                         *)
(* Memory is seen one aligned word at a time.  A word that is executed is  *)
(* an instruction; Decode gives what the rest of the system can tell about *)
(* it: whether it carries gdb's breakpoint pattern and what it changes.    *)
(***************************************************************************)
EXTENDS Integers

CONSTANTS
    WordMod,    \* 2^32: registers and addresses are uint32_t
    MemSize,    \* 0x20000 bytes, arm_simulator.c:204
    PC,         \* 15: the number of the program counter, the last register
    ResetCpsr,  \* 0x1d3, arm_exception.c:37
    Decode,     \* [Word -> Instr]
    Requests    \* the commands the debugger may send

Word == 0 .. WordMod - 1

RegNo == 0 .. PC

\* The addresses memory_read_word and memory_write_word accept.
Cell == { a \in 0 .. MemSize - 1 : a % 4 = 0 }

\* What an executed word does: "set" writes a register (a branch when it is
\* the pc), "flags" writes cpsr, "store" writes a register to memory, "none"
\* is an instruction whose condition failed, "undef" one whose handler returns
\* UNDEFINED_INSTRUCTION, "exit" is swi 0x123456.  brk: the word matches the
\* breakpoint pattern.
Instr == [brk : BOOLEAN, op : {"set", "flags", "store", "none", "undef", "exit"},
          reg : RegNo, val : Word]

ASSUME MachineAssumption ==
    /\ WordMod \in Nat /\ MemSize \in Nat /\ PC \in Nat
    /\ MemSize % 4 = 0 /\ WordMod % 4 = 0
    /\ 4 <= MemSize /\ MemSize < WordMod
    /\ ResetCpsr \in Word
    /\ Decode \in [Word -> Instr]

\* One letter per entry of the handler table; "other" has no handler.  gdb
\* reads and writes memory in whole words here.  known: the thread a 'H'
\* selects is -1 or 0 and its type is c or g.
Commands == {"c", "k", "q", "g", "m", "p", "?", "H", "s", "G", "X", "P", "other"}

ASSUME RequestAssumption ==
    \A r \in Requests :
        /\ r.cmd \in Commands
        /\ r.cmd \in {"m", "X"} => /\ r.addr \in Word /\ r.addr % 4 = 0
                                   /\ r.len \in Nat
        /\ r.cmd = "X" => r.words \in [0 .. r.len - 1 -> Word]
        /\ r.cmd = "G" => r.image \in [0 .. PC + 1 -> Word]
        /\ r.cmd = "P" => r.reg \in Nat /\ r.value \in Word
        /\ r.cmd = "p" => r.reg \in 0 .. 255
        /\ r.cmd = "H" => r.known \in BOOLEAN

\* Exceptions, arm_constants.h
NONE == 0
RESET == 1
UNDEFINED_INSTRUCTION == 2
PREFETCH_ABORT == 4
DATA_ABORT == 5
Exceptions == 0 .. 7

-----------------------------------------------------------------------------
ClearBit1(v) == v - 2 * ((v \div 2) % 2)

\* The pc reads four bytes ahead of the stored value, with bit 1 cleared.
arm_read_register(reg, r) ==
    IF r = PC THEN ClearBit1((reg[PC] + 4) % WordMod) ELSE reg[r]

\* The address the next fetch uses: the pc as read, minus four.
FetchAddress(reg) == (arm_read_register(reg, PC) - 4) % WordMod

\* Mutant: the pc does not wrap.
FetchedRegNoWrap(reg) == [reg EXCEPT ![PC] = FetchAddress(reg) + 4]

\* The fetch writes the pc whether or not the memory access succeeds.
FetchedReg(reg) == [reg EXCEPT ![PC] = (FetchAddress(reg) + 4) % WordMod]

ExecReg(i, reg) ==
    IF i.op = "set" THEN [reg EXCEPT ![i.reg] = i.val] ELSE reg

ExecCpsr(i, cpsr) == IF i.op = "flags" THEN i.val ELSE cpsr

\* A store outside memory, or not aligned, is refused and changes nothing.
ExecMem(i, reg, mem) ==
    IF i.op = "store" /\ i.val \in Cell
    THEN [mem EXCEPT ![i.val] = arm_read_register(reg, i.reg)]
    ELSE mem

\* arm_exception(RESET) on the registers; it also sets cpsr to ResetCpsr.
ResetReg(reg) == [reg EXCEPT ![PC] = 0]

-----------------------------------------------------------------------------
(***************************************************************************)
(* Replies.  Data is a function from positions to words.                   *)
(***************************************************************************)
NoData == [j \in {} |-> 0]

Put(data, n, v) == [j \in 0 .. n |-> IF j = n THEN v ELSE data[j]]

Silence == [kind |-> "none", data |-> NoData]
OkReply == [kind |-> "OK", data |-> NoData]
TextReply == [kind |-> "text", data |-> NoData]
ErrorReply(n) == [kind |-> "error", data |-> [j \in 0 .. 0 |-> n]]

StopSignal(exc) ==
    CASE exc = UNDEFINED_INSTRUCTION -> 4
      [] exc \in {PREFETCH_ABORT, DATA_ABORT} -> 10
      [] OTHER -> 5

StopReply(exc) == [kind |-> "stop", data |-> [j \in 0 .. 0 |-> StopSignal(exc)]]

\* What gdb is shown of a register: the pc is the next address to fetch.
Shown(reg, r) ==
    IF r = PC THEN (arm_read_register(reg, PC) - 4) % WordMod
              ELSE arm_read_register(reg, r)

\* Position i of the answer to 'g': r0 .. pc, then cpsr.
GeneralRegister(reg, cpsr, i) == IF i <= PC THEN Shown(reg, i) ELSE cpsr

GeneralRegisters(reg, cpsr) ==
    [i \in 0 .. PC + 1 |-> GeneralRegister(reg, cpsr, i)]

\* How many of len words from addr lie inside memory.
Available(addr, len) ==
    LET room == (MemSize - addr) \div 4
    IN  IF addr >= MemSize THEN 0 ELSE IF len < room THEN len ELSE room

MemoryWords(mem, addr, len) ==
    [i \in 0 .. Available(addr, len) - 1 |-> mem[addr + 4 * i]]

\* atoi applied to the hexadecimal digits of n: reading stops at a digit that
\* is not decimal.
AtoiOfHex(n) ==
    LET hi == n \div 16
        lo == n % 16
    IN  IF hi = 0 THEN (IF lo < 10 THEN lo ELSE 0)
        ELSE IF hi >= 10 THEN 0
        ELSE IF lo < 10 THEN 10 * hi + lo ELSE hi

\* Memory once words from..len-1 of a binary write are stored too.
WriteRest(mem, addr, len, words, from) ==
    [c \in Cell |->
        IF addr + 4 * from <= c /\ c < addr + 4 * len
        THEN words[(c - addr) \div 4] ELSE mem[c]]

\* Registers once positions from..PC of a 'G' image are stored too.
WriteRestReg(reg, image, from) ==
    [r \in RegNo |-> IF r >= from THEN image[r] ELSE reg[r]]

WriteFits(addr, len) == addr < MemSize /\ addr + 4 * len <= MemSize
=============================================================================
