---------------------------- MODULE AtomicMachine -----------------------------
(***************************************************************************)
(* What the simulator promises to the debugger and to the interrupt port:  *)
(* every instruction, every reset and every debugger command happens at    *)
(* one instant, and the answer to a command describes that instant.        *)
(***************************************************************************)
EXTENDS ArmMachine

CONSTANT Memories   \* the contents memory may have when the simulator starts

VARIABLES
    reg, cpsr, mem, \* the processor and its memory
    exc,            \* result of the last instruction, gdb's target_exception
    reply           \* the last answer decided for the debugger

vars == <<reg, cpsr, mem, exc, reply>>

Init ==
    /\ reg = [r \in RegNo |-> 0]
    /\ cpsr = ResetCpsr
    /\ mem \in Memories
    /\ exc = NONE
    /\ reply = Silence

\* A reset interrupt.  The other interrupts are ignored.
Reset ==
    /\ reg' = ResetReg(reg)
    /\ cpsr' = ResetCpsr
    /\ UNCHANGED <<mem, exc, reply>>

AtBreakpoint ==
    FetchAddress(reg) \in Cell /\ Decode[mem[FetchAddress(reg)]].brk

\* One instruction, fetched and executed; a fetch outside memory resets.
Instruction ==
    LET a == FetchAddress(reg)
        i == Decode[mem[a]]
        r == FetchedReg(reg)
    IN  \/ /\ a \in Cell
           /\ reg' = ExecReg(i, r)
           /\ cpsr' = ExecCpsr(i, cpsr)
           /\ mem' = ExecMem(i, r, mem)
           /\ exc' = IF i.op = "exit" THEN exc ELSE NONE
        \/ /\ a \notin Cell
           /\ reg' = ResetReg(r)
           /\ cpsr' = ResetCpsr
           /\ mem' = mem
           /\ exc' = RESET

Exits ==
    FetchAddress(reg) \in Cell /\ Decode[mem[FetchAddress(reg)]].op = "exit"

\* An instruction of 'c': never the breakpoint itself.
ContinueOne == ~AtBreakpoint /\ Instruction /\ UNCHANGED reply

\* 's': one instruction and its stop reason, unless the program ended.
SingleStep ==
    /\ Instruction
    /\ reply' = IF Exits THEN reply ELSE StopReply(exc')

\* An answer that changes nothing: the stop reason ('c' ending, '?'), the
\* registers, memory, fixed texts.
Observe ==
    /\ \/ reply' = StopReply(exc)
       \/ reply' = [kind |-> "registers", data |-> GeneralRegisters(reg, cpsr)]
       \/ \E r \in RegNo :
            reply' = [kind |-> "register", data |-> [j \in 0 .. 0 |-> Shown(reg, r)]]
       \/ \E r \in Requests :
            /\ r.cmd = "m"
            /\ reply' = [kind |-> "memory",
                         data |-> MemoryWords(mem, r.addr, r.len)]
       \/ reply' \in {OkReply, TextReply, ErrorReply(1)}
    /\ UNCHANGED <<reg, cpsr, mem, exc>>

WriteRegisters(r) ==
    /\ r.cmd = "G"
    /\ reg' = WriteRestReg(reg, r.image, 0)
    /\ cpsr' = r.image[PC + 1]
    /\ reply' = OkReply
    /\ UNCHANGED <<mem, exc>>

WriteRegister(r) ==
    /\ r.cmd = "P" /\ r.reg \in RegNo
    /\ reg' = [reg EXCEPT ![r.reg] = r.value]
    /\ reply' = OkReply
    /\ UNCHANGED <<cpsr, mem, exc>>

\* A write that leaves memory stores what fits and is answered by E02.
WriteMemory(r) ==
    /\ r.cmd = "X"
    /\ mem' = WriteRest(mem, r.addr, r.len, r.words, 0)
    /\ reply' = IF WriteFits(r.addr, r.len) THEN OkReply ELSE ErrorReply(2)
    /\ UNCHANGED <<reg, cpsr, exc>>

Next ==
    \/ Reset \/ ContinueOne \/ SingleStep \/ Observe
    \/ \E r \in Requests :
        WriteRegisters(r) \/ WriteRegister(r) \/ WriteMemory(r)

Spec == Init /\ [][Next]_vars
=============================================================================
