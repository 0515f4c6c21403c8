---------------------------- MODULE SimulatorProofs ----------------------------
(***************************************************************************)
(* Safety of the threads, for every word size, memory, register file,      *)
(* program, set of commands and set of interrupts.  The invariants say who *)
(* holds the mutex (LockInv), which command a label belongs to             *)
(* (HandlerInv), what a continue has seen (PeekInv) and where tracing is   *)
(* off (TraceInv); with the types they are inductive.                      *)
(***************************************************************************)
EXTENDS Simulator, TLAPS

\* A uint32_t result is a word.
LEMMA ModWord ==
    ASSUME NEW x \in Int
    PROVE  x % WordMod \in Word
  BY MachineAssumption DEF Word

\* Clearing bit 1 of a word gives a word (arm_core.c:77).
LEMMA ClearBit1Word ==
    ASSUME NEW v \in Word
    PROVE  ClearBit1(v) \in Word
  BY MachineAssumption DEF Word, ClearBit1

\* arm_read_register gives a word, of the pc too.
LEMMA ReadRegisterWord ==
    ASSUME NEW r \in [RegNo -> Word], NEW n \in RegNo
    PROVE  arm_read_register(r, n) \in Word
<1>1. PC \in RegNo
  BY MachineAssumption DEF RegNo
<1>2. r[PC] + 4 \in Int
  BY <1>1 DEF Word
<1>3. ClearBit1((r[PC] + 4) % WordMod) \in Word
  BY <1>2, ModWord, ClearBit1Word
<1> QED
  BY <1>3 DEF arm_read_register

\* The fetch address is a word, and a fetch or a reset leaves words in the
\* registers.
LEMMA FetchTypes ==
    ASSUME NEW r \in [RegNo -> Word]
    PROVE  /\ FetchAddress(r) \in Word
           /\ FetchedReg(r) \in [RegNo -> Word]
           /\ ResetReg(r) \in [RegNo -> Word]
<1>1. PC \in RegNo /\ 0 \in Word
  BY MachineAssumption DEF RegNo, Word
<1>2. arm_read_register(r, PC) \in Word
  BY <1>1, ReadRegisterWord
<1>3. FetchAddress(r) \in Word
  BY <1>2, ModWord DEF FetchAddress, Word
<1>4. (FetchAddress(r) + 4) % WordMod \in Word
  BY <1>3, ModWord DEF Word
<1> QED
  BY <1>1, <1>3, <1>4 DEF FetchedReg, ResetReg

\* What an instruction leaves in registers, cpsr and memory are words.
LEMMA ExecTypes ==
    ASSUME NEW w \in Word, NEW r \in [RegNo -> Word], NEW c \in Word,
           NEW m \in [Cell -> Word]
    PROVE  /\ ExecReg(Decode[w], r) \in [RegNo -> Word]
           /\ ExecCpsr(Decode[w], c) \in Word
           /\ ExecMem(Decode[w], r, m) \in [Cell -> Word]
<1>1. Decode[w] \in Instr
  BY MachineAssumption
<1>2. Decode[w].reg \in RegNo /\ Decode[w].val \in Word
  BY <1>1 DEF Instr
<1>3. arm_read_register(r, Decode[w].reg) \in Word
  BY <1>2, ReadRegisterWord
<1> QED
  BY <1>2, <1>3 DEF ExecReg, ExecCpsr, ExecMem

-----------------------------------------------------------------------------
(***************************************************************************)
(* The inductive invariant                                                 *)
(***************************************************************************)
\* Who holds the mutex: exactly the listener that is inside its critical
\* section.
LockInv ==
    /\ lock = "gdb" <=> gpc \in GdbCritical
    /\ lock = "irq" <=> ipc \in IrqCritical

\* Each label of a handler belongs to the command that handler serves.
HandlerInv ==
    /\ gpc \in GdbCritical \cup {"lock"} => req \in Requests
    /\ gpc = "g" => req.cmd = "g"
    /\ gpc = "m" => req.cmd = "m"
    /\ gpc = "G" => req.cmd = "G"
    /\ gpc = "X" => req.cmd = "X" /\ req.addr < MemSize
    /\ gpc = "P" => req.cmd = "P" /\ req.reg \in RegNo
    /\ gpc = "p" => req.cmd = "p" /\ AtoiOfHex(req.reg) \in RegNo
    /\ gpc \in {"cont", "peek"} => req.cmd = "c"
    /\ gpc \in {"fetch", "exec", "reset_cpsr", "reset_pc"} => req.cmd \in {"c", "s"}
    /\ gpc = "stop" => req.cmd \in {"c", "s", "?"}

\* Between the peek of a continue and its fetch nothing moves.
PeekInv ==
    gpc = "fetch" /\ req.cmd = "c" /\ FetchAddress(reg) \in Cell =>
        ~Decode[mem[FetchAddress(reg)]].brk

\* Tracing is off only between the trace_disable and the trace_enable of the
\* handler that holds the mutex.
TraceInv == ~enabled => gpc \in {"peek", "g", "p", "G", "P"}

\* The inductive invariant.
IInv ==
    /\ TypeOK /\ LockInv /\ HandlerInv /\ PeekInv /\ TraceInv
    /\ BreakpointNotExecuted /\ NoDebuggerAfterFree

\* The simulator starts in the invariant.
LEMMA InitIInv == Init => IInv
<1> SUFFICES ASSUME Init PROVE IInv
  OBVIOUS
<1>1. [r \in RegNo |-> 0] \in [RegNo -> Word] /\ 0 \in Word /\ ResetCpsr \in Word
  BY MachineAssumption DEF Word
<1>2. reg \in [RegNo -> Word]
  BY <1>1, FetchTypes DEF Init
<1>3. mem \in [Cell -> Word]
  BY SimulatorAssumption DEF Init
<1>4. nreq \in 0 .. MaxRequests /\ nirq \in 0 .. MaxIrqs /\ irq \in 0 .. 255
  BY SimulatorAssumption DEF Init
<1>5. TypeOK
  BY <1>1, <1>2, <1>3, <1>4
  DEF Init, TypeOK, GdbLabels, GdbCritical, IrqLabels, IrqCritical, Ended, NONE
<1> QED
  BY <1>5 DEF Init, IInv, LockInv, HandlerInv, PeekInv, TraceInv,
     BreakpointNotExecuted, NoDebuggerAfterFree, GdbCritical, IrqCritical

\* Every step of every thread, and of the environment, preserves the invariant.
LEMMA StepIInv == IInv /\ [Next]_vars => IInv'
<1> SUFFICES ASSUME IInv, [Next]_vars PROVE IInv'
  OBVIOUS
<1> USE MachineAssumption, RequestAssumption, SimulatorAssumption
    DEF IInv, TypeOK, LockInv, HandlerInv, PeekInv, TraceInv,
        BreakpointNotExecuted, NoDebuggerAfterFree, GdbLabels, GdbCritical,
        IrqLabels, IrqCritical, Ended, core, gdbvars, irqvars,
        At, IrqAt, MainAt, Handling, Reply, Inside, NotIrq, NoRequest, NONE, RESET
<1>1. CASE gdb_lock
  BY <1>1 DEF gdb_lock
<1>2. CASE gdb_unlock
  BY <1>2 DEF gdb_unlock
<1>3. CASE cont
  BY <1>3 DEF cont
<1>4. CASE cont_loop
  BY <1>4 DEF cont_loop
<1>5. CASE cont_peek
  <2>1. FetchAddress(reg) \in Cell =>
            Decode[mem[FetchAddress(reg)]].brk \in BOOLEAN
    BY FetchTypes DEF Instr
  <2>2. brk' \in BOOLEAN /\ gpc' \in {"stop", "fetch"}
    BY <1>5, <2>1 DEF cont_peek, PeekedBreakpoint
  <2>3. PeekInv'
    BY <1>5, <2>1 DEF cont_peek, PeekedBreakpoint
  <2> QED
    BY <1>5, <2>2, <2>3 DEF cont_peek
<1>6. CASE step
  BY <1>6 DEF step
<1>7. CASE arm_fetch
  BY <1>7, FetchTypes DEF arm_fetch
<1>8. CASE arm_execute_instruction
  BY <1>8, ExecTypes DEF arm_execute_instruction, AfterStep
<1>9. CASE step_reset_cpsr
  BY <1>9 DEF step_reset_cpsr
<1>10. CASE step_reset_pc
  BY <1>10, FetchTypes DEF step_reset_pc, AfterStep
<1>11. CASE gdb_send_stop_reason
  BY <1>11 DEF gdb_send_stop_reason
<1>12. CASE reason
  BY <1>12 DEF reason
<1>13. CASE kill_request
  BY <1>13 DEF kill_request
<1>14. CASE query
  BY <1>14 DEF query
<1>15. CASE set_thread
  BY <1>15 DEF set_thread
<1>16. CASE read_general_registers
  BY <1>16 DEF read_general_registers
<1>17. CASE read_general_registers_next
  BY <1>17 DEF read_general_registers_next
<1>18. CASE read_general_registers_end
  BY <1>18 DEF read_general_registers_end
<1>19. CASE read_register
  BY <1>19 DEF read_register
<1>20. CASE read_register_end
  BY <1>20 DEF read_register_end
<1>21. CASE read_memory
  BY <1>21 DEF read_memory
<1>22. CASE read_memory_next
  BY <1>22 DEF read_memory_next
<1>23. CASE read_memory_end
  BY <1>23 DEF read_memory_end
<1>24. CASE write_general_registers
  BY <1>24 DEF write_general_registers
<1>25. CASE write_general_registers_next
  <2>1. idx \in RegNo /\ req.image[idx] \in Word
    BY <1>25 DEF write_general_registers_next, RegNo
  <2>2. reg' \in [RegNo -> Word]
    BY <1>25, <2>1 DEF write_general_registers_next
  <2> QED
    BY <1>25, <2>2 DEF write_general_registers_next
<1>26. CASE write_general_registers_end
  <2>1. req.image[PC + 1] \in Word
    BY <1>26 DEF write_general_registers_end
  <2> QED
    BY <1>26, <2>1 DEF write_general_registers_end
<1>27. CASE write_register
  BY <1>27 DEF write_register
<1>28. CASE write_register_end
  BY <1>28 DEF write_register_end
<1>29. CASE write_memory_binary
  BY <1>29 DEF write_memory_binary
<1>30. CASE write_memory_binary_next
  <2>1. req \in Requests /\ req.cmd = "X" /\ idx \in Nat /\ idx < req.len
    BY <1>30 DEF write_memory_binary_next
  <2>2. req.words \in [0 .. req.len - 1 -> Word] /\ req.len \in Nat
    BY <2>1
  <2>3. req.words[idx] \in Word
    BY <2>1, <2>2
  <2>4. mem' \in [Cell -> Word]
    BY <1>30, <2>3 DEF write_memory_binary_next
  <2> QED
    BY <1>30, <2>4 DEF write_memory_binary_next
<1>31. CASE write_memory_binary_end
  BY <1>31 DEF write_memory_binary_end
<1>32. CASE irq_lock
  BY <1>32 DEF irq_lock
<1>33. CASE arm_exception
  BY <1>33 DEF arm_exception
<1>34. CASE arm_exception_pc
  BY <1>34, FetchTypes DEF arm_exception_pc
<1>35. CASE irq_unlock
  BY <1>35 DEF irq_unlock
<1>36. CASE main_join
  BY <1>36 DEF main_join
<1>37. CASE main_destroy
  BY <1>37 DEF main_destroy
<1>38. CASE main_return
  BY <1>38 DEF main_return
<1>39. CASE gdb_accept
  BY <1>39 DEF gdb_accept
<1>40. CASE gdb_eof
  BY <1>40 DEF gdb_eof
<1>41. CASE \E r \in Requests : gdb_packet_analysis(r)
  BY <1>41 DEF gdb_packet_analysis
<1>42. CASE irq_accept
  BY <1>42 DEF irq_accept
<1>43. CASE irq_close
  BY <1>43 DEF irq_close
<1>44. CASE \E b \in IrqBytes : irq_read(b)
  BY <1>44 DEF irq_read
<1>45. CASE Terminated
  BY <1>45 DEF Terminated, vars
<1>46. CASE UNCHANGED vars
  BY <1>46 DEF vars
<1> QED
  BY <1>1, <1>2, <1>3, <1>4, <1>5, <1>6, <1>7, <1>8, <1>9, <1>10, <1>11,
     <1>12, <1>13, <1>14, <1>15, <1>16, <1>17, <1>18, <1>19, <1>20, <1>21,
     <1>22, <1>23, <1>24, <1>25, <1>26, <1>27, <1>28, <1>29, <1>30, <1>31,
     <1>32, <1>33, <1>34, <1>35, <1>36, <1>37, <1>38, <1>39, <1>40, <1>41,
     <1>42, <1>43, <1>44, <1>45, <1>46
  DEF Next, GdbStep, IrqStep, MainStep, Environment

\* The simulator keeps its types, whatever the sizes of words, memory and
\* register file, the program and the sequence of commands.
THEOREM TypeCorrect == Safety => []TypeOK
<1>1. IInv => TypeOK
  BY DEF IInv
<1> QED
  BY <1>1, InitIInv, StepIInv, PTL DEF Safety

\* A continue command never executes a breakpoint: between looking at a word
\* and fetching it the mutex keeps the irq listener out.
THEOREM NeverExecutesBreakpoint == Safety => []BreakpointNotExecuted
<1>1. IInv => BreakpointNotExecuted
  BY DEF IInv
<1> QED
  BY <1>1, InitIInv, StepIInv, PTL DEF Safety

\* Tracing is on whenever the gdb listener is outside a handler and while
\* instructions are executed.
THEOREM TracingIsRestored == Safety => []TracingRestored
<1>1. IInv => TracingRestored
  BY DEF IInv, TypeOK, LockInv, TraceInv, TracingRestored, GdbCritical
<1> QED
  BY <1>1, InitIInv, StepIInv, PTL DEF Safety

\* The processor is freed only after the gdb listener has ended.
THEOREM DebuggerGoneBeforeFree == Safety => []NoDebuggerAfterFree
<1>1. IInv => NoDebuggerAfterFree
  BY DEF IInv
<1> QED
  BY <1>1, InitIInv, StepIInv, PTL DEF Safety

-----------------------------------------------------------------------------
(***************************************************************************)
(* The threads implement AtomicMachine.  To the invariant above the        *)
(* refinement adds what a handler has done so far: DumpInv, an answer      *)
(* under construction agrees with the processor; WriteInv, a write under   *)
(* way is where its index says.  Views tells what AtomicMachine sees at    *)
(* each label, so that a step of a thread compares two of its lines.       *)
(***************************************************************************)
\* An answer under construction holds what the processor holds.
DumpInv ==
    /\ gpc = "g" =>
         /\ idx <= PC + 2
         /\ packet = [i \in 0 .. idx - 1 |-> GeneralRegister(reg, cpsr, i)]
    /\ gpc = "m" =>
         /\ idx <= Available(req.addr, req.len)
         /\ packet = [i \in 0 .. idx - 1 |-> mem[req.addr + 4 * i]]

\* A write under way is inside its image and inside memory; a reset has
\* written cpsr before the pc.
WriteInv ==
    /\ gpc = "G" => idx <= PC + 1
    /\ gpc = "X" => idx <= req.len /\ req.addr + 4 * idx <= MemSize
    /\ gpc = "reset_pc" => cpsr = ResetCpsr

-----------------------------------------------------------------------------
(***************************************************************************)
(* The operators of AtomicMachine are those of the threads                 *)
(***************************************************************************)
\* A reset.
LEMMA SameReset == Atomic!RegNo = RegNo /\ \A r : Atomic!ResetReg(r) = ResetReg(r)
  BY DEF Atomic!ResetReg, ResetReg, Atomic!RegNo, RegNo

\* A fetch.
LEMMA SameFetch ==
    /\ Atomic!Cell = Cell
    /\ \A r : Atomic!FetchAddress(r) = FetchAddress(r) /\ Atomic!FetchedReg(r) = FetchedReg(r)
<1>1. Atomic!Cell = Cell
  BY DEF Atomic!Cell, Cell
<1>2. \A r : Atomic!FetchAddress(r) = FetchAddress(r)
  BY DEF Atomic!FetchAddress, FetchAddress, Atomic!arm_read_register, arm_read_register,
     Atomic!ClearBit1, ClearBit1
<1> QED
  BY <1>1, <1>2 DEF Atomic!FetchedReg, FetchedReg

\* An instruction.
LEMMA SameExec ==
    \A i, r, c, m : /\ Atomic!ExecReg(i, r) = ExecReg(i, r)
                    /\ Atomic!ExecCpsr(i, c) = ExecCpsr(i, c)
                    /\ Atomic!ExecMem(i, r, m) = ExecMem(i, r, m)
  BY DEF Atomic!ExecReg, ExecReg, Atomic!ExecCpsr, ExecCpsr, Atomic!ExecMem, ExecMem,
     Atomic!arm_read_register, arm_read_register, Atomic!ClearBit1, ClearBit1,
     Atomic!Cell, Cell

\* The answers.
LEMMA SameReplies ==
    /\ \A e : Atomic!StopReply(e) = StopReply(e)
    /\ \A n : Atomic!ErrorReply(n) = ErrorReply(n)
    /\ Atomic!OkReply = OkReply /\ Atomic!TextReply = TextReply /\ Atomic!Silence = Silence
    /\ Atomic!NONE = NONE /\ Atomic!RESET = RESET
  BY DEF Atomic!StopReply, StopReply, Atomic!StopSignal, StopSignal, Atomic!ErrorReply,
     ErrorReply, Atomic!OkReply, OkReply, Atomic!TextReply, TextReply, Atomic!Silence,
     Silence, Atomic!NoData, NoData, Atomic!NONE, NONE, Atomic!RESET, RESET,
     Atomic!UNDEFINED_INSTRUCTION, UNDEFINED_INSTRUCTION, Atomic!PREFETCH_ABORT,
     PREFETCH_ABORT, Atomic!DATA_ABORT, DATA_ABORT

\* What answers show and what writes store.
LEMMA SameViews ==
    /\ \A r, c : Atomic!GeneralRegisters(r, c) = GeneralRegisters(r, c)
    /\ \A r, n : Atomic!Shown(r, n) = Shown(r, n)
    /\ \A m, a, n : Atomic!MemoryWords(m, a, n) = MemoryWords(m, a, n)
    /\ \A m, a, n, w, f : Atomic!WriteRest(m, a, n, w, f) = WriteRest(m, a, n, w, f)
    /\ \A r, i, f : Atomic!WriteRestReg(r, i, f) = WriteRestReg(r, i, f)
    /\ \A a, n : Atomic!WriteFits(a, n) = WriteFits(a, n)
<1>1. \A r, n : Atomic!Shown(r, n) = Shown(r, n)
  BY DEF Atomic!Shown, Shown, Atomic!arm_read_register, arm_read_register,
     Atomic!ClearBit1, ClearBit1
<1>2. \A r, c : Atomic!GeneralRegisters(r, c) = GeneralRegisters(r, c)
  BY DEF Atomic!GeneralRegisters, GeneralRegisters, Atomic!GeneralRegister, GeneralRegister,
     Atomic!Shown, Shown, Atomic!arm_read_register, arm_read_register,
     Atomic!ClearBit1, ClearBit1
<1>3. \A m, a, n : Atomic!MemoryWords(m, a, n) = MemoryWords(m, a, n)
  BY DEF Atomic!MemoryWords, MemoryWords, Atomic!Available, Available
<1>4. \A m, a, n, w, f : Atomic!WriteRest(m, a, n, w, f) = WriteRest(m, a, n, w, f)
  BY DEF Atomic!WriteRest, WriteRest, Atomic!Cell, Cell
<1>5. \A r, i, f : Atomic!WriteRestReg(r, i, f) = WriteRestReg(r, i, f)
  BY DEF Atomic!WriteRestReg, WriteRestReg, Atomic!RegNo, RegNo
<1>6. \A a, n : Atomic!WriteFits(a, n) = WriteFits(a, n)
  BY DEF Atomic!WriteFits, WriteFits
<1> QED
  BY <1>1, <1>2, <1>3, <1>4, <1>5, <1>6

-----------------------------------------------------------------------------
(***************************************************************************)
(* The steps of AtomicMachine, in the operators of the threads             *)
(***************************************************************************)
\* The abstract processor, or all of the abstract state, stays; a step of
\* AtomicMachine, or none.
SameCore == AtomicReg' = AtomicReg /\ AtomicCpsr' = AtomicCpsr /\ AtomicMem' = AtomicMem
Same == SameCore /\ AtomicExc' = AtomicExc /\ AtomicReply' = AtomicReply
AtomicStep == Atomic!Next \/ UNCHANGED Atomic!vars

\* A step of the threads that AtomicMachine does not see.
LEMMA StillStep == Same => AtomicStep
  BY DEF Same, SameCore, AtomicStep, Atomic!vars

\* A reset interrupt.
LEMMA ResetStep ==
    ASSUME AtomicReg' = ResetReg(AtomicReg), AtomicCpsr' = ResetCpsr,
           AtomicMem' = AtomicMem, AtomicExc' = AtomicExc, AtomicReply' = AtomicReply
    PROVE  AtomicStep
  BY SameReset DEF AtomicStep, Atomic!Next, Atomic!Reset

\* An answer that changes nothing.
LEMMA ObserveStep ==
    ASSUME SameCore, AtomicExc' = AtomicExc,
           \/ AtomicReply' = StopReply(AtomicExc)
           \/ AtomicReply' = [kind |-> "registers",
                              data |-> GeneralRegisters(AtomicReg, AtomicCpsr)]
           \/ \E r \in RegNo :
                AtomicReply' = [kind |-> "register", data |-> [j \in 0 .. 0 |-> Shown(AtomicReg, r)]]
           \/ \E r \in Requests :
                /\ r.cmd = "m"
                /\ AtomicReply' = [kind |-> "memory",
                                   data |-> MemoryWords(AtomicMem, r.addr, r.len)]
           \/ AtomicReply' \in {OkReply, TextReply, ErrorReply(1)}
    PROVE  AtomicStep
<1>1. Atomic!Observe
  BY SameReset, SameReplies, SameViews DEF Atomic!Observe, SameCore
<1> QED
  BY <1>1 DEF AtomicStep, Atomic!Next

\* An instruction of a continue or of a single step.
LEMMA InstructionStep ==
    ASSUME NEW a, a = FetchAddress(AtomicReg), NEW i, i = Decode[AtomicMem[a]],
           NEW r, r = FetchedReg(AtomicReg),
           \/ /\ a \in Cell
              /\ AtomicReg' = ExecReg(i, r) /\ AtomicCpsr' = ExecCpsr(i, AtomicCpsr)
              /\ AtomicMem' = ExecMem(i, r, AtomicMem)
              /\ AtomicExc' = IF i.op = "exit" THEN AtomicExc ELSE NONE
           \/ /\ a \notin Cell
              /\ AtomicReg' = ResetReg(r) /\ AtomicCpsr' = ResetCpsr
              /\ AtomicMem' = AtomicMem /\ AtomicExc' = RESET,
           \/ /\ ~(a \in Cell /\ i.brk)
              /\ AtomicReply' = AtomicReply
           \/ AtomicReply' = IF a \in Cell /\ i.op = "exit" THEN AtomicReply
                             ELSE StopReply(AtomicExc')
    PROVE  AtomicStep
<1>1. Atomic!Instruction
  BY SameReset, SameFetch, SameExec, SameReplies DEF Atomic!Instruction
<1>2. Atomic!AtBreakpoint <=> a \in Cell /\ i.brk
  BY SameFetch DEF Atomic!AtBreakpoint
<1>3. Atomic!Exits <=> a \in Cell /\ i.op = "exit"
  BY SameFetch DEF Atomic!Exits
<1>4. Atomic!ContinueOne \/ Atomic!SingleStep
  BY <1>1, <1>2, <1>3, SameReplies DEF Atomic!ContinueOne, Atomic!SingleStep
<1> QED
  BY <1>4 DEF AtomicStep, Atomic!Next

\* The commands that write.
LEMMA WriteStep ==
    ASSUME NEW r \in Requests, AtomicExc' = AtomicExc,
           \/ /\ r.cmd = "G" /\ AtomicReg' = WriteRestReg(AtomicReg, r.image, 0)
              /\ AtomicCpsr' = r.image[PC + 1] /\ AtomicMem' = AtomicMem
              /\ AtomicReply' = OkReply
           \/ /\ r.cmd = "P" /\ r.reg \in RegNo
              /\ AtomicReg' = [AtomicReg EXCEPT ![r.reg] = r.value]
              /\ AtomicCpsr' = AtomicCpsr /\ AtomicMem' = AtomicMem
              /\ AtomicReply' = OkReply
           \/ /\ r.cmd = "X" /\ AtomicMem' = WriteRest(AtomicMem, r.addr, r.len, r.words, 0)
              /\ AtomicReg' = AtomicReg /\ AtomicCpsr' = AtomicCpsr
              /\ AtomicReply' = IF WriteFits(r.addr, r.len) THEN OkReply ELSE ErrorReply(2)
    PROVE  AtomicStep
<1>1. Atomic!WriteRegisters(r) \/ Atomic!WriteRegister(r) \/ Atomic!WriteMemory(r)
  BY SameReset, SameReplies, SameViews
  DEF Atomic!WriteRegisters, Atomic!WriteRegister, Atomic!WriteMemory
<1> QED
  BY <1>1 DEF AtomicStep, Atomic!Next

-----------------------------------------------------------------------------
(***************************************************************************)
(* What AtomicMachine sees at each label                                   *)
(***************************************************************************)
\* Labels at which the thread has writes or an answer still to come.
Busy == {"exec", "reset_cpsr", "reset_pc", "G", "X", "stop", "g", "m"}

\* No thread has anything to write.
Settled == AtomicReg = reg /\ AtomicCpsr = cpsr /\ AtomicMem = mem

\* The abstract state at each label: outside the handlers that write or answer
\* in pieces it is the state itself, but for a reset half done.
Views ==
    /\ gpc \notin Busy => /\ AtomicCpsr = cpsr /\ AtomicMem = mem
                          /\ AtomicExc = exc /\ AtomicReply = sent
                          /\ ipc # "exception_pc" => AtomicReg = reg
                          /\ ipc = "exception_pc" => AtomicReg = ResetReg(reg)
    /\ gpc = "exec" => /\ AtomicReg = ExecReg(Decode[ins], reg)
                       /\ AtomicCpsr = ExecCpsr(Decode[ins], cpsr)
                       /\ AtomicMem = ExecMem(Decode[ins], reg, mem)
                       /\ AtomicExc = IF Decode[ins].op = "exit" THEN exc ELSE NONE
                       /\ AtomicReply = IF req.cmd = "s" /\ Decode[ins].op # "exit"
                                        THEN StopReply(AtomicExc) ELSE sent
    /\ gpc \in {"reset_cpsr", "reset_pc"} =>
         /\ AtomicReg = ResetReg(reg) /\ AtomicCpsr = ResetCpsr /\ AtomicMem = mem
         /\ AtomicExc = RESET
         /\ AtomicReply = IF req.cmd = "s" THEN StopReply(RESET) ELSE sent
    /\ gpc \in {"stop", "g", "m"} /\ ipc # "exception_pc" => Settled /\ AtomicExc = exc
    /\ gpc = "stop" => AtomicReply = StopReply(exc)
    /\ gpc = "g" =>
         AtomicReply = [kind |-> "registers", data |-> GeneralRegisters(reg, cpsr)]
    /\ gpc = "m" =>
         AtomicReply = [kind |-> "memory", data |-> MemoryWords(mem, req.addr, req.len)]
    /\ gpc = "G" /\ ipc # "exception_pc" =>
         /\ AtomicReg = WriteRestReg(reg, req.image, idx) /\ AtomicCpsr = req.image[PC + 1]
         /\ AtomicMem = mem /\ AtomicExc = exc /\ AtomicReply = OkReply
    /\ gpc = "X" /\ ipc # "exception_pc" =>
         /\ AtomicReg = reg /\ AtomicCpsr = cpsr /\ AtomicExc = exc
         /\ AtomicMem = WriteRest(mem, req.addr, req.len, req.words, idx)
         /\ AtomicReply = IF WriteFits(req.addr, req.len) THEN OkReply ELSE ErrorReply(2)

\* So it is, in every state.
LEMMA ViewsHere == Views
<1> USE DEF AtomicReg, AtomicCpsr, AtomicMem, AtomicExc, AtomicReply, Executing, Resetting,
        Settled, Busy
<1>1. gpc \notin Busy => /\ AtomicCpsr = cpsr /\ AtomicMem = mem
                         /\ AtomicExc = exc /\ AtomicReply = sent
                         /\ ipc # "exception_pc" => AtomicReg = reg
                         /\ ipc = "exception_pc" => AtomicReg = ResetReg(reg)
  OBVIOUS
<1>2. gpc = "exec" => /\ AtomicReg = ExecReg(Decode[ins], reg)
                      /\ AtomicCpsr = ExecCpsr(Decode[ins], cpsr)
                      /\ AtomicMem = ExecMem(Decode[ins], reg, mem)
                      /\ AtomicExc = IF Decode[ins].op = "exit" THEN exc ELSE NONE
                      /\ AtomicReply = IF req.cmd = "s" /\ Decode[ins].op # "exit"
                                       THEN StopReply(AtomicExc) ELSE sent
  OBVIOUS
<1>3. gpc \in {"reset_cpsr", "reset_pc"} =>
         /\ AtomicReg = ResetReg(reg) /\ AtomicCpsr = ResetCpsr /\ AtomicMem = mem
         /\ AtomicExc = RESET
         /\ AtomicReply = IF req.cmd = "s" THEN StopReply(RESET) ELSE sent
  OBVIOUS
<1>4. gpc \in {"stop", "g", "m"} /\ ipc # "exception_pc" => Settled /\ AtomicExc = exc
  OBVIOUS
<1> QED
  BY <1>1, <1>2, <1>3, <1>4 DEF Views

\* And in the next.
LEMMA ViewsThere == Views'
  BY ViewsHere, PTL

-----------------------------------------------------------------------------
(***************************************************************************)
(* Loops over registers and memory                                         *)
(***************************************************************************)
\* One more register of a 'G' stored, and all of them (gdb_protocol.c:287-327).
LEMMA RestReg ==
    ASSUME NEW r \in [RegNo -> Word], NEW image, NEW n \in Nat
    PROVE  /\ n \in RegNo =>
                WriteRestReg([r EXCEPT ![n] = image[n]], image, n + 1) = WriteRestReg(r, image, n)
           /\ n > PC => WriteRestReg(r, image, n) = r
<1>1. PC \in Nat /\ RegNo = 0 .. PC
  BY MachineAssumption DEF RegNo
<1>2. ASSUME n \in RegNo
      PROVE  WriteRestReg([r EXCEPT ![n] = image[n]], image, n + 1) = WriteRestReg(r, image, n)
  <2>1. \A k \in RegNo : (IF k >= n + 1 THEN image[k] ELSE [r EXCEPT ![n] = image[n]][k])
                         = (IF k >= n THEN image[k] ELSE r[k])
    BY <1>1, <1>2
  <2> QED
    BY <2>1 DEF WriteRestReg
<1>3. ASSUME n > PC PROVE WriteRestReg(r, image, n) = r
  <2>1. \A k \in RegNo : ~(k >= n)
    BY <1>1, <1>3
  <2> QED
    BY <2>1 DEF WriteRestReg
<1> QED
  BY <1>2, <1>3

\* One more word of an 'X' stored (gdb_protocol.c:329-355).
LEMMA RestMem ==
    ASSUME NEW m \in [Cell -> Word], NEW addr \in Word, addr % 4 = 0, NEW len \in Nat,
           NEW words, NEW n \in Nat, n < len, addr + 4 * n < MemSize,
           NEW w, w[addr + 4 * n] = words[n], \A c \in Cell : c # addr + 4 * n => w[c] = m[c]
    PROVE  WriteRest(w, addr, len, words, n + 1) = WriteRest(m, addr, len, words, n)
<1>1. MemSize \in Nat /\ addr \in Nat
  BY MachineAssumption DEF Word
<1>2. \A c \in Cell : c \in Nat /\ c < MemSize /\ c % 4 = 0
  BY <1>1 DEF Cell
<1>3. ASSUME NEW c \in Cell
      PROVE  (IF addr + 4 * (n + 1) <= c /\ c < addr + 4 * len
              THEN words[(c - addr) \div 4] ELSE w[c])
             = (IF addr + 4 * n <= c /\ c < addr + 4 * len
                THEN words[(c - addr) \div 4] ELSE m[c])
  <2>1. CASE c = addr + 4 * n
    <3>1. (c - addr) \div 4 = n /\ c < addr + 4 * len /\ ~(addr + 4 * (n + 1) <= c)
      BY <1>1, <2>1
    <3> QED
      BY <1>1, <2>1, <3>1
  <2>2. CASE c # addr + 4 * n
    <3>1. addr + 4 * (n + 1) <= c <=> addr + 4 * n <= c
      BY <1>1, <1>2, <2>2
    <3> QED
      BY <2>2, <3>1
  <2> QED
    BY <2>1, <2>2
<1>4. WriteRest(w, addr, len, words, n + 1) = WriteRest(m, addr, len, words, n)
  BY <1>3 DEF WriteRest
<1> QED
  BY <1>4

\* All that fit are stored.
LEMMA RestMemDone ==
    ASSUME NEW m \in [Cell -> Word], NEW addr \in Word, NEW len \in Nat, NEW words,
           NEW n \in Nat, n >= len \/ addr + 4 * n >= MemSize
    PROVE  WriteRest(m, addr, len, words, n) = m
<1>1. MemSize \in Nat /\ addr \in Nat /\ \A c \in Cell : c \in Nat /\ c < MemSize
  BY MachineAssumption DEF Word, Cell
<1>2. \A c \in Cell : ~(addr + 4 * n <= c /\ c < addr + 4 * len)
  BY <1>1
<1> QED
  BY <1>2 DEF WriteRest

\* The words an 'm' can read (gdb_protocol.c:240-253).
LEMMA AvailableWords ==
    ASSUME NEW addr \in Word, addr % 4 = 0, NEW len \in Nat, NEW n \in Nat
    PROVE  /\ Available(addr, len) \in Nat
           /\ n < Available(addr, len) <=> n < len /\ addr + 4 * n < MemSize
<1>1. MemSize \in Nat /\ MemSize % 4 = 0 /\ addr \in Nat
  BY MachineAssumption DEF Word
<1>2. CASE addr >= MemSize
  BY <1>1, <1>2 DEF Available
<1>3. CASE addr < MemSize
  <2> DEFINE room == (MemSize - addr) \div 4
  <2>1. room \in Nat /\ MemSize = addr + 4 * room
    BY <1>1, <1>3
  <2>2. Available(addr, len) = IF len < room THEN len ELSE room
    BY <1>1, <1>3 DEF Available
  <2> HIDE DEF room
  <2> QED
    BY <1>1, <2>1, <2>2
<1> QED
  BY <1>1, <1>2, <1>3

-----------------------------------------------------------------------------
(***************************************************************************)
(* The invariant                                                           *)
(***************************************************************************)
\* The inductive invariant of the refinement.
RInv == IInv /\ DumpInv /\ WriteInv

\* What a label says of a request (RequestAssumption).
LEMMA RequestFields ==
    ASSUME IInv
    PROVE  /\ gpc \in GdbCritical => req \in Requests
           /\ gpc \in {"m", "X"} => req.addr \in Word /\ req.addr % 4 = 0 /\ req.len \in Nat
           /\ gpc = "G" => req.image \in [0 .. PC + 1 -> Word]
           /\ gpc = "X" => req.words \in [0 .. req.len - 1 -> Word]
  BY RequestAssumption DEF IInv, HandlerInv, GdbCritical

\* Every step keeps what a handler has read or written so far.
LEMMA StepRInv == RInv /\ [Next]_vars => RInv'
<1> SUFFICES ASSUME RInv, [Next]_vars PROVE DumpInv' /\ WriteInv'
  BY StepIInv DEF RInv
<1> DEFINE Loops == {"g", "m", "G", "X", "reset_pc"}
<1>0. /\ IInv /\ idx \in Nat /\ PC \in Nat /\ reg \in [RegNo -> Word] /\ mem \in [Cell -> Word]
      /\ MemSize \in Nat /\ MemSize % 4 = 0
  BY MachineAssumption DEF RInv, IInv, TypeOK
<1>1. CASE gpc' \notin Loops
  BY <1>1 DEF DumpInv, WriteInv
<1>2. CASE UNCHANGED <<gpc, idx, packet, req, reg, cpsr, mem>>
  BY <1>2 DEF DumpInv, WriteInv, RInv
<1>3. CASE read_general_registers
  <2>1. gpc' = "g" /\ idx' = 0 /\ packet' = NoData
    BY <1>3 DEF read_general_registers
  <2>2. NoData = [i \in 0 .. 0 - 1 |-> GeneralRegister(reg', cpsr', i)]
    BY DEF NoData
  <2> QED
    BY <1>0, <2>1, <2>2 DEF DumpInv, WriteInv
<1>4. CASE read_general_registers_next
  <2>1. /\ gpc = "g" /\ gpc' = "g" /\ idx <= PC + 1 /\ idx' = idx + 1
        /\ packet' = Put(packet, idx, GeneralRegister(reg, cpsr, idx))
        /\ reg' = reg /\ cpsr' = cpsr
    BY <1>4 DEF read_general_registers_next, At, core
  <2>2. packet = [i \in 0 .. idx - 1 |-> GeneralRegister(reg, cpsr, i)]
    BY <2>1 DEF RInv, DumpInv
  <2>3. \A i \in 0 .. idx : i # idx => packet[i] = GeneralRegister(reg, cpsr, i)
    BY <1>0, <2>2
  <2>4. packet' = [i \in 0 .. idx |-> GeneralRegister(reg, cpsr, i)]
    BY <2>1, <2>3 DEF Put
  <2>5. idx' - 1 = idx /\ idx' <= PC + 2
    BY <1>0, <2>1
  <2> QED
    BY <2>1, <2>4, <2>5 DEF DumpInv, WriteInv
<1>5. CASE read_memory
  <2>1. gpc' = "m" /\ idx' = 0 /\ packet' = NoData
    BY <1>5 DEF read_memory
  <2>2. NoData = [i \in 0 .. 0 - 1 |-> mem'[req'.addr + 4 * i]]
    BY DEF NoData
  <2>3. Available(req'.addr, req'.len) \in Nat
    <3>1. req'.addr \in Word /\ req'.addr % 4 = 0 /\ req'.len \in Nat
      BY <1>5, RequestAssumption
      DEF read_memory, Inside, Handling, At, RInv, IInv, HandlerInv, GdbCritical
    <3> QED
      BY <3>1, AvailableWords
  <2> QED
    BY <1>0, <2>1, <2>2, <2>3 DEF DumpInv, WriteInv
<1>6. CASE read_memory_next
  <2>1. /\ gpc = "m" /\ gpc' = "m" /\ Readable /\ idx' = idx + 1
        /\ packet' = Put(packet, idx, mem[req.addr + 4 * idx])
        /\ mem' = mem /\ req' = req
    BY <1>6 DEF read_memory_next, At, core, Inside
  <2>2. packet = [i \in 0 .. idx - 1 |-> mem[req.addr + 4 * i]]
    BY <2>1 DEF RInv, DumpInv
  <2>3. \A i \in 0 .. idx : i # idx => packet[i] = mem[req.addr + 4 * i]
    BY <1>0, <2>2
  <2>4. packet' = [i \in 0 .. idx |-> mem[req.addr + 4 * i]]
    BY <2>1, <2>3 DEF Put
  <2>5. idx < Available(req.addr, req.len) /\ Available(req.addr, req.len) \in Nat
    BY <1>0, <2>1, RequestFields, AvailableWords DEF Readable
  <2>6. idx' - 1 = idx /\ idx' <= Available(req.addr, req.len)
    BY <1>0, <2>1, <2>5
  <2> QED
    BY <2>1, <2>4, <2>6 DEF DumpInv, WriteInv
<1>7. CASE write_general_registers
  BY <1>0, <1>7 DEF write_general_registers, DumpInv, WriteInv
<1>8. CASE write_general_registers_next
  <2>1. gpc' = "G" /\ idx <= PC /\ idx' = idx + 1
    BY <1>8 DEF write_general_registers_next, At
  <2> QED
    BY <1>0, <2>1 DEF DumpInv, WriteInv
<1>9. CASE write_memory_binary
  <2>1. req' = req /\ (gpc' = "unlock" \/ (gpc' = "X" /\ idx' = 0 /\ req.addr < MemSize))
    BY <1>9 DEF write_memory_binary, Inside
  <2>2. req.addr \in Nat /\ req.len \in Nat
    BY <1>9, RequestAssumption
    DEF write_memory_binary, Handling, At, RInv, IInv, HandlerInv, GdbCritical, Word
  <2> QED
    BY <1>0, <2>1, <2>2 DEF DumpInv, WriteInv
<1>10. CASE write_memory_binary_next
  <2>1. /\ gpc = "X" /\ req' = req /\ idx < req.len
        /\ \/ gpc' = "unlock"
           \/ gpc' = "X" /\ idx' = idx + 1 /\ req.addr + 4 * idx < MemSize
    BY <1>10 DEF write_memory_binary_next, At, Inside
  <2>2. req.addr \in Nat /\ req.addr % 4 = 0 /\ req.len \in Nat
    BY <1>0, <2>1, RequestFields DEF Word
  <2>3. req.addr + 4 * idx < MemSize => req.addr + 4 * (idx + 1) <= MemSize
    BY <1>0, <2>2
  <2> QED
    BY <1>0, <2>1, <2>2, <2>3 DEF DumpInv, WriteInv
<1>11. CASE step_reset_cpsr
  BY <1>11 DEF step_reset_cpsr, DumpInv, WriteInv
<1>12. CASE \/ gdb_lock \/ gdb_unlock \/ cont \/ cont_loop \/ cont_peek \/ step
            \/ arm_fetch \/ step_reset_pc \/ gdb_send_stop_reason \/ reason
            \/ kill_request \/ query \/ set_thread \/ gdb_accept \/ gdb_eof
  <2>1. gpc' \notin Loops
    BY <1>12
    DEF gdb_lock, gdb_unlock, cont, cont_loop, cont_peek, step, arm_fetch, step_reset_pc,
        gdb_send_stop_reason, reason, kill_request, query, set_thread, gdb_accept, gdb_eof,
        AfterStep, At
  <2> QED
    BY <1>1, <2>1
<1>13. CASE \/ arm_execute_instruction \/ read_general_registers_end
            \/ read_register \/ read_register_end \/ read_memory_end
            \/ write_general_registers_end \/ write_register \/ write_register_end
            \/ write_memory_binary_end \/ \E r \in Requests : gdb_packet_analysis(r)
  <2>1. gpc' \notin Loops
    BY <1>13
    DEF arm_execute_instruction, AfterStep, read_general_registers_end, read_register,
        read_register_end, read_memory_end, write_general_registers_end, write_register,
        write_register_end, write_memory_binary_end, gdb_packet_analysis, At, Handling
  <2> QED
    BY <1>1, <2>1
<1>14. CASE IrqStep
  <2>1. gpc' = gpc
    BY <1>14 DEF IrqStep, irq_lock, arm_exception, arm_exception_pc, irq_unlock, NotIrq
  <2>2. CASE irq_lock \/ irq_unlock
    BY <1>2, <2>2 DEF irq_lock, irq_unlock, NotIrq, core, gdbvars
  <2>3. CASE arm_exception \/ arm_exception_pc
    <3>1. gpc \notin GdbCritical
      BY <2>3 DEF arm_exception, arm_exception_pc, IrqAt, RInv, IInv, LockInv, IrqCritical
    <3> QED
      BY <1>1, <2>1, <3>1 DEF GdbCritical
  <2> QED
    BY <1>14, <2>2, <2>3 DEF IrqStep
<1>15. CASE \/ MainStep \/ irq_accept \/ irq_close \/ Terminated \/ UNCHANGED vars
            \/ \E b \in IrqBytes : irq_read(b)
  BY <1>2, <1>15
  DEF MainStep, main_join, main_destroy, main_return, irq_accept, irq_close, irq_read,
      NotIrq, Terminated, vars, core, gdbvars
<1> QED
  BY <1>3, <1>4, <1>5, <1>6, <1>7, <1>8, <1>9, <1>10, <1>11, <1>12, <1>13, <1>14, <1>15
  DEF Next, GdbStep, Environment

\* The simulator starts in it.
LEMMA InitRInv == Init => RInv
<1>1. Init => DumpInv /\ WriteInv
  BY DEF Init, DumpInv, WriteInv
<1> QED
  BY <1>1, InitIInv DEF RInv

-----------------------------------------------------------------------------
(***************************************************************************)
(* The steps                                                               *)
(***************************************************************************)
\* A listener moves between labels without a write or an answer.
LEMMA Moves ==
    ASSUME gpc \notin Busy, gpc' \notin Busy, UNCHANGED <<reg, cpsr, mem, exc, sent, ipc>>
    PROVE  AtomicStep
<1>1. Same
  BY ViewsHere, ViewsThere DEF Views, Same, SameCore
<1> QED
  BY <1>1, StillStep

\* The gdb listener stands still and no reset starts or ends.
LEMMA Elsewhere ==
    ASSUME UNCHANGED <<gpc, req, idx, ins, reg, cpsr, mem, exc, sent>>,
           ipc' = "exception_pc" <=> ipc = "exception_pc"
    PROVE  AtomicStep
<1>1. Same
  BY DEF Same, SameCore, AtomicReg, AtomicCpsr, AtomicMem, AtomicExc, AtomicReply,
     Resetting, Executing
<1> QED
  BY <1>1, StillStep

\* Inside a handler of gdb no reset is under way.
LEMMA NoReset ==
    ASSUME IInv, gpc \in GdbCritical
    PROVE  ipc # "exception_pc"
  BY DEF IInv, LockInv, IrqCritical, TypeOK

\* A handler answers at once: q, H, p.
LEMMA Answers ==
    ASSUME gpc \notin Busy, gpc' \notin Busy, UNCHANGED <<reg, cpsr, mem, exc, ipc>>,
           \/ sent' \in {OkReply, TextReply, ErrorReply(1)}
           \/ /\ ipc # "exception_pc"
              /\ \E r \in RegNo :
                    sent' = [kind |-> "register", data |-> [j \in 0 .. 0 |-> Shown(reg, r)]]
    PROVE  AtomicStep
<1>1. SameCore /\ AtomicExc' = AtomicExc /\ AtomicReply' = sent'
  BY ViewsHere, ViewsThere DEF Views, SameCore
<1>2. ipc # "exception_pc" => AtomicReg = reg
  BY ViewsHere DEF Views
<1> QED
  BY <1>1, <1>2, ObserveStep

\* c, s and ? reach the stop reason without executing anything more.
LEMMA Stops ==
    ASSUME gpc \notin Busy, gpc' = "stop", ipc # "exception_pc",
           UNCHANGED <<reg, cpsr, mem, exc, ipc>>
    PROVE  AtomicStep
<1>1. SameCore /\ AtomicExc' = AtomicExc /\ AtomicReply' = StopReply(AtomicExc)
  BY ViewsHere, ViewsThere DEF Views, SameCore, Settled
<1> QED
  BY <1>1, ObserveStep

\* arm_fetch is where an instruction, or the reset of a failed fetch, counts.
LEMMA Fetches ==
    ASSUME RInv, RInv', arm_fetch
    PROVE  AtomicStep
<1> DEFINE a == FetchAddress(AtomicReg)
           i == Decode[AtomicMem[a]]
           r == FetchedReg(AtomicReg)
<1>1. /\ gpc = "fetch" /\ reg' = FetchedReg(reg) /\ req' = req /\ cpsr' = cpsr /\ mem' = mem
      /\ exc' = exc /\ sent' = sent /\ ipc' = ipc
  BY DEF arm_fetch, At, Inside, irqvars
<1>2. ipc # "exception_pc" /\ req.cmd \in {"c", "s"}
  BY <1>1, NoReset DEF RInv, IInv, HandlerInv, GdbCritical
<1>3. /\ AtomicReg = reg /\ AtomicCpsr = cpsr /\ AtomicMem = mem /\ AtomicExc = exc
      /\ AtomicReply = sent
  BY <1>1, <1>2, ViewsHere DEF Views, Busy
<1>4. req.cmd = "c" => ~(a \in Cell /\ i.brk)
  BY <1>1, <1>3 DEF RInv, IInv, PeekInv
<1>5. CASE FetchAddress(reg) \in Cell
  <2>1. ins' = mem[FetchAddress(reg)] /\ gpc' = "exec"
    BY <1>5 DEF arm_fetch
  <2>2. Decode[ins'] = i /\ a \in Cell /\ reg' = r
    BY <1>1, <1>3, <1>5, <2>1
  <2>3. /\ AtomicReg' = ExecReg(i, r) /\ AtomicCpsr' = ExecCpsr(i, AtomicCpsr)
        /\ AtomicMem' = ExecMem(i, r, AtomicMem)
        /\ AtomicExc' = (IF i.op = "exit" THEN AtomicExc ELSE NONE)
    BY <1>1, <1>3, <2>1, <2>2, ViewsThere DEF Views, NONE
  <2>4. AtomicReply' = IF req.cmd = "s" /\ i.op # "exit" THEN StopReply(AtomicExc') ELSE AtomicReply
    BY <1>1, <1>3, <2>1, <2>2, ViewsThere DEF Views
  <2> HIDE DEF a, i, r
  <2>5. CASE req.cmd = "c"
    <3>1. AtomicReply' = AtomicReply
      BY <2>4, <2>5
    <3> QED
      BY <1>4, <2>2, <2>3, <2>5, <3>1, InstructionStep DEF a, i, r
  <2>6. CASE req.cmd = "s"
    <3>1. AtomicReply' = IF a \in Cell /\ i.op = "exit" THEN AtomicReply ELSE StopReply(AtomicExc')
      BY <2>2, <2>4, <2>6
    <3> QED
      BY <2>2, <2>3, <3>1, InstructionStep DEF a, i, r
  <2> QED
    BY <1>2, <2>5, <2>6
<1>6. CASE FetchAddress(reg) \notin Cell
  <2>1. gpc' = "reset_cpsr" /\ a \notin Cell /\ reg' = r
    BY <1>1, <1>3, <1>6 DEF arm_fetch
  <2>2. /\ AtomicReg' = ResetReg(r) /\ AtomicCpsr' = ResetCpsr /\ AtomicMem' = AtomicMem
        /\ AtomicExc' = RESET
        /\ AtomicReply' = IF req.cmd = "s" THEN StopReply(RESET) ELSE AtomicReply
    BY <1>1, <1>3, <2>1, ViewsThere DEF Views, RESET
  <2> HIDE DEF a, i, r
  <2>3. CASE req.cmd = "c"
    <3>1. AtomicReply' = AtomicReply
      BY <2>2, <2>3
    <3> QED
      BY <2>1, <2>2, <3>1, InstructionStep DEF a, i, r
  <2>4. CASE req.cmd = "s"
    <3>1. AtomicReply' = IF a \in Cell /\ i.op = "exit" THEN AtomicReply ELSE StopReply(AtomicExc')
      BY <2>1, <2>2, <2>4
    <3> QED
      BY <2>1, <2>2, <3>1, InstructionStep DEF a, i, r
  <2> QED
    BY <1>2, <2>3, <2>4
<1> QED
  BY <1>5, <1>6

\* The writes of an instruction whose effect has been counted.
LEMMA Executes ==
    ASSUME RInv, RInv', arm_execute_instruction
    PROVE  Same
<1>1. /\ gpc = "exec" /\ reg' = ExecReg(Decode[ins], reg) /\ cpsr' = ExecCpsr(Decode[ins], cpsr)
      /\ mem' = ExecMem(Decode[ins], reg, mem) /\ req' = req /\ ins' = ins /\ sent' = sent
      /\ ipc' = ipc
  BY DEF arm_execute_instruction, At, irqvars
<1>2. ipc # "exception_pc" /\ req.cmd \in {"c", "s"}
  BY <1>1, NoReset DEF RInv, IInv, HandlerInv, GdbCritical
<1>3. CASE Decode[ins].op = "exit"
  <2>1. gpc' = "exec" /\ exc' = exc
    BY <1>1, <1>3 DEF arm_execute_instruction
  <2>2. reg' = reg /\ cpsr' = cpsr /\ mem' = mem
    BY <1>1, <1>3 DEF ExecReg, ExecCpsr, ExecMem
  <2> QED
    BY <1>1, <2>1, <2>2
    DEF Same, SameCore, AtomicReg, AtomicCpsr, AtomicMem, AtomicExc, AtomicReply,
        Resetting, Executing
<1>4. CASE Decode[ins].op # "exit"
  <2>1. exc' = NONE /\ gpc' = IF req.cmd = "c" THEN "cont" ELSE "stop"
    BY <1>4 DEF arm_execute_instruction, AfterStep
  <2>2. AtomicReg = reg' /\ AtomicCpsr = cpsr' /\ AtomicMem = mem' /\ AtomicExc = exc'
    BY <1>1, <1>4, <2>1, ViewsHere DEF Views
  <2>3. AtomicReply = IF req.cmd = "s" THEN StopReply(exc') ELSE sent
    BY <1>1, <1>4, <2>2, ViewsHere DEF Views
  <2>4. CASE req.cmd = "c"
    BY <1>1, <1>2, <2>1, <2>2, <2>3, <2>4, ViewsThere DEF Views, Busy, Same, SameCore
  <2>5. CASE req.cmd = "s"
    BY <1>1, <1>2, <2>1, <2>2, <2>3, <2>5, ViewsThere DEF Views, Settled, Same, SameCore
  <2> QED
    BY <1>2, <2>4, <2>5
<1> QED
  BY <1>3, <1>4

\* The two writes of a reset that has been counted.
LEMMA Resets ==
    ASSUME RInv, step_reset_cpsr \/ step_reset_pc
    PROVE  Same
<1>1. /\ gpc \in {"reset_cpsr", "reset_pc"} /\ req' = req /\ sent' = sent /\ mem' = mem
      /\ ipc' = ipc
  BY DEF step_reset_cpsr, step_reset_pc, At, Inside, irqvars
<1>2. ipc # "exception_pc" /\ req.cmd \in {"c", "s"}
  BY <1>1, NoReset DEF RInv, IInv, HandlerInv, GdbCritical
<1>3. /\ AtomicReg = ResetReg(reg) /\ AtomicCpsr = ResetCpsr /\ AtomicMem = mem
      /\ AtomicExc = RESET
      /\ AtomicReply = IF req.cmd = "s" THEN StopReply(RESET) ELSE sent
  BY <1>1, ViewsHere DEF Views
<1>4. CASE step_reset_cpsr
  <2>1. gpc' = "reset_pc" /\ reg' = reg
    BY <1>4 DEF step_reset_cpsr
  <2> QED
    BY <1>1, <1>3, <2>1, ViewsThere DEF Views, Same, SameCore, RESET
<1>5. CASE step_reset_pc
  <2>1. /\ gpc = "reset_pc" /\ gpc' = IF req.cmd = "c" THEN "cont" ELSE "stop"
        /\ reg' = ResetReg(reg) /\ exc' = RESET /\ cpsr' = cpsr
    BY <1>5 DEF step_reset_pc, AfterStep, At
  <2>2. cpsr' = ResetCpsr
    BY <2>1 DEF RInv, WriteInv
  <2>3. CASE req.cmd = "c"
    BY <1>1, <1>2, <1>3, <2>1, <2>2, <2>3, ViewsThere DEF Views, Busy, Same, SameCore
  <2>4. CASE req.cmd = "s"
    BY <1>1, <1>2, <1>3, <2>1, <2>2, <2>4, ViewsThere DEF Views, Settled, Same, SameCore
  <2> QED
    BY <1>2, <2>3, <2>4
<1> QED
  BY <1>4, <1>5

\* 'g' and 'm' answer what the processor held when they began.
LEMMA Dumps ==
    ASSUME RInv, \/ read_general_registers \/ read_general_registers_next
                 \/ read_general_registers_end \/ read_memory \/ read_memory_next
                 \/ read_memory_end
    PROVE  AtomicStep
<1>0. /\ gpc \in GdbCritical /\ UNCHANGED <<reg, cpsr, mem, exc, req, ipc>>
  BY DEF read_general_registers, read_general_registers_next, read_general_registers_end,
     read_memory, read_memory_next, read_memory_end, At, Handling, Inside, core, irqvars,
     GdbCritical
<1>1. IInv /\ idx \in Nat /\ PC \in Nat /\ ipc # "exception_pc" /\ req \in Requests
  BY <1>0, NoReset, RequestFields, MachineAssumption DEF RInv, IInv, TypeOK
<1>2. CASE read_general_registers
  <2>1. gpc = "handler" /\ gpc' = "g"
    BY <1>2 DEF read_general_registers, At, Handling
  <2>2. Settled /\ Settled' /\ AtomicExc = exc /\ AtomicExc' = exc'
    BY <1>0, <1>1, <2>1, ViewsHere, ViewsThere DEF Views, Busy, Settled
  <2>3. AtomicReply' = [kind |-> "registers", data |-> GeneralRegisters(AtomicReg, AtomicCpsr)]
    BY <1>0, <2>1, <2>2, ViewsThere DEF Views, Settled
  <2> QED
    BY <1>0, <2>2, <2>3, ObserveStep DEF Settled, SameCore
<1>3. CASE read_general_registers_next
  <2>1. gpc = "g" /\ gpc' = "g"
    BY <1>3 DEF read_general_registers_next, At
  <2>2. Same
    BY <1>0, <1>1, <2>1, ViewsHere, ViewsThere DEF Views, Settled, Same, SameCore
  <2> QED
    BY <2>2, StillStep
<1>4. CASE read_general_registers_end
  <2>1. /\ gpc = "g" /\ gpc' = "unlock" /\ idx > PC + 1
        /\ sent' = [kind |-> "registers", data |-> packet]
    BY <1>4 DEF read_general_registers_end, At, Reply
  <2>2. idx - 1 = PC + 1 /\ packet = [i \in 0 .. idx - 1 |-> GeneralRegister(reg, cpsr, i)]
    BY <1>1, <2>1 DEF RInv, DumpInv
  <2>3. packet = GeneralRegisters(reg, cpsr)
    BY <2>2 DEF GeneralRegisters
  <2>4. Same
    BY <1>0, <1>1, <2>1, <2>3, ViewsHere, ViewsThere DEF Views, Busy, Settled, Same, SameCore
  <2> QED
    BY <2>4, StillStep
<1>5. CASE read_memory
  <2>1. gpc = "handler" /\ gpc' = "m" /\ req.cmd = "m"
    BY <1>5 DEF read_memory, At, Handling
  <2>2. Settled /\ Settled' /\ AtomicExc = exc /\ AtomicExc' = exc'
    BY <1>0, <1>1, <2>1, ViewsHere, ViewsThere DEF Views, Busy, Settled
  <2>3. AtomicReply' = [kind |-> "memory", data |-> MemoryWords(AtomicMem, req.addr, req.len)]
    BY <1>0, <2>1, <2>2, ViewsThere DEF Views, Settled
  <2> QED
    BY <1>0, <1>1, <2>1, <2>2, <2>3, ObserveStep DEF Settled, SameCore
<1>6. CASE read_memory_next
  <2>1. gpc = "m" /\ gpc' = "m"
    BY <1>6 DEF read_memory_next, At
  <2>2. Same
    BY <1>0, <1>1, <2>1, ViewsHere, ViewsThere DEF Views, Settled, Same, SameCore
  <2> QED
    BY <2>2, StillStep
<1>7. CASE read_memory_end
  <2>1. /\ gpc = "m" /\ gpc' = "unlock" /\ ~Readable
        /\ sent' = [kind |-> "memory", data |-> packet]
    BY <1>7 DEF read_memory_end, At, Reply
  <2>2. /\ idx <= Available(req.addr, req.len)
        /\ packet = [i \in 0 .. idx - 1 |-> mem[req.addr + 4 * i]]
    BY <2>1 DEF RInv, DumpInv
  <2>3. Available(req.addr, req.len) \in Nat /\ ~(idx < Available(req.addr, req.len))
    BY <1>1, <2>1, RequestFields, AvailableWords DEF Readable
  <2>4. idx = Available(req.addr, req.len)
    BY <1>1, <2>2, <2>3
  <2>5. packet = MemoryWords(mem, req.addr, req.len)
    BY <2>2, <2>4 DEF MemoryWords
  <2>6. Same
    BY <1>0, <1>1, <2>1, <2>5, ViewsHere, ViewsThere DEF Views, Busy, Settled, Same, SameCore
  <2> QED
    BY <2>6, StillStep
<1> QED
  BY <1>2, <1>3, <1>4, <1>5, <1>6, <1>7

\* 'G' and 'P' count when they begin and when they write.
LEMMA WritesRegisters ==
    ASSUME RInv, \/ write_general_registers \/ write_general_registers_next
                 \/ write_general_registers_end \/ write_register_end
    PROVE  AtomicStep
<1>0. /\ gpc \in GdbCritical /\ UNCHANGED <<mem, exc, req, ipc>>
  BY DEF write_general_registers, write_general_registers_next, write_general_registers_end,
     write_register_end, At, Handling, Inside, core, irqvars, GdbCritical
<1>1. /\ IInv /\ idx \in Nat /\ PC \in Nat /\ ipc # "exception_pc" /\ req \in Requests
      /\ reg \in [RegNo -> Word]
  BY <1>0, NoReset, RequestFields, MachineAssumption DEF RInv, IInv, TypeOK
<1>2. CASE write_general_registers
  <2>1. gpc = "handler" /\ gpc' = "G" /\ idx' = 0 /\ req.cmd = "G" /\ reg' = reg /\ cpsr' = cpsr
    BY <1>2 DEF write_general_registers, At, Handling, core
  <2>2. AtomicReg = reg /\ AtomicCpsr = cpsr /\ AtomicMem = mem /\ AtomicExc = exc
    BY <1>1, <2>1, ViewsHere DEF Views, Busy
  <2>3. /\ AtomicReg' = WriteRestReg(AtomicReg, req.image, 0)
        /\ AtomicCpsr' = req.image[PC + 1] /\ AtomicMem' = AtomicMem /\ AtomicExc' = AtomicExc
        /\ AtomicReply' = OkReply
    BY <1>0, <1>1, <2>1, <2>2, ViewsThere DEF Views, OkReply, NoData
  <2> QED
    BY <1>1, <2>1, <2>3, WriteStep
<1>3. CASE write_general_registers_next
  <2>1. /\ gpc = "G" /\ gpc' = "G" /\ idx <= PC /\ idx' = idx + 1 /\ cpsr' = cpsr
        /\ reg' = [reg EXCEPT ![idx] = req.image[idx]]
    BY <1>3 DEF write_general_registers_next, At
  <2>2. WriteRestReg(reg', req.image, idx') = WriteRestReg(reg, req.image, idx)
    <3>1. idx \in RegNo
      BY <1>1, <2>1 DEF RegNo
    <3> QED
      BY <1>1, <2>1, <3>1, RestReg
  <2>3. Same
    BY <1>0, <1>1, <2>1, <2>2, ViewsHere, ViewsThere DEF Views, Same, SameCore, OkReply, NoData
  <2> QED
    BY <2>3, StillStep
<1>4. CASE write_general_registers_end
  <2>1. /\ gpc = "G" /\ gpc' = "unlock" /\ idx > PC /\ cpsr' = req.image[PC + 1]
        /\ reg' = reg /\ sent' = OkReply
    BY <1>4 DEF write_general_registers_end, At, Reply
  <2>2. WriteRestReg(reg, req.image, idx) = reg
    BY <1>1, <2>1, RestReg
  <2>3. Same
    BY <1>0, <1>1, <2>1, <2>2, ViewsHere, ViewsThere DEF Views, Busy, Same, SameCore
  <2> QED
    BY <2>3, StillStep
<1>5. CASE write_register_end
  <2>1. /\ gpc = "P" /\ gpc' = "unlock" /\ cpsr' = cpsr /\ sent' = OkReply
        /\ reg' = [reg EXCEPT ![req.reg] = req.value] /\ req.cmd = "P" /\ req.reg \in RegNo
    BY <1>1, <1>5 DEF write_register_end, At, Reply, IInv, HandlerInv
  <2>2. AtomicReg = reg /\ AtomicCpsr = cpsr /\ AtomicMem = mem /\ AtomicExc = exc
    BY <1>1, <2>1, ViewsHere DEF Views, Busy
  <2>3. /\ AtomicReg' = reg' /\ AtomicCpsr' = cpsr /\ AtomicMem' = mem /\ AtomicExc' = exc
        /\ AtomicReply' = OkReply
    BY <1>0, <1>1, <2>1, ViewsThere DEF Views, Busy
  <2> QED
    BY <1>1, <2>1, <2>2, <2>3, WriteStep
<1> QED
  BY <1>2, <1>3, <1>4, <1>5

\* 'X' counts when it begins, what fits of it.
LEMMA WritesMemory ==
    ASSUME RInv, \/ write_memory_binary \/ write_memory_binary_next
                 \/ write_memory_binary_end
    PROVE  AtomicStep
<1>0. /\ gpc \in GdbCritical /\ UNCHANGED <<reg, cpsr, exc, req, ipc>>
  BY DEF write_memory_binary, write_memory_binary_next, write_memory_binary_end, At,
     Handling, Inside, core, irqvars, GdbCritical
<1>1. /\ IInv /\ idx \in Nat /\ ipc # "exception_pc" /\ req \in Requests
      /\ mem \in [Cell -> Word] /\ MemSize \in Nat
  BY <1>0, NoReset, RequestFields, MachineAssumption DEF RInv, IInv, TypeOK
<1>2. req.cmd = "X" /\ req.addr \in Word /\ req.addr \in Nat /\ req.addr % 4 = 0 /\ req.len \in Nat
  <2>1. req.cmd = "X"
    BY <1>1
    DEF write_memory_binary, write_memory_binary_next, write_memory_binary_end, At,
        Handling, IInv, HandlerInv
  <2> QED
    BY <1>1, <2>1, RequestAssumption DEF Word
<1> DEFINE rest(n) == WriteRest(mem, req.addr, req.len, req.words, n)
           answer == IF WriteFits(req.addr, req.len) THEN OkReply ELSE ErrorReply(2)
<1>3. CASE write_memory_binary
  <2>1. gpc = "handler" /\ mem' = mem
    BY <1>3 DEF write_memory_binary, At, Handling, core
  <2>2. AtomicReg = reg /\ AtomicCpsr = cpsr /\ AtomicMem = mem /\ AtomicExc = exc
    BY <1>1, <2>1, ViewsHere DEF Views, Busy
  <2>3. /\ AtomicReg' = reg /\ AtomicCpsr' = cpsr /\ AtomicExc' = exc
        /\ AtomicMem' = rest(0) /\ AtomicReply' = answer
    <3>1. CASE req.addr < MemSize
      <4>1. gpc' = "X" /\ idx' = 0
        BY <1>1, <1>2, <1>3, <3>1 DEF write_memory_binary
      <4> QED
        BY <1>0, <1>1, <2>1, <4>1, ViewsThere DEF Views, OkReply, ErrorReply, NoData, WriteFits
    <3>2. CASE req.addr >= MemSize
      <4>1. gpc' = "unlock" /\ sent' = ErrorReply(2)
        BY <1>1, <1>2, <1>3, <3>2 DEF write_memory_binary, Reply
      <4>2. rest(0) = mem
        <5>1. req.addr + 4 * 0 >= MemSize /\ 0 \in Nat
          BY <1>1, <1>2, <3>2
        <5>2. \A n \in Nat : req.addr + 4 * n >= MemSize => rest(n) = mem
          BY <1>1, <1>2, RestMemDone
        <5> HIDE DEF rest
        <5> QED
          BY <5>1, <5>2
      <4>3. ~WriteFits(req.addr, req.len)
        BY <1>1, <1>2, <3>2 DEF WriteFits
      <4>4. /\ AtomicReg' = reg /\ AtomicCpsr' = cpsr /\ AtomicExc' = exc
            /\ AtomicMem' = mem /\ AtomicReply' = ErrorReply(2)
        BY <1>0, <1>1, <2>1, <4>1, ViewsThere DEF Views, Busy
      <4> QED
        BY <4>2, <4>3, <4>4
    <3> QED
      BY <1>1, <1>2, <3>1, <3>2
  <2> QED
    BY <1>1, <1>2, <2>2, <2>3, WriteStep
<1>4. ASSUME gpc = "X"
      PROVE  /\ AtomicReg = reg /\ AtomicCpsr = cpsr /\ AtomicExc = exc
             /\ AtomicMem = rest(idx) /\ AtomicReply = answer
             /\ req.addr < MemSize /\ idx <= req.len /\ req.addr + 4 * idx <= MemSize
  BY <1>1, <1>4, ViewsHere DEF Views, RInv, IInv, HandlerInv, WriteInv
<1>5. CASE write_memory_binary_next
  <2>1. gpc = "X" /\ idx < req.len
    BY <1>5 DEF write_memory_binary_next, At
  <2>2. CASE req.addr + 4 * idx < MemSize
    <3>1. /\ gpc' = "X" /\ idx' = idx + 1
          /\ mem' = [mem EXCEPT ![req.addr + 4 * idx] = req.words[idx]]
      BY <1>1, <1>2, <1>5, <2>1, <2>2 DEF write_memory_binary_next
    <3>2. WriteRest(mem', req.addr, req.len, req.words, idx') = rest(idx)
      <4>1. req.addr + 4 * idx \in Cell
        BY <1>1, <1>2, <2>2 DEF Cell
      <4>2. /\ mem'[req.addr + 4 * idx] = req.words[idx]
            /\ \A c \in Cell : c # req.addr + 4 * idx => mem'[c] = mem[c]
        BY <1>1, <3>1, <4>1
      <4>3. WriteRest(mem', req.addr, req.len, req.words, idx + 1) = rest(idx)
        BY <1>1, <1>2, <2>1, <2>2, <4>2, RestMem
      <4> QED
        BY <3>1, <4>3
    <3>3. /\ AtomicReg' = reg /\ AtomicCpsr' = cpsr /\ AtomicExc' = exc
          /\ AtomicMem' = rest(idx) /\ AtomicReply' = answer
      BY <1>0, <1>1, <3>1, <3>2, ViewsThere
      DEF Views, OkReply, ErrorReply, NoData, WriteFits
    <3> QED
      BY <1>4, <2>1, <3>3, StillStep DEF Same, SameCore
  <2>3. CASE req.addr + 4 * idx >= MemSize
    <3>1. gpc' = "unlock" /\ sent' = ErrorReply(2) /\ mem' = mem
      BY <1>1, <1>2, <1>5, <2>1, <2>3 DEF write_memory_binary_next, Reply
    <3>2. rest(idx) = mem
      BY <1>1, <1>2, <2>3, RestMemDone
    <3>3. ~WriteFits(req.addr, req.len)
      BY <1>1, <1>2, <2>1, <2>3 DEF WriteFits
    <3>4. /\ AtomicReg' = reg /\ AtomicCpsr' = cpsr /\ AtomicExc' = exc
          /\ AtomicMem' = mem /\ AtomicReply' = ErrorReply(2)
      BY <1>0, <1>1, <3>1, ViewsThere DEF Views, Busy
    <3> QED
      BY <1>4, <2>1, <3>2, <3>3, <3>4, StillStep DEF Same, SameCore
  <2> QED
    BY <1>1, <1>2, <2>2, <2>3
<1>6. CASE write_memory_binary_end
  <2>1. gpc = "X" /\ idx >= req.len /\ gpc' = "unlock" /\ sent' = OkReply /\ mem' = mem
    BY <1>6 DEF write_memory_binary_end, At, Reply, core
  <2>2. rest(idx) = mem
    BY <1>1, <1>2, <2>1, RestMemDone
  <2>3. WriteFits(req.addr, req.len)
    <3>1. req.len = idx
      BY <1>1, <1>2, <1>4, <2>1
    <3> QED
      BY <1>4, <2>1, <3>1 DEF WriteFits
  <2>4. /\ AtomicReg' = reg /\ AtomicCpsr' = cpsr /\ AtomicExc' = exc
        /\ AtomicMem' = mem /\ AtomicReply' = OkReply
    BY <1>0, <1>1, <2>1, ViewsThere DEF Views, Busy
  <2> QED
    BY <1>4, <2>1, <2>2, <2>3, <2>4, StillStep DEF Same, SameCore
<1> QED
  BY <1>3, <1>5, <1>6

\* The irq listener: a reset counts when it writes cpsr.
LEMMA Interrupts ==
    ASSUME RInv, IrqStep
    PROVE  AtomicStep
<1>0. UNCHANGED <<gpc, req, idx, ins, exc, sent, mem>>
  BY DEF IrqStep, irq_lock, arm_exception, arm_exception_pc, irq_unlock, NotIrq, gdbvars, core
<1>1. CASE irq_lock \/ irq_unlock
  <2>1. reg' = reg /\ cpsr' = cpsr /\ ipc # "exception_pc" /\ ipc' # "exception_pc"
    BY <1>1 DEF irq_lock, irq_unlock, IrqAt, core
  <2> QED
    BY <1>0, <2>1, Elsewhere
<1>2. ASSUME ipc \in IrqCritical PROVE gpc \notin Busy
  BY <1>2 DEF RInv, IInv, LockInv, GdbCritical, Busy
<1>3. CASE arm_exception
  <2>1. ipc = "exception" /\ reg' = reg
    BY <1>3 DEF arm_exception, IrqAt
  <2>2. CASE ipc' = "exception_pc" /\ cpsr' = ResetCpsr
    <3>1. gpc \notin Busy /\ gpc' \notin Busy
      BY <1>0, <1>2, <2>1 DEF IrqCritical
    <3>2. /\ AtomicReg = reg /\ AtomicCpsr = cpsr /\ AtomicMem = mem /\ AtomicExc = exc
          /\ AtomicReply = sent
      BY <2>1, <3>1, ViewsHere DEF Views
    <3>3. /\ AtomicReg' = ResetReg(reg) /\ AtomicCpsr' = ResetCpsr /\ AtomicMem' = mem
          /\ AtomicExc' = exc /\ AtomicReply' = sent
      BY <1>0, <2>1, <2>2, <3>1, ViewsThere DEF Views, Busy
    <3> QED
      BY <3>2, <3>3, ResetStep
  <2>3. CASE cpsr' = cpsr /\ ipc' # "exception_pc"
    BY <1>0, <2>1, <2>3, Elsewhere
  <2> QED
    BY <1>3, <2>1, <2>2, <2>3 DEF arm_exception
<1>4. CASE arm_exception_pc
  <2>1. ipc = "exception_pc" /\ cpsr' = cpsr
    BY <1>4 DEF arm_exception_pc, IrqAt
  <2>2. CASE reg' = ResetReg(reg) /\ ipc' = "unlock"
    <3>1. gpc \notin Busy /\ gpc' \notin Busy
      BY <1>0, <1>2, <2>1 DEF IrqCritical
    <3>2. Same
      BY <1>0, <2>1, <2>2, <3>1, ViewsHere, ViewsThere DEF Views, Same, SameCore
    <3> QED
      BY <3>2, StillStep
  <2>3. CASE reg' = reg /\ ipc' = ipc
    BY <1>0, <2>1, <2>3, Elsewhere
  <2> QED
    BY <1>4, <2>2, <2>3 DEF arm_exception_pc
<1> QED
  BY <1>1, <1>3, <1>4 DEF IrqStep

\* Every step of the threads is a step of AtomicMachine, or none.
LEMMA StepRefines == RInv /\ RInv' /\ [Next]_vars => AtomicStep
<1> SUFFICES ASSUME RInv, RInv', [Next]_vars PROVE AtomicStep
  OBVIOUS
<1>1. CASE \/ gdb_lock \/ gdb_unlock \/ cont \/ cont_loop \/ step \/ kill_request
           \/ gdb_accept \/ gdb_eof \/ read_register \/ write_register
  <2>1. gpc \notin Busy /\ gpc' \notin Busy
    BY <1>1 DEF gdb_lock, gdb_unlock, cont, cont_loop, step, kill_request, gdb_accept, gdb_eof,
       read_register, write_register, At, Handling, Busy
  <2>2. UNCHANGED <<reg, cpsr, mem, exc, sent, ipc>>
    BY <1>1 DEF gdb_lock, gdb_unlock, cont, cont_loop, step, kill_request, gdb_accept, gdb_eof,
       read_register, write_register, Inside, core, gdbvars, irqvars
  <2> QED
    BY <2>1, <2>2, Moves
<1>2. CASE cont_peek
  <2>1. gpc = "peek" /\ UNCHANGED <<reg, cpsr, mem, exc, sent, ipc>>
        /\ gpc' \in {"stop", "fetch"}
    BY <1>2 DEF cont_peek, At, Inside, core, irqvars
  <2>2. ipc # "exception_pc"
    BY <2>1, NoReset DEF RInv, GdbCritical
  <2> QED
    BY <2>1, <2>2, Moves, Stops DEF Busy
<1>3. CASE reason
  <2>1. gpc = "handler" /\ gpc' = "stop" /\ UNCHANGED <<reg, cpsr, mem, exc, ipc>>
    BY <1>3 DEF reason, At, Handling, Inside, core, irqvars
  <2>2. ipc # "exception_pc"
    BY <2>1, NoReset DEF RInv, GdbCritical
  <2> QED
    BY <2>1, <2>2, Stops DEF Busy
<1>4. CASE arm_fetch
  BY <1>4, Fetches
<1>5. CASE arm_execute_instruction
  BY <1>5, Executes, StillStep
<1>6. CASE step_reset_cpsr \/ step_reset_pc
  BY <1>6, Resets, StillStep
<1>7. CASE gdb_send_stop_reason
  <2>1. /\ gpc = "stop" /\ gpc' = "unlock" /\ sent' = StopReply(exc)
        /\ UNCHANGED <<reg, cpsr, mem, exc, ipc>>
    BY <1>7 DEF gdb_send_stop_reason, At, Reply, Inside, core, irqvars
  <2>2. ipc # "exception_pc"
    BY <2>1, NoReset DEF RInv, GdbCritical
  <2>3. Same
    BY <2>1, <2>2, ViewsHere, ViewsThere DEF Views, Busy, Settled, Same, SameCore
  <2> QED
    BY <2>3, StillStep
<1>8. CASE query \/ set_thread
  <2>1. gpc = "handler" /\ gpc' = "unlock" /\ UNCHANGED <<reg, cpsr, mem, exc, ipc>>
        /\ sent' \in {OkReply, TextReply, ErrorReply(1)}
    BY <1>8 DEF query, set_thread, At, Handling, Reply, Inside, core, irqvars
  <2> QED
    BY <2>1, Answers DEF Busy
<1>9. CASE read_register_end
  <2>1. /\ gpc = "p" /\ gpc' = "unlock" /\ UNCHANGED <<reg, cpsr, mem, exc, ipc>>
        /\ sent' = [kind |-> "register",
                    data |-> [j \in 0 .. 0 |-> Shown(reg, AtoiOfHex(req.reg))]]
    BY <1>9 DEF read_register_end, At, Reply, Inside, core, irqvars
  <2>2. ipc # "exception_pc" /\ AtoiOfHex(req.reg) \in RegNo
    BY <2>1, NoReset DEF RInv, GdbCritical, IInv, HandlerInv
  <2> QED
    BY <2>1, <2>2, Answers DEF Busy
<1>10. CASE \/ read_general_registers \/ read_general_registers_next
            \/ read_general_registers_end \/ read_memory \/ read_memory_next \/ read_memory_end
  BY <1>10, Dumps
<1>11. CASE \/ write_general_registers \/ write_general_registers_next
            \/ write_general_registers_end \/ write_register_end
  BY <1>11, WritesRegisters
<1>12. CASE write_memory_binary \/ write_memory_binary_next \/ write_memory_binary_end
  BY <1>12, WritesMemory
<1>13. CASE IrqStep
  BY <1>13, Interrupts
<1>14. CASE \E r \in Requests : gdb_packet_analysis(r)
  <2>1. /\ gpc = "scan" /\ gpc' \in {"scan", "lock"} /\ UNCHANGED <<reg, cpsr, mem, exc, ipc>>
        /\ sent' = sent \/ sent' = TextReply
    BY <1>14 DEF gdb_packet_analysis, At, Reply, core, irqvars
  <2> QED
    BY <2>1, Moves, Answers DEF Busy
<1>15. CASE \/ MainStep \/ irq_accept \/ irq_close \/ Terminated \/ UNCHANGED vars
            \/ \E b \in IrqBytes : irq_read(b)
  <2>1. UNCHANGED <<gpc, req, idx, ins, reg, cpsr, mem, exc, sent>>
    BY <1>15
    DEF MainStep, main_join, main_destroy, main_return, irq_accept, irq_close, irq_read,
        NotIrq, Terminated, vars, core, gdbvars
  <2>2. ipc' = ipc \/ (ipc # "exception_pc" /\ ipc' # "exception_pc")
    BY <1>15
    DEF MainStep, main_join, main_destroy, main_return, irq_accept, irq_close, irq_read,
        IrqAt, Terminated, vars, irqvars
  <2> QED
    BY <2>1, <2>2, Elsewhere
<1> QED
  BY <1>1, <1>2, <1>3, <1>4, <1>5, <1>6, <1>7, <1>8, <1>9, <1>10, <1>11, <1>12, <1>13, <1>14,
     <1>15
  DEF Next, GdbStep, Environment

\* The initial states are those of AtomicMachine.
LEMMA InitRefines == Init => Atomic!Init
<1> SUFFICES ASSUME Init PROVE Atomic!Init
  OBVIOUS
<1>1. gpc \notin Busy /\ ipc # "exception_pc"
  BY DEF Init, Busy
<1>2. /\ AtomicReg = reg /\ AtomicCpsr = cpsr /\ AtomicMem = mem /\ AtomicExc = exc
      /\ AtomicReply = sent
  BY <1>1, ViewsHere DEF Views
<1>3. reg = [r \in RegNo |-> 0]
  BY DEF Init, ResetReg
<1> QED
  BY <1>2, <1>3, SameReset, SameReplies DEF Init, Atomic!Init

\* The threads implement AtomicMachine: whatever the listeners, the debugger,
\* the interrupt senders and main do, in whatever order, commands, instructions
\* and resets happen one at a time and an answer describes one instant
\* (gdb_protocol.c:436-439, arm_simulator.c:102-104).
THEOREM OperationsAtomic == Safety => AtomicOperations
<1>1. RInv /\ [Next]_vars => RInv'
  BY StepRInv
<1>2. RInv /\ RInv' /\ [Next]_vars => [Atomic!Next]_(Atomic!vars)
  BY StepRefines DEF AtomicStep
<1> QED
  BY InitRInv, InitRefines, <1>1, <1>2, PTL DEF Safety, AtomicOperations, Atomic!Spec
=============================================================================
