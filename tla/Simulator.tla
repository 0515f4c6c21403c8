------------------------------- MODULE Simulator -------------------------------
(***************************************************************************)
(* The threads of arm_simulator: the gdb listener, which runs a debugger   *)
(* command under the shared mutex; the irq listener, which raises an       *)
(* exception under the same mutex; and main, which waits for the gdb       *)
(* listener and then destroys the processor and ends the process.          *)
(*                                                                         *)
(* A handler touches registers, status word, memory and the trace flag one *)
(* step at a time, so that everything the mutex does not forbid happens.   *)
(* The byte stream under a command is the subject of GdbSession.           *)
(***************************************************************************)
EXTENDS ArmMachine

CONSTANTS
    Memories,    \* contents of the malloc'ed memory at start
    IrqBytes,    \* bytes an irq sender may write
    MaxRequests, \* bound on the commands of one debugging session
    MaxIrqs      \* bound on the bytes received on the irq port

ASSUME SimulatorAssumption ==
    /\ Memories \subseteq [Cell -> Word]
    /\ IrqBytes \subseteq 0 .. 255
    /\ MaxRequests \in Nat /\ MaxIrqs \in Nat

VARIABLES
    reg, cpsr, mem,  \* the arm core and its memory, shared
    lock,            \* shared->lock: "free" or the thread that holds it
    enabled,         \* trace.c: enabled, shared
    proc,            \* "running" or how the process ended
    gpc,             \* gdb listener: where it is
    req,             \* the packet being handled
    idx, packet,     \* loop counter and reply under construction
    brk,             \* cont: `instruction` matches the breakpoint pattern
    ins,             \* arm_execute_instruction: the word fetched
    exc,             \* gdb->target_exception
    sent,            \* the last reply written to the socket
    wopen,           \* the socket is open for writing
    nreq,            \* commands received
    ipc, irq, nirq,  \* irq listener: where it is, the byte read, bytes read
    mpc              \* main: where it is

core == <<reg, cpsr, mem>>
gdbvars == <<req, idx, packet, brk, ins, exc, sent, wopen, nreq>>
irqvars == <<ipc, irq, nirq>>
vars == <<core, lock, enabled, proc, gpc, gdbvars, irqvars, mpc>>

\* Labels inside a handler: the gdb listener holds the mutex.
GdbCritical == {"handler", "cont", "peek", "fetch", "exec", "reset_cpsr",
                "reset_pc", "stop", "g", "p", "P", "m", "G", "X", "unlock"}
GdbLabels == {"accept", "scan", "lock", "ended"} \cup GdbCritical

IrqCritical == {"exception", "exception_pc", "unlock"}
IrqLabels == {"accept", "read", "lock"} \cup IrqCritical

NoRequest == [cmd |-> "none"]

\* The processor is freed; main has not returned yet.
Freed == mpc \in {"memory_destroy", "return"}

Init ==
    /\ reg = ResetReg([r \in RegNo |-> 0])
    /\ cpsr = ResetCpsr
    /\ mem \in Memories
    /\ lock = "free" /\ enabled = TRUE /\ proc = "running"
    /\ gpc = "accept" /\ req = NoRequest /\ idx = 0 /\ packet = NoData
    /\ brk = FALSE /\ ins = 0 /\ exc = NONE /\ sent = Silence
    /\ wopen = TRUE /\ nreq = 0
    /\ ipc = "accept" /\ irq = 0 /\ nirq = 0
    /\ mpc = "join"

-----------------------------------------------------------------------------
(***************************************************************************)
(* The gdb listener                                                        *)
(***************************************************************************)
At(label) == proc = "running" /\ gpc = label

\* The handler the table selects for the current packet is about to run.
Handling(cmd) == At("handler") /\ req.cmd = cmd

Reply(r) == sent' = r

\* What a step leaves alone when it stays inside a handler.
Inside == UNCHANGED <<lock, proc, req, wopen, nreq, irqvars, mpc>>

gdb_accept ==
    /\ At("accept")
    /\ gpc' = "scan"
    /\ UNCHANGED <<core, lock, enabled, proc, gdbvars, irqvars, mpc>>

\* A packet with a good checksum: the acknowledgement is written first, which
\* kills the process when the write side is shut down; a command without
\* handler is answered without the mutex.
gdb_packet_analysis(r) ==
    /\ At("scan") /\ nreq < MaxRequests
    /\ nreq' = nreq + 1
    /\ \/ /\ wopen /\ r.cmd # "other"
          /\ req' = r /\ gpc' = "lock"
          /\ UNCHANGED <<proc, sent>>
       \/ /\ wopen /\ r.cmd = "other"
          /\ Reply(TextReply)
          /\ UNCHANGED <<proc, req, gpc>>
       \/ /\ ~wopen
          /\ proc' = "sigpipe"
          /\ UNCHANGED <<req, gpc, sent>>
    /\ UNCHANGED <<core, lock, enabled, idx, packet, brk, ins, exc, wopen,
                   irqvars, mpc>>

\* End of the stream: the scanner returns and the thread exits; a read that
\* fails ends the process (YY_FATAL_ERROR).
gdb_eof ==
    /\ At("scan")
    /\ \/ gpc' = "ended" /\ UNCHANGED proc
       \/ proc' = "exited" /\ UNCHANGED gpc
    /\ UNCHANGED <<core, lock, enabled, gdbvars, irqvars, mpc>>

gdb_lock ==
    /\ At("lock") /\ lock = "free"
    /\ lock' = "gdb" /\ gpc' = "handler"
    /\ UNCHANGED <<core, enabled, proc, gdbvars, irqvars, mpc>>

gdb_unlock ==
    /\ At("unlock")
    /\ lock' = "free" /\ gpc' = "scan" /\ req' = NoRequest
    /\ UNCHANGED <<core, enabled, proc, idx, packet, brk, ins, exc, sent, wopen,
                   nreq, irqvars, mpc>>

\* 'c': the local `instruction` is not initialised.
cont ==
    /\ Handling("c")
    /\ brk' \in BOOLEAN
    /\ gpc' = "cont"
    /\ UNCHANGED <<core, enabled, idx, packet, ins, exc, sent>> /\ Inside

\* The head of the loop: tracing is off while the next word is read.
cont_loop ==
    /\ At("cont")
    /\ enabled' = FALSE
    /\ gpc' = "peek"
    /\ UNCHANGED <<core, idx, packet, brk, ins, exc, sent>> /\ Inside

\* Mutant: the pc is used as read, without taking 4 off.
PeekedNextBreakpoint ==
    LET a == arm_read_register(reg, PC)
    IN  IF a \in Cell THEN Decode[mem[a]].brk ELSE brk

\* A failed read leaves `instruction` as it was.
PeekedBreakpoint ==
    LET a == FetchAddress(reg)
    IN  IF a \in Cell THEN Decode[mem[a]].brk ELSE brk

cont_peek ==
    /\ At("peek")
    /\ brk' = PeekedBreakpoint
    /\ enabled' = TRUE
    /\ gpc' = IF brk' THEN "stop" ELSE "fetch"
    /\ UNCHANGED <<core, idx, packet, ins, exc, sent>> /\ Inside

step ==
    /\ Handling("s")
    /\ gpc' = "fetch"
    /\ UNCHANGED <<core, enabled, idx, packet, brk, ins, exc, sent>> /\ Inside

\* arm_fetch: the word is read and the pc advanced; a failed read makes
\* arm_execute_instruction return 1, which arm_step raises as a RESET.
arm_fetch ==
    LET a == FetchAddress(reg)
    IN  /\ At("fetch")
        /\ reg' = FetchedReg(reg)
        /\ \/ /\ a \in Cell
              /\ ins' = mem[a] /\ gpc' = "exec"
           \/ /\ a \notin Cell
              /\ gpc' = "reset_cpsr" /\ UNCHANGED ins
        /\ UNCHANGED <<cpsr, mem, enabled, idx, packet, brk, exc, sent>> /\ Inside

AfterStep == IF req.cmd = "c" THEN "cont" ELSE "stop"

\* The handler of the instruction class runs; its result is dropped and
\* arm_step returns 0.  swi 0x123456 ends the process on the spot.
arm_execute_instruction ==
    LET i == Decode[ins]
    IN  /\ At("exec")
        /\ reg' = ExecReg(i, reg)
        /\ cpsr' = ExecCpsr(i, cpsr)
        /\ mem' = ExecMem(i, reg, mem)
        /\ \/ /\ i.op = "exit"
              /\ proc' = "exited" /\ UNCHANGED <<gpc, exc>>
           \/ /\ i.op # "exit"
              /\ exc' = NONE /\ gpc' = AfterStep /\ UNCHANGED proc
        /\ UNCHANGED <<lock, enabled, req, idx, packet, brk, ins, sent, wopen,
                       nreq, irqvars, mpc>>

\* arm_exception(p, RESET) called by arm_step: status word, then pc.
step_reset_cpsr ==
    /\ At("reset_cpsr")
    /\ cpsr' = ResetCpsr
    /\ gpc' = "reset_pc"
    /\ UNCHANGED <<reg, mem, enabled, idx, packet, brk, ins, exc, sent>> /\ Inside

step_reset_pc ==
    /\ At("reset_pc")
    /\ reg' = ResetReg(reg)
    /\ exc' = RESET
    /\ gpc' = AfterStep
    /\ UNCHANGED <<cpsr, mem, enabled, idx, packet, brk, ins, sent>> /\ Inside

gdb_send_stop_reason ==
    /\ At("stop")
    /\ Reply(StopReply(exc))
    /\ gpc' = "unlock"
    /\ UNCHANGED <<core, enabled, idx, packet, brk, ins, exc>> /\ Inside

reason ==
    /\ Handling("?")
    /\ gpc' = "stop"
    /\ UNCHANGED <<core, enabled, idx, packet, brk, ins, exc, sent>> /\ Inside

\* Mutant: the handler leaves without releasing the mutex.
kill_request_locked ==
    /\ Handling("k")
    /\ wopen' = FALSE
    /\ gpc' = "scan"
    /\ UNCHANGED <<core, lock, enabled, proc, req, idx, packet, brk, ins, exc,
                   sent, nreq, irqvars, mpc>>

\* 'k' only shuts the write side down.
kill_request ==
    /\ Handling("k")
    /\ wopen' = FALSE
    /\ gpc' = "unlock"
    /\ UNCHANGED <<core, lock, enabled, proc, req, idx, packet, brk, ins, exc,
                   sent, nreq, irqvars, mpc>>

query ==
    /\ Handling("q")
    /\ Reply(TextReply)
    /\ gpc' = "unlock"
    /\ UNCHANGED <<core, enabled, idx, packet, brk, ins, exc>> /\ Inside

set_thread ==
    /\ Handling("H")
    /\ Reply(IF req.known THEN OkReply ELSE ErrorReply(1))
    /\ gpc' = "unlock"
    /\ UNCHANGED <<core, enabled, idx, packet, brk, ins, exc>> /\ Inside

\* 'g': one register at a time into the reply buffer, tracing off.
read_general_registers ==
    /\ Handling("g")
    /\ enabled' = FALSE
    /\ idx' = 0 /\ packet' = NoData /\ gpc' = "g"
    /\ UNCHANGED <<core, brk, ins, exc, sent>> /\ Inside

read_general_registers_next ==
    /\ At("g") /\ idx <= PC + 1
    /\ packet' = Put(packet, idx, GeneralRegister(reg, cpsr, idx))
    /\ idx' = idx + 1
    /\ UNCHANGED <<core, enabled, brk, ins, exc, sent, gpc>> /\ Inside

read_general_registers_end ==
    /\ At("g") /\ idx > PC + 1
    /\ enabled' = TRUE
    /\ Reply([kind |-> "registers", data |-> packet])
    /\ gpc' = "unlock"
    /\ UNCHANGED <<core, idx, packet, brk, ins, exc>> /\ Inside

\* 'p': the register number is read with atoi and asserted below 16.
read_register ==
    /\ Handling("p")
    /\ \/ /\ AtoiOfHex(req.reg) \notin RegNo
          /\ proc' = "aborted" /\ UNCHANGED <<enabled, gpc>>
       \/ /\ AtoiOfHex(req.reg) \in RegNo
          /\ enabled' = FALSE /\ gpc' = "p" /\ UNCHANGED proc
    /\ UNCHANGED <<core, lock, req, idx, packet, brk, ins, exc, sent, wopen,
                   nreq, irqvars, mpc>>

\* Mutant: tracing is not switched on again.
read_register_end_untraced ==
    /\ At("p")
    /\ Reply([kind |-> "register",
              data |-> [j \in 0 .. 0 |-> Shown(reg, AtoiOfHex(req.reg))]])
    /\ gpc' = "unlock"
    /\ UNCHANGED <<core, enabled, idx, packet, brk, ins, exc>> /\ Inside

read_register_end ==
    /\ At("p")
    /\ enabled' = TRUE
    /\ Reply([kind |-> "register",
              data |-> [j \in 0 .. 0 |-> Shown(reg, AtoiOfHex(req.reg))]])
    /\ gpc' = "unlock"
    /\ UNCHANGED <<core, idx, packet, brk, ins, exc>> /\ Inside

\* 'm': word by word until the count is reached or an address is refused.
read_memory ==
    /\ Handling("m")
    /\ idx' = 0 /\ packet' = NoData /\ gpc' = "m"
    /\ UNCHANGED <<core, enabled, brk, ins, exc, sent>> /\ Inside

Readable == idx < req.len /\ req.addr + 4 * idx < MemSize

read_memory_next ==
    /\ At("m") /\ Readable
    /\ packet' = Put(packet, idx, mem[req.addr + 4 * idx])
    /\ idx' = idx + 1
    /\ UNCHANGED <<core, enabled, brk, ins, exc, sent, gpc>> /\ Inside

read_memory_end ==
    /\ At("m") /\ ~Readable
    /\ Reply([kind |-> "memory", data |-> packet])
    /\ gpc' = "unlock"
    /\ UNCHANGED <<core, enabled, idx, packet, brk, ins, exc>> /\ Inside

\* 'G': r0 .. pc one at a time, then cpsr, tracing off.
write_general_registers ==
    /\ Handling("G")
    /\ enabled' = FALSE
    /\ idx' = 0 /\ gpc' = "G"
    /\ UNCHANGED <<core, packet, brk, ins, exc, sent>> /\ Inside

write_general_registers_next ==
    /\ At("G") /\ idx <= PC
    /\ reg' = [reg EXCEPT ![idx] = req.image[idx]]
    /\ idx' = idx + 1
    /\ UNCHANGED <<cpsr, mem, enabled, packet, brk, ins, exc, sent, gpc>> /\ Inside

write_general_registers_end ==
    /\ At("G") /\ idx > PC
    /\ cpsr' = req.image[PC + 1]
    /\ enabled' = TRUE
    /\ Reply(OkReply)
    /\ gpc' = "unlock"
    /\ UNCHANGED <<reg, mem, idx, packet, brk, ins, exc>> /\ Inside

\* 'P': the register number is hexadecimal here, and asserted below 16.
write_register ==
    /\ Handling("P")
    /\ \/ /\ req.reg \notin RegNo
          /\ proc' = "aborted" /\ UNCHANGED <<enabled, gpc>>
       \/ /\ req.reg \in RegNo
          /\ enabled' = FALSE /\ gpc' = "P" /\ UNCHANGED proc
    /\ UNCHANGED <<core, lock, req, idx, packet, brk, ins, exc, sent, wopen,
                   nreq, irqvars, mpc>>

write_register_end ==
    /\ At("P")
    /\ reg' = [reg EXCEPT ![req.reg] = req.value]
    /\ enabled' = TRUE
    /\ Reply(OkReply)
    /\ gpc' = "unlock"
    /\ UNCHANGED <<cpsr, mem, idx, packet, brk, ins, exc>> /\ Inside

\* 'X': word by word; the first refused address ends the write with E02.
write_memory_binary ==
    /\ Handling("X")
    /\ \/ /\ req.addr < MemSize
          /\ idx' = 0 /\ gpc' = "X" /\ UNCHANGED sent
       \/ /\ req.addr >= MemSize
          /\ Reply(ErrorReply(2)) /\ gpc' = "unlock" /\ UNCHANGED idx
    /\ UNCHANGED <<core, enabled, packet, brk, ins, exc>> /\ Inside

write_memory_binary_next ==
    /\ At("X") /\ idx < req.len
    /\ \/ /\ req.addr + 4 * idx < MemSize
          /\ mem' = [mem EXCEPT ![req.addr + 4 * idx] = req.words[idx]]
          /\ idx' = idx + 1
          /\ UNCHANGED <<sent, gpc>>
       \/ /\ req.addr + 4 * idx >= MemSize
          /\ Reply(ErrorReply(2)) /\ gpc' = "unlock"
          /\ UNCHANGED <<mem, idx>>
    /\ UNCHANGED <<reg, cpsr, enabled, packet, brk, ins, exc>> /\ Inside

write_memory_binary_end ==
    /\ At("X") /\ idx >= req.len
    /\ Reply(OkReply)
    /\ gpc' = "unlock"
    /\ UNCHANGED <<core, enabled, idx, packet, brk, ins, exc>> /\ Inside

\* What the gdb listener does by itself once it has been given a packet.
GdbStep ==
    \/ gdb_lock \/ gdb_unlock
    \/ cont \/ cont_loop \/ cont_peek \/ step
    \/ arm_fetch \/ arm_execute_instruction
    \/ step_reset_cpsr \/ step_reset_pc
    \/ gdb_send_stop_reason \/ reason \/ kill_request \/ query \/ set_thread
    \/ read_general_registers \/ read_general_registers_next
    \/ read_general_registers_end
    \/ read_register \/ read_register_end
    \/ read_memory \/ read_memory_next \/ read_memory_end
    \/ write_general_registers \/ write_general_registers_next
    \/ write_general_registers_end
    \/ write_register \/ write_register_end
    \/ write_memory_binary \/ write_memory_binary_next \/ write_memory_binary_end

-----------------------------------------------------------------------------
(***************************************************************************)
(* The irq listener                                                        *)
(***************************************************************************)
IrqAt(label) == proc = "running" /\ ipc = label

NotIrq == UNCHANGED <<enabled, gpc, gdbvars, mpc>>

\* A sender connects; one sender is served at a time.
irq_accept ==
    /\ IrqAt("accept")
    /\ ipc' = "read"
    /\ UNCHANGED <<core, lock, proc, irq, nirq>> /\ NotIrq

irq_read(b) ==
    /\ IrqAt("read") /\ nirq < MaxIrqs
    /\ irq' = b /\ nirq' = nirq + 1
    /\ ipc' = "lock"
    /\ UNCHANGED <<core, lock, proc>> /\ NotIrq

\* The sender closes, or its connection fails: Read then ends the process.
irq_close ==
    /\ IrqAt("read")
    /\ \/ ipc' = "accept" /\ UNCHANGED proc
       \/ proc' = "exited" /\ UNCHANGED ipc
    /\ UNCHANGED <<core, lock, irq, nirq>> /\ NotIrq

\* Mutant: the exception is raised without waiting for the mutex.
irq_lock_unchecked ==
    /\ IrqAt("lock")
    /\ ipc' = "exception"
    /\ UNCHANGED <<core, lock, proc, irq, nirq>> /\ NotIrq

irq_lock ==
    /\ IrqAt("lock") /\ lock = "free"
    /\ lock' = "irq" /\ ipc' = "exception"
    /\ UNCHANGED <<core, proc, irq, nirq>> /\ NotIrq

\* Mutant: an interrupt that is not supported skips the unlock.
arm_exception_skips_unlock ==
    /\ IrqAt("exception")
    /\ \/ /\ irq # RESET
          /\ ipc' = "read" /\ UNCHANGED cpsr
       \/ /\ irq = RESET
          /\ cpsr' = ResetCpsr /\ ipc' = "exception_pc"
    /\ UNCHANGED <<proc, reg, mem, lock, irq, nirq>> /\ NotIrq

\* arm_exception: only RESET does anything.  The processor may already be
\* freed: a write then lands in the freed block or ends the process.
arm_exception ==
    /\ IrqAt("exception")
    /\ \/ /\ irq # RESET
          /\ ipc' = "unlock" /\ UNCHANGED <<cpsr, proc>>
       \/ /\ irq = RESET
          /\ cpsr' = ResetCpsr /\ ipc' = "exception_pc" /\ UNCHANGED proc
       \/ /\ irq = RESET /\ Freed
          /\ proc' = "crashed" /\ UNCHANGED <<cpsr, ipc>>
    /\ UNCHANGED <<reg, mem, lock, irq, nirq>> /\ NotIrq

arm_exception_pc ==
    /\ IrqAt("exception_pc")
    /\ \/ reg' = ResetReg(reg) /\ ipc' = "unlock" /\ UNCHANGED proc
       \/ Freed /\ proc' = "crashed" /\ UNCHANGED <<reg, ipc>>
    /\ UNCHANGED <<cpsr, mem, lock, irq, nirq>> /\ NotIrq

irq_unlock ==
    /\ IrqAt("unlock")
    /\ lock' = "free" /\ ipc' = "read"
    /\ UNCHANGED <<core, proc, irq, nirq>> /\ NotIrq

IrqStep == irq_lock \/ arm_exception \/ arm_exception_pc \/ irq_unlock

-----------------------------------------------------------------------------
(***************************************************************************)
(* main, and the whole process                                             *)
(***************************************************************************)
MainAt(label) == proc = "running" /\ mpc = label

\* Mutant: main destroys the processor without waiting for the gdb listener.
main_join_none ==
    /\ MainAt("join")
    /\ mpc' = "arm_destroy"
    /\ UNCHANGED <<core, lock, enabled, proc, gpc, gdbvars, irqvars>>

\* Mutant: main also waits for the irq listener, which never ends.
main_join_both ==
    /\ MainAt("join") /\ gpc = "ended" /\ ipc = "ended"
    /\ mpc' = "arm_destroy"
    /\ UNCHANGED <<core, lock, enabled, proc, gpc, gdbvars, irqvars>>

main_join ==
    /\ MainAt("join") /\ gpc = "ended"
    /\ mpc' = "arm_destroy"
    /\ UNCHANGED <<core, lock, enabled, proc, gpc, gdbvars, irqvars>>

main_destroy ==
    /\ \/ MainAt("arm_destroy") /\ mpc' = "memory_destroy"
       \/ MainAt("memory_destroy") /\ mpc' = "return"
    /\ UNCHANGED <<core, lock, enabled, proc, gpc, gdbvars, irqvars>>

main_return ==
    /\ MainAt("return")
    /\ proc' = "exited"
    /\ UNCHANGED <<core, lock, enabled, gpc, gdbvars, irqvars, mpc>>

MainStep == main_join \/ main_destroy \/ main_return

\* The process is gone.
Terminated == proc # "running" /\ UNCHANGED vars

\* What the debugger and the irq senders decide.
Environment ==
    \/ gdb_accept \/ gdb_eof
    \/ \E r \in Requests : gdb_packet_analysis(r)
    \/ irq_accept \/ irq_close
    \/ \E b \in IrqBytes : irq_read(b)

Next == GdbStep \/ IrqStep \/ MainStep \/ Environment \/ Terminated

Safety == Init /\ [][Next]_vars

\* Each thread is scheduled whenever it can run; nothing is assumed of the
\* debugger and of the irq senders, nor of the order in which the mutex is
\* granted.
Fairness == WF_vars(GdbStep) /\ WF_vars(IrqStep) /\ WF_vars(MainStep)

Spec == Safety /\ Fairness

-----------------------------------------------------------------------------
(***************************************************************************)
(* Type invariant                                                          *)
(***************************************************************************)
Ended == {"exited", "aborted", "sigpipe", "crashed"}

\* Every variable stays in its type: whatever the pc, the addresses and the
\* register numbers are, registers and memory keep their size and hold words.
TypeOK ==
    /\ reg \in [RegNo -> Word] /\ cpsr \in Word /\ mem \in [Cell -> Word]
    /\ lock \in {"free", "gdb", "irq"} /\ enabled \in BOOLEAN
    /\ proc \in {"running"} \cup Ended
    /\ gpc \in GdbLabels
    /\ req \in Requests \cup {NoRequest}
    /\ idx \in Nat
    /\ brk \in BOOLEAN /\ ins \in Word /\ exc \in {NONE, RESET}
    /\ wopen \in BOOLEAN /\ nreq \in 0 .. MaxRequests
    /\ ipc \in IrqLabels /\ irq \in 0 .. 255 /\ nirq \in 0 .. MaxIrqs
    /\ mpc \in {"join", "arm_destroy", "memory_destroy", "return"}

-----------------------------------------------------------------------------
(***************************************************************************)
(* The simulator implements AtomicMachine: the effect of a command, of an  *)
(* instruction or of a reset is counted at its first write.  Pending       *)
(* writes are those the thread that holds the mutex has still to make.     *)
(***************************************************************************)
Resetting == gpc \in {"reset_cpsr", "reset_pc"}

Executing == gpc = "exec" /\ Decode[ins].op # "exit"

AtomicReg ==
    IF gpc = "exec" THEN ExecReg(Decode[ins], reg)
    ELSE IF Resetting \/ ipc = "exception_pc" THEN ResetReg(reg)
    ELSE IF gpc = "G" THEN WriteRestReg(reg, req.image, idx)
    ELSE reg

AtomicCpsr ==
    IF gpc = "exec" THEN ExecCpsr(Decode[ins], cpsr)
    ELSE IF Resetting THEN ResetCpsr
    ELSE IF gpc = "G" THEN req.image[PC + 1]
    ELSE cpsr

AtomicMem ==
    IF gpc = "exec" THEN ExecMem(Decode[ins], reg, mem)
    ELSE IF gpc = "X" THEN WriteRest(mem, req.addr, req.len, req.words, idx)
    ELSE mem

AtomicExc == IF Executing THEN NONE ELSE IF Resetting THEN RESET ELSE exc

AtomicReply ==
    IF gpc = "stop" THEN StopReply(exc)
    ELSE IF req.cmd = "s" /\ (Executing \/ Resetting) THEN StopReply(AtomicExc)
    ELSE IF gpc = "g"
         THEN [kind |-> "registers", data |-> GeneralRegisters(reg, cpsr)]
    ELSE IF gpc = "m"
         THEN [kind |-> "memory", data |-> MemoryWords(mem, req.addr, req.len)]
    ELSE IF gpc = "G" THEN OkReply
    ELSE IF gpc = "X"
         THEN (IF WriteFits(req.addr, req.len) THEN OkReply ELSE ErrorReply(2))
    ELSE sent

Atomic == INSTANCE AtomicMachine WITH
    reg <- AtomicReg, cpsr <- AtomicCpsr, mem <- AtomicMem,
    exc <- AtomicExc, reply <- AtomicReply

\* Commands, instructions and resets are atomic with respect to each other
\* and an answer describes one instant: no register dump mixes values from
\* before and after a reset, no reset is half applied under a command, and
\* an answer never differs from what the command did (gdb_protocol.c:436-439,
\* arm_simulator.c:102-104).
AtomicOperations == Atomic!Spec

-----------------------------------------------------------------------------
(***************************************************************************)
(* Safety                                                                  *)
(***************************************************************************)
\* 'c' never executes a breakpoint: the word cont looked at is the word
\* arm_step fetches and executes (gdb_protocol.c:164-186).
BreakpointNotExecuted ==
    gpc = "exec" /\ req.cmd = "c" => ~Decode[ins].brk

\* Tracing, which handlers switch off for their own accesses, is on whenever
\* another thread may be accessing the processor, and on while instructions
\* are executed (trace_disable/trace_enable pairs of gdb_protocol.c).
TracingRestored ==
    lock # "gdb" \/ gpc \in {"fetch", "exec", "reset_cpsr", "reset_pc"} => enabled

\* The gdb listener never uses a freed processor, and the mutex is not left
\* held by it when it ends (arm_simulator.c:81-84, 213-215).
NoDebuggerAfterFree == mpc # "join" => gpc = "ended" /\ lock # "gdb"

-----------------------------------------------------------------------------
(***************************************************************************)
(* Liveness                                                                *)
(***************************************************************************)
ContinuingForever == <>[](lock = "gdb" /\ req.cmd = "c" /\ proc = "running")

\* An interrupt read from the port is eventually raised; the only thing that
\* can keep it waiting for ever is a continue command that never stops.
IrqServedUnlessContinuing ==
    \/ ContinuingForever
    \/ IrqAt("lock") ~> ~IrqAt("lock")

\* A command that was acknowledged is finished and the listener reads on,
\* unless it is a continue that never stops or the process ends.
CommandCompletes ==
    \/ ContinuingForever
    \/ At("lock") ~> (gpc = "scan" \/ proc # "running")

\* Once the debugger has closed its connection the process ends, whatever
\* the irq listener is doing.
EndsAfterDebugger == gpc = "ended" ~> proc # "running"

-----------------------------------------------------------------------------
(***************************************************************************)
(* What comments, assertions and texts of the program say of it, and the   *)
(* code does not do                                                        *)
(***************************************************************************)
\* 'c' is "a loop that waits for this instruction", the breakpoint
\* (gdb_protocol.c:156-160): when it stops, the next word is a breakpoint.
StopsAtBreakpoint ==
    gpc = "stop" /\ req.cmd = "c" =>
        /\ FetchAddress(reg) \in Cell
        /\ Decode[mem[FetchAddress(reg)]].brk

\* The simulator "can receive interrupts" (arm_simulator.c:118-119): an
\* interrupt read from the port is raised while a program runs.
IrqServed == IrqAt("lock") ~> ~IrqAt("lock")

\* The assertions on register numbers hold (gdb_protocol.c:258, 363).
AssertionsHold == proc # "aborted"

\* "Handling of exception raised in target" (gdb_protocol.c:138-143): stepping
\* an instruction whose handler returns UNDEFINED_INSTRUCTION is reported as
\* signal 4.
UndefinedReported ==
    gpc = "unlock" /\ req.cmd = "s" /\ exc = NONE /\ Decode[ins].op = "undef" =>
        sent = StopReply(UNDEFINED_INSTRUCTION)
=============================================================================
