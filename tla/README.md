# Verification of the ARM simulator

The repository is an ARMv5 instruction set simulator written in C. It acts as a
gdb server on one port, receives interrupts on a second one, and runs programs
that gdb loads into its memory. This directory holds TLA+ models of it, the TLC
configurations that check them on small instances, and proofs checked by TLAPS.

- [The system](#the-system)
- [Modules and their correspondence with the code](#modules-and-their-correspondence-with-the-code)
- [Runs](#runs)
- [Bounds](#bounds)
- [Fairness](#fairness)
- [Disagreements between the code and its texts](#disagreements-between-the-code-and-its-texts)
- [Proofs](#proofs)
- [What is not modelled](#what-is-not-modelled)
- [Plan](#plan)

To repeat a run: `tlc -workers 2 -config X.cfg M`. To check a proof module:
`tlapm M.tla`, with M one of `SimulatorProofs`, `GdbSessionProofs`, `ScannerProofs`,
`MemoryProofs`, `InstructionProofs`, `LoadStoreProofs`, `StartupProofs`, `TraceProofs`.

## The system

The process has three threads. `main` reads the options, creates the processor,
starts the other two threads, waits for the gdb listener only, destroys the
processor and the memory, and returns. Each listener creates its own server
socket; the two share the processor and one mutex.

| Component | State | Operations | What makes it correct |
|---|---|---|---|
| gdb listener and command handlers (`arm_simulator.c`, `gdb_protocol.c`) | packet, answer, `target_exception`, write side of the socket | one handler per letter: `c s k q g G p P m X ? H` | a command is atomic; its answer describes one instant; a continue never executes a breakpoint; the mutex and the trace flag are always given back; every acknowledged command finishes |
| irq listener (`arm_simulator.c`, `arm_exception.c`) | byte read | accept, read, raise, close | a reset is atomic although it is two writes; a received interrupt is raised |
| `main` (`arm_simulator.c`, socket wrappers of `csapp.c`) | ports, trace file | options, initialisation, start, join, destroy, return | both servers are reachable on the ports printed, or the process ends; the processor outlives the debugger; the process ends after gdb has gone |
| processor step (`arm_core.c`, `arm_instruction.c`) | 16 registers, cpsr | fetch, dispatch, reset when the fetch fails | the pc wraps; a failed fetch resets |
| scanner (`scanner.c`, generated from `scanner.l`) | buffer of bytes, automaton state, position to back up to | match, back up, refill, end of file | the tokens are the longest matches however reads cut the stream; no complete packet waits for more bytes; it ends |
| packet stream (`scanner.l`, `gdb_protocol.c`) | buffer of invalid characters, last packet sent | token by token: `+`, `-`, packet, invalid byte, end of file | with damaged packets each command is carried out once and answered; the buffer never overflows; no SIGPIPE in a session that ends cleanly |
| memory (`memory.c`, `util.h`) | bytes, byte order of the target | read and write 1, 2 or 4 bytes | never outside the allocation; the byte order of the host cannot be observed |
| data processing (`arm_data_processing.c`, `util.c`) | flags | 16 operations, immediate and shifted operands | one destination; carry and borrow chains; unsigned conditions |
| load and store (`arm_load_store.c`) | – | one register, half word, several registers; 4 address modes | what is pushed is popped; a failed condition does nothing |
| branch, swi, coprocessor (`arm_branch_other.c`) | – | B, BL, exit | a call returns behind itself; a counted loop ends |
| trace (`trace.c`, `trace_location.h`) | flags, enabled flag, location stack | push, pop, print, enable, disable | the flag is on whenever somebody else accesses the processor; the stack is balanced; a line shows its own position; debugger accesses leave no line |
| debug file table (`debug.c`, `debug.h`) | sorted array of names, cached flags | add, bisect | exactly the added names are found; a cached answer is that of the complete table |
| `send_irq` (`send_irq.c`) | – | look up a name, connect, send one byte | the interrupt received is the one named |

The components interact through calls inside one thread (scanner → packet
analysis → handler → processor step → memory), and between threads through the
shared processor and the global trace flag, both under the mutex. gdb and the
interrupt senders are outside; they decide when bytes arrive and when
connections close.

The hard behaviours: the two listeners interleave; a reset, a register dump, a
register write and a memory write are several accesses each; `cont` looks at a
word and fetches it later; the mutex is held for a whole continue; the processor
is freed while the irq listener is still alive; packets are damaged, answered with
`-` and repeated; complaints about stray bytes are delayed until the next token; a
packet reaches the scanner in pieces, longer than its buffer, or with bytes that
look like the end of the buffer; positions are pushed and popped around accesses
in an order the compiler chooses; two threads bind ports while interrupts already
arrive; arithmetic at the ends of the word range. `PROJECT.json` lists these as
hazards, each at the line where it bites, with the properties aimed at it.

## Modules and their correspondence with the code

**`ArmMachine`** (no variables) holds what an instruction, a reset and a command
do to registers, status word and memory. A memory word is decoded by a constant
function `Decode`, which says of a word whether it carries gdb's breakpoint
pattern and which of a few effects it has: write a register (a branch when it is
the pc), write cpsr, store, nothing, undefined, exit. This is all the rest of
the system can tell about an instruction. `arm_read_register` keeps the two
oddities of the code: the pc reads four bytes ahead with bit 1 cleared, and all
of it modulo the word size.

**`AtomicMachine`** is the abstract specification of the whole simulator: each
instruction, reset and command is one step, and an answer describes the state
in which it was decided.

**`Simulator`** models the threads. `gpc`, `ipc` and `mpc` say where each is;
an action is the code between two accesses to shared state, so that everything
the mutex does not forbid can happen between them. `lock` is `shared->lock`,
`enabled` the flag of `trace.c`, `brk` the outcome of the test on the local
`instruction` of `cont`, `ins` the word fetched, `exc` the `target_exception`,
`sent` the last answer, `proc` how the process ended (`exited`, `aborted` by an
assertion, `sigpipe`, `crashed`). Handlers are the actions named after their
functions, with `_next` and `_end` for the turns and the end of their loops.
Five points are modelled as the code has them:
- `instruction` in `cont` is uninitialised and the result of the read is
  ignored, so `brk` starts nondeterministically and survives a failed read;
- `arm_execute_instruction` drops what the instruction handlers return; only a
  failed fetch is seen, and `arm_step` turns it into a RESET;
- `p` reads its register number with `atoi` although gdb sends hexadecimal
  (`AtoiOfHex`), `P` reads it as hexadecimal;
- a read of gdb's connection that fails ends the process from inside the scanner
  (`gdb_eof`);
- after `main` freed the processor, a write by the irq listener either lands in
  the freed block or kills the process.

Words are read and written whole: tearing of a 32 bit access is not modelled,
and the mutex makes it irrelevant until the processor is freed.

**`MCSimulator`** gives `Simulator` words of 4 bits, three memory words, the
registers r0 and pc, and programs that reach a breakpoint, leave memory, exit,
overwrite themselves, loop for ever, or run an unknown instruction.

**`Rpc`** is the abstract debugging session: commands issued one at a time, each
executed once, each answered by its own answer. Every stray byte may cost one
repetition; without one there is none.

**`Scanner`** models the generated scanner byte by byte: the automaton of its
tables, with the default states walked as the code walks them (`yy_trans`), the
buffer with its two end marks, the `'\0'` kept in `yy_hold_char`, backing up to
the last accepting state, `yy_get_previous_state` after a refill, NULs that are
text, growth by doubling, `YY_INPUT` returning any part of what is under way,
end of file in the middle of a token, and what is allocated and freed. Its labels
(`pc`) are those of `yylex`. A read failure ends the whole process. The reference
the tokens are compared with, `TokensOf`, is written from the patterns of
`scanner.l` alone and knows nothing of states or buffers. **`MCScanner`** makes
streams of pieces that start, break off, continue and end packets.

**`GdbSession`** models the stream of tokens below a command. A packet is its number,
whether its checksum is good and whether it is a `k`; the scanner's tokens are
the actions `scan_*`; `len` counts the characters kept in the error buffer,
`last` is the packet kept for retransmission. `run_command` is the return from a
handler, with `kill_request` for a `k` and `gdb_send_buffer` for every other
command; the commands in `Continues` are a `c`, whose handler need not return
(`Continuing`). `handle_error` sends its single
`-` at the moment the code does, in front of the answer to the *next* token. gdb
is external, modelled by what the protocol obliges it to do: wait for `+`,
repeat on `-` or after silence, acknowledge answers, ask for a damaged answer
again. `rio_writen` and `Rio_writen` are the write loop of `csapp.c` and its exit.

**`TargetMemory`** is the abstract memory of the simulated machine, **`Memory`**
is `memory.c`: it loads and stores integers of the host and reverses their
bytes when host and target disagree. Values are functions from byte positions to
bytes, so the reversal is exact. `write_uint32` and `read_uint32` are the two
conversions of `gdb_protocol.c` between a register and its hexadecimal digits.
**`MCMemory`** instantiates it.

**`Util`** holds the words of `Bits` bits and the operations of `util.c`. A shift
whose count C leaves undefined yields a *set* of results: on the hosts the code
is built for, the count is taken modulo the width, or the result is 0. So the
operations built on them return sets of outcomes too. Powers of two and sums are
recursive functions, and `&`, `|` and `^^` act on the bits of a word, in a form that
can be both evaluated and reasoned about.

**`DataProcessing`** has one operator for each of the 16 operations and their
dispatch, with the flags computed by the tests the code uses. **`Branch`** adds
B, BL and swi and executes `Examples/example1.s` (load a counter, call a
subroutine in a loop, decrement, branch back, exit). **`LoadStore`** adds the
three kinds of transfers on a little endian host and target.
**`MCDataProcessing`** and **`MCLoadStore`** instantiate them.

**`Trace`** models `trace.c` below the commands. A command, an interrupt and
`arm_create` are the sequences of calls they make into `trace.c`, taken one at a
time by their thread: pushing a position, the traced access, popping it, and the
enable and disable of the handlers. A macro of `trace_location.h` that adds the
result of `trace_end_location` to that of the access leaves the order of the two
to the compiler, so `Added` has both; the register writes are sequences of
commas and have one. `arm_core.c` includes `no_trace_location.h`, so its own
accesses (in `arm_print_state`, `arm_fetch`) push nothing.

**`DebugFiles`** is the insertion and the bisection of `debug.c`, names being
numbers in `strcmp` order. **`Startup`** composes it with what happens before the
threads of `Simulator` run: the options of `main` one at a time, `gdb_init` with
the first debug message, the trace file and `arm_create`, the two threads that
bind and listen, and one run of `send_irq` that may come at any moment. The
wrappers of `csapp.c` end the process when a call fails (`unix_error`). What the
kernel does with a port (`Bindable`) is external. `cached` is the flag of
`CACHE_DEBUG_FLAG`, a build option `Makefile.am` has commented out; without it
there is no cached flag and nothing to show.

**`SimulatorProofs`**, **`GdbSessionProofs`**, **`ScannerProofs`**,
**`MemoryProofs`**, **`StartupProofs`** and **`TraceProofs`** hold the theorems
about the module they are named after, **`InstructionProofs`** those about
`DataProcessing` and `Branch`, **`LoadStoreProofs`** those about `LoadStore`.

Definitions commented `Mutant:` are plausible faults of the definition that
follows; nothing uses them. Putting one in the place of the definition makes TLC
refute the property `PROJECT.json` pairs it with, which shows that the property
depends on the code.

## Runs

Distinct states in brackets.

- **threads** [314,140]. All commands, two of them per session, two interrupts,
  every interleaving. `TypeOK`; `BreakpointNotExecuted` (nothing comes between the
  word `cont` tests and the word it executes); `TracingRestored`;
  `NoDebuggerAfterFree`; `AtomicOperations`, the refinement of `AtomicMachine`, in
  which an operation takes effect at its first write and the writes still to come
  are added to the state; `IrqServedUnlessContinuing`, `CommandCompletes`,
  `EndsAfterDebugger`: a continue that never stops is the only thing that can
  delay an interrupt or a command for ever.
- **session** [139,960]. Packets damaged in both directions, stray bytes (gdb's
  interrupt character, a packet that lost its frame) and retries after silence,
  together. `ExactlyOnce`, the refinement of `Rpc`: without a stray byte every
  command is carried out once and gets its own answer; each stray byte can cost
  one repetition, since its delayed `-` makes gdb repeat a packet that was
  accepted. `CommandAnswered` and `ScannerEnds`, unless a continue runs for ever:
  then its command is never answered and the end of the connection never seen.
  `ErrorBufferFits`, `NoSigpipeInCleanSession`.
- **scanner** [299,088]. `LongestMatches` (the tokens are those of `scanner.l`,
  bytes unchanged, however the stream is cut), `NoTokenHeldBack` (before a read
  every token the bytes decide has been handled), `ScannerTerminates` (of the
  scanner itself: the action of a rule is one step here, and whether a command
  returns is a matter for the two runs above), `TypeOK`
  (positions stay inside text and marks, and what was allocated is freed at the
  end). One oddity shows up in `Undecided`: a NUL outside a packet waits for the
  byte after it. It is an invalid character, complained about with the next token
  anyway.
- **memory** [17,060]. `InBounds`, `HostIndependent` (the refinement of
  `TargetMemory` for both byte orders of host and target),
  `RegistersLookLikeMemory` (gdb sees a word in a register as it sees it in
  memory).
- **data_processing** [8,192]. Every operation, condition, operand kind, register
  value and flag: `OnlyDestination`, `UnsignedOrder`, `BorrowChain`, `CarryChain`.
  Two exclusions are the code's: after a comparison with 0 the carry
  stays clear, and RSC is dispatched with exchanged arguments.
- **loop_program** [16,491]. `LoopCount`, `CallReturns`, `LoopEnds`.
- **load_store** [34,174]. `StackDiscipline` (the four ways to push against the
  four ways to pop), `PushPopOne`, `FailedConditionDoesNothing` (except
  post-indexed half words, see below).
- **trace** [1,338,246]. `BalancedBetweenOperations` (two positions at most; the
  stack is empty and tracing on whenever nobody holds the mutex), `OwnPosition` (a
  line shows the position of its own access or, where the compiler popped first,
  none), `HandlersInvisible`, `InstructionsApart` (the cycles cut the trace into
  instructions: a new cycle begins with the fetch of the next instruction, none is
  left out, past the wrap of the counter too, and no line of the other thread
  falls inside one). The lines of the reset in `arm_create` show a counter that was
  never set; the property starts with the line after them.
- **startup** [649,352]. `FindsExactlyTheAdded`, `NoEntryLost` up to the moment the
  debug table overflows, an outcome of the model after which nothing is claimed;
  `CachedFlagRight`; `ServersReachable` (two servers asked for
  the same port never both listen: the process ends); `InterruptIsTheNamed`;
  `ComesUp`.
- **continue_stops_anywhere**, **irq_waits_for_continue**, **signed_comparison**:
  refuted, see [below](#disagreements-between-the-code-and-its-texts).

`CHECK_DEADLOCK FALSE` appears only where the model stops at a bound on the
number of calls (`memory`, `load_store`). The threads and the session end in
explicit terminal states, and any other state without a step is an error.

## Bounds

- Threads: two commands suffice for every pair of a command and its successor
  (the trace flag, `exc`, the mutex and the write side carry over), two
  interrupts for a reset and an ignored one in either order. Word sizes only
  matter through wrap-around, the edge of memory and bit 1 of the pc; 4 bit
  words, 12 bytes and targets 4, 7, 8 and 12 have all three.
- Session: three commands with two faults, three stray bytes and three retries
  reach a damaged request, a damaged answer, a fault repeated, and a full error
  buffer (`MAX_ERROR_SIZE` 3). The second command is a continue, between two
  that return.
- Scanner: all streams of up to four pieces and two long ones, cut by reads of 1
  to 3 bytes. A buffer of 3 bytes, grown from there, is smaller than a packet, so
  that tokens are moved, cut and outgrow it; the sizes of the code, 16384 and
  8192, only make these cases rare.
- Memory: two calls are a write and a read of any two widths at the same or
  overlapping addresses; the first, last, misaligned and outside addresses occur.
- Arithmetic: the flag tests treat all bits but the sign alike, so words of 3
  bits with bytes of 2 have every combination of signs, carries and boundaries.
  Load and store needs four bytes per word, hence 4 bits and bytes of one bit.
  `Branch` needs a word 8 bits wider than the offset, hence 12 and 4.
- Loop program: calls are counted up to one more than a loop can make (`Counted`).
- Trace: three commands, two resets and two turns of continue: every pair of an
  operation and its successor, and a continue that loops. Two register accesses
  stand for the loops over 16. The cycle counter wraps at `CycleMod` = 3 instead
  of 2^32, so that it does wrap; the proof takes any modulus from 2 on.
- Startup: four options, so that ports, trace options and debug names meet in
  every order; a debug table of three entries and four names, which overflows;
  ports modulo 3, so that both servers may ask for the same one, for any, or
  for a number that wraps.

## Fairness

`Simulator` assumes weak fairness of each thread's own steps: a thread that can
run is eventually scheduled, as with any POSIX thread. Nothing is assumed of
gdb, of the senders or of the order in which the mutex is granted. Since a
session has a bounded number of commands, liveness is shown for sessions that
do not feed commands for ever: an unfair mutex could let an endless stream of
commands starve the irq listener, and the code has nothing against it.
`GdbSession` assumes weak fairness of gdb's reading and of the scanner, except while
it is inside a continue: the loop of `cont` (`gdb_protocol.c:164-186`) need not end,
so nothing obliges that step to be taken, and the two liveness properties except the
behaviours that stay in it (`ContinuingForever`). The other handlers have bounded
loops, and `Simulator` shows that they return (`CommandCompletes`).
`Scanner` assumes that the scanner goes on and that gdb, after its last byte,
closes the connection or the read fails. `Startup` assumes that the command line
ends and that `main` and the two server threads are scheduled.
`Branch` assumes that the next instruction is executed.

## Disagreements between the code and its texts

Three are runs expected to be violated:
- `StopsAtBreakpoint` (`gdb_protocol.c:156-160`): a continue issued while the pc
  is outside memory may stop at once, since the word it tests was never read.
- `IrqServed` (`arm_simulator.c:118-119`): the mutex is held for the whole of a
  continue, so an interrupt never reaches a program that runs without breakpoint.
- `SignedOrder` (repository `README.md:3-5`): `arm_cmp` computes V by the rule of
  an addition, so GE and LT do not order signed operands.

Others met while modelling are stated as formulas at the end of their modules.
TLC refutes each when it replaces the properties of the configuration named:
- `UndefinedReported` (`gdb_protocol.c:138-143`, MCSimulator): no undefined
  instruction is ever reported, because `arm_instruction.c` drops the results.
- `AssertionsHold` (`gdb_protocol.c:257-258`, MCSimulator with `PC = 15` and
  `Requests <- NumberRequests`): cpsr has number 25 in the answer to `g`; asked
  for alone it is sent as `19`, which `atoi` reads as 19, and the assertion fails.
- `AddCarry` (repository `README.md:3-5`, MCDataProcessing): ADDS takes its flags
  from `arm_cmp` (`arm_data_processing.c:90`), so C is that of a subtraction.
- `RotatedImmediate` (`arm_data_processing.c:298, 309`, MCDataProcessing): the
  immediate is rotated inside its 8 bits.
- `ForwardBranch` (`arm_branch_other.c:33`, Branch): the sign extension mask of a
  forward branch is -1, so condition and opcode bits stay in the offset.
- `HalfPostIndex` (`arm_load_store.c:219`, MCLoadStore): the base moves by the
  number of the offset register, or the low nibble of the immediate, never down,
  and whatever the condition.
- `ReverseSubtract` (`arm_data_processing.c:236`, MCDataProcessing): RSB computes
  Rn - operand.
- `LoadMultiplePc` (`arm_load_store.c:178`, MCLoadStore): the pc gets
  `value && 0xFFFFFFFE`, which is 0 or 1.

## Proofs

Every theorem holds for every value of the constants that satisfies the named
assumptions of the modules that declare them.

| Module | Theorem | Property |
|---|---|---|
| `SimulatorProofs` | `TypeCorrect`, `NeverExecutesBreakpoint`, `TracingIsRestored`, `DebuggerGoneBeforeFree` | `TypeOK`, `BreakpointNotExecuted`, `TracingRestored`, `NoDebuggerAfterFree` |
| | `OperationsAtomic` | `AtomicOperations`: the threads implement `AtomicMachine` |
| `MemoryProofs` | `AccessesInBounds`, `RegisterDigits`, `HostHidden` | `InBounds`, `RegistersLookLikeMemory`, `HostIndependent`: `Memory` implements `TargetMemory` |
| `GdbSessionProofs` | `ErrorsFit`, `NoSigpipe` | `ErrorBufferFits`, `NoSigpipeInCleanSession` |
| | `CommandsExactlyOnce` | `ExactlyOnce`: the packet stream implements `Rpc` |
| `ScannerProofs` | `LongestMatch`, `NoneHeldBack`, `ScannerTypes` | `LongestMatches`, `NoTokenHeldBack`, `TypeOK` |
| `InstructionProofs` | `MachineTypes`, `DestinationOnly`, `UnsignedOrdered`, `Subtraction`, `Addition` | registers and flags keep their types; `OnlyDestination`, `UnsignedOrder`, `BorrowChain`, `CarryChain` |
| | `LoopCounted`, `CallsReturn` | `LoopCount`, `CallReturns` |
| `LoadStoreProofs` | `FullTypes`, `FailedTransfers`, `OneRegisterPopped`, `ListPopped` | registers and memory keep their types; `FailedConditionDoesNothing`, `PushPopOne`, `StackDiscipline` |
| `StartupProofs` | `TableSearched`, `EntriesKept`, `FlagRight`, `ServersFound`, `RightInterrupt` | `FindsExactlyTheAdded`, `NoEntryLost`, `CachedFlagRight`, `ServersReachable`, `InterruptIsTheNamed` |
| `TraceProofs` | `Balanced`, `PositionOwn`, `HandlersUnseen`, `InstructionsTold` | `BalancedBetweenOperations`, `OwnPosition`, `HandlersInvisible`, `InstructionsApart` |

**Threads.** The assumptions are `MachineAssumption` (sizes are multiples of 4,
memory is smaller than the address space, `Decode` is total),
`RequestAssumption` (a request has the fields its command needs) and
`SimulatorAssumption` (types). None of the properties is inductive by itself. The
inductive invariant `IInv` adds to them
- `LockInv`: a thread is at a label inside its critical section exactly when it
  holds the mutex. Without it a reset could move the pc between peek and fetch.
- `HandlerInv`: the label agrees with the command being handled, and the register
  number or address in use is one the handler has tested. It gives the fields of
  the request their types when a handler uses them, and tells `cont` from `step`
  at `fetch`.
- `PeekInv`: when a continue is about to fetch, the word at the fetch address is
  not a breakpoint, or is outside memory. It carries the test of `cont` over to
  `arm_fetch`.
- `TraceInv`: the flag is off only at the five labels between a disable and its
  enable.

`StepIInv` has one case per action. Arithmetic on the pc is isolated in lemmas
(`ModWord`, `ClearBit1Word`, `FetchTypes`, `ExecTypes`).

**Threads implement the atomic machine.** The refinement adds `DumpInv` (the part
of a register or memory dump already in the packet is what the processor holds
now: the mutex has kept everybody out since the dump began) and `WriteInv` (how far
a `G` or an `X` has come, and that the reset of a failed fetch has written cpsr).
`Views` lists what `AtomicMachine` sees at each label. A step of a thread then
compares two lines of it: an instruction counts at its fetch, a reset at its
first write, a dump or a write when its handler begins, and every later access of
the handler is a stutter. That a partial `G` or `X` completed by the pending
writes stays the same is `RestReg`, `RestMem` and `RestMemDone`.

**Memory.** `memory.c` compares only the first byte of an access with the size, and
`AlignedAccessFits` shows that the alignment test does the rest. 4 is needed: with
a size of 6, a word at 4 would pass both tests. For `RegisterDigits` and
`HostHidden` the orders of host and target never change (`OrdersKept`); for each
of their four combinations the reversal and the walk of `write_uint32` undo what
the host's load did.

**Packet stream.** `BufferInv` is the inductive form of `ErrorBufferFits`: the test
in `add_character_to_error` leaves room for one character and the terminator.
`NoSigpipe` follows a session through its phases (`CleanInv`): as long as no stray
byte was sent and gdb did not leave in the middle, no invalid character is kept and
the session is in one of nine phases, each of which lists the messages under way;
once gdb is gone none of them makes the simulator write. `CommandsExactlyOnce`
counts. `CreditInv`: the commands carried out, and those that what is under way
may still have carried out, are covered by the ones issued plus the stray bytes,
with one to spare while gdb waits for a `+` or `-` that nothing under way will
give, which pays for the packet it then repeats. `SeenInv`: the answers gdb holds,
those under way and the one kept for retransmission are no more than the commands
carried out. `TakenInv`: gdb has no answer to a command it still waits for or has
not issued. `SessionInv` is their conjunction with the types and `CleanInv`.

**Scanner.** For every stream of bytes, every way the reads cut it, every buffer
size and every read size (`ScannerAssumption`: both are positive). Three things are
put between the tables and the patterns. `Row` is what the tables encode, with the
default states worked out (`Tables`). `Reached(x, s, i, j)` is the text between i
and j that makes state s the one the automaton is in (`ReachedStep` and
`ReachedBack`: exactly this text). `At` turns a position of the buffer into one of
the stream. The reference `TokensOf` is a recursion on the stream: that it has
a solution is shown by extending partial ones, and what it does by least
counterexamples, since induction over data cannot be used here. `Final` says when
the token that starts at i is decided by the bytes read so far, `Interrupted` that
it is not, and `Upto` that the rules already run are those of all tokens before i,
each of which was final. The inductive invariant has, besides types and
allocations,
- `BufferInv`: the buffer holds the last bytes read and the two marks, once
  the `'\0'` after `yytext` is undone;
- `MatchInv`: the state is reached by the text matched so far, and the state to back
  up to is the one after the `$`; a match that stopped at a NUL stopped at a mark or
  at a NUL of the text. Without it nothing could be said of what `find_action` takes;
- `TokensInv`: the rules run are those of the reference up to the text being
  matched. The longest match is only correct because a token is never cut by the end
  of the buffer: `Interrupted` at `read` carries that over a refill.

**Instruction set.** The assumptions: a word has more than two bits and a byte at
least one (`UtilAssumption`), r0, r1 and the pc are different registers and the
instructions of a program have the fields the decoder extracts
(`InstructionAssumption`); a branch offset has more than three bits and a word eight
more (`BranchAssumption`; 24 and 32 in the code); a word is four bytes and memory is
smaller than the address space and a multiple of 4 (`LoadStoreAssumption`). `Pow2`
and `Total` are recursive functions; `Pow2Equation` and `SumsEquation` show that
they exist, `Pow2Sum`, `DigitsBound` and `DigitsValue` what sums of digits are worth.
From these, every shift, bitwise operation and load is a word, so that `Typed` and
`FullTyped` are inductive by themselves, whatever outcome an undefined shift has.
The arithmetic properties then follow in each typed state: `CmpFlags` and `CmnFlags`
say what number the carry is, and `DoubleWord` that low and high words computed apart
with it make the number computed at once. For the loop, `OrMask` gives the sum that
the `|` of the sign extension stands for, `BackwardBranch` its target. `LoopInv`,
the invariant of the loop, says at each address how the counter and the calls made
add up, what Z tells of the counter and where lr points; the wrap of a counter that
starts at 0 is in it.

**Stacks.** `StoredWord`: the four bytes of a word stored give the word back.
`MovedBack` and `SameStart`: a base moved and moved back is the base again, also across
the end of the address space, and a pop starts where the push did, for each of the
four pairs of modes. `Positions`: the registers of a list have different positions
below their number, so they are stored in different words (`StoredSlot`), and each
load takes the word of its own position and not a value left over (`LoadedSlot`).

**Start.** `TableInv` says that the table is sorted. The bisection is a recursive
function on pairs of bounds; that it finds a name exactly if an entry between the
bounds has it is proved by a least counterexample, on the distance of the bounds,
since induction theorems cannot be instantiated here. `FlagInv` (no message before
the options are read, and the table does not change afterwards), `ServerInv`
(what each listener has asked for, been given and printed) and `SendInv` (what
`send_irq` has looked up and put on the way) carry the other three.

**Trace.** The argument is that of a type system. A state of `trace.c` is reduced
to what the properties tell apart: counter set, tracing on, and at most two
positions. `Safe` says when a call may be made and what state it leads to, `Runs`
lifts it to sequences of calls, and one lemma per macro, instruction and handler
shows that each runs from the state between operations back to it, for each order
of evaluation (`AddedRuns`, `CommasRuns`, `FetchRuns`, `InstructionsRun`,
`HandlersRun`, ...). `TraceInv` then says that only one thread has calls to make
and that they run safely from the present state; a step takes the first of them.
`InstructionsTold` needs more: what the line printed last has to do with the calls
still to come. `Phases` are the stages of a command (nothing fetched yet, a cycle
counted, the pc read, the word read, the rest of the instruction) and one for the
threads that never fetch, `Goes` says from which phase to which a call leads, and
`Holds` what a phase knows of that line: whether it shows the present cycle or the one
before, and whether it is of this very instruction.

**Only model-checked.** Liveness (`IrqServedUnlessContinuing`, `CommandCompletes`,
`EndsAfterDebugger`, `CommandAnswered`, `ScannerEnds`, `ScannerTerminates`,
`LoopEnds`, `ComesUp`): out of the prover's reach. Every other property of a passing
run is proved.

## What is not modelled

- The wrappers of `csapp.c` that nothing calls (processes, signals, files, mapped
  memory, semaphores, buffered reading, `open_clientfd`, `open_listenfd`).
- The functions of `scanner.c` that nothing calls: `yyunput`, `input`, switching
  and pushing buffers, scanning strings, accessors. Failing allocations: flex
  ends the process, `gdb_init_data` returns NULL.
- `memory_test.c`, a test.
- `arm_data_processing_immediate_msr`: nothing calls it.
- The text of the trace, of the processor state and of debug messages, and
  `last_address` of `trace.c`, which only chooses a word of that text.
- The file descriptor and the protocol data `gdb_scanner` never releases: the
  process ends with them.
- Big endian hosts in `LoadStore`. There the casts `(uint8_t *)&value`
  (`arm_load_store.c:104`) and `(uint16_t *)&value` (`:229`) choose the bytes of a
  word by the order of the host, so loads of a byte or half word would differ. That
  the host's order cannot be observed is shown of `memory.c` and of the digits of a
  register only.
- The size of `gdb->packet`, 1024 bytes (`gdb_protocol.c:33, 41`): the loop of
  `read_memory` (`:248-251`) does not test it, and the answer in `Simulator` has no
  bound. Nothing is claimed of answers that do not fit.
- A scanner buffer past 2^30 bytes, where `scanner.c:1020-1021` grows by an eighth
  instead of doubling.
- Transfers by the debugger that are not whole words.

## Plan

Done: the threads with their atomic specification, the scanner, the packet stream
with its abstract session, memory with its abstract machine, the instruction set,
the trace, the start of the program with the debug table and `send_irq`; the
proofs above, the three refinements among them. Next, in this order:

1. the composition of the packet stream with the threads, so that an abrupt end
   of the session meets a running command;
2. byte-wise `m` and `X` in `Simulator`;
3. a theorem that joins `Scanner` and `GdbSession`: the tokens of the one are the
   tokens the other starts from.
