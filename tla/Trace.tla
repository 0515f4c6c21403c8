-------------------------------- MODULE Trace ---------------------------------
(***************************************************************************)
(* trace.c and its users: which register and memory accesses are traced,   *)
(* and with which source position.  The macros of trace_location.h push    *)
(* the position of an access before the accessor of arm_core.c runs and    *)
(* pop it afterwards; gdb's handlers switch tracing off around their own   *)
(* accesses; arm_print_state reads registers through arm_core.c itself,    *)
(* without positions.                                                      *)
(*                                                                         *)
(* A command, an interrupt and arm_create are sequences of the calls that  *)
(* reach trace.c, in the order the code makes them; a thread takes them    *)
(* one at a time.  A macro that adds the result of trace_end_location to   *)
(* the result of the accessor leaves their order to the compiler.          *)
(***************************************************************************)
EXTENDS Integers, Sequences

CONSTANTS
    MaxCommands,  \* bound on gdb's commands
    MaxIrqs,      \* bound on the resets
    MaxTurns,     \* bound on the instructions of a continue
    CycleMod      \* 2^32: where the uint32_t cycle_count wraps

ASSUME TraceAssumption ==
    /\ MaxCommands \in Nat /\ MaxIrqs \in Nat /\ MaxTurns \in Nat \ {0}
    /\ CycleMod \in Nat /\ CycleMod >= 2

VARIABLES
    lock,               \* the holder of shared.lock, or "free"
    calls,              \* the calls each thread still has to make
    commands, irqs, turns,
    trace_flags,        \* what the options ask for
    enabled,
    location_stack,     \* positions, from 0 on
    location_stack_top,
    cycle_count,        \* Unknown until arm_create sets it
    line                \* the line printed last, and the thread that printed it

control == <<lock, commands, irqs, turns, trace_flags>>
vars == <<control, calls, enabled, location_stack, location_stack_top,
          cycle_count, line>>

Threads == {"main", "gdb", "irq"}
Unknown == -1
NoSite == "none"
Sites == {"fetch", "ins", "ins2", "exc_cpsr", "exc_pc", "handler"}

-----------------------------------------------------------------------------
(***************************************************************************)
(* The calls                                                               *)
(***************************************************************************)
Call(c) == [call |-> c, site |-> NoSite, sure |-> FALSE]
LOCATION(s) == [call |-> "start_location", site |-> s, sure |-> FALSE]
END_LOCATION == Call("end_location")

\* An accessor that reaches trace_register or trace_memory, called at s; sure
\* when the macro is a sequence of commas.
Register(s, sure) == [call |-> "register", site |-> s, sure |-> sure]
MemoryAccess(s) == [call |-> "memory", site |-> s, sure |-> FALSE]

\* The macros of the accessors that return something: the end of the location
\* is called before or after the accessor.
Added(s, body) == {<<LOCATION(s)>> \o body \o <<END_LOCATION>>,
                   <<LOCATION(s), END_LOCATION>> \o body}

\* Mutant: the position is pushed after the access.
Commas_late(s, args) == args \o <<Register(s, TRUE), LOCATION(s), END_LOCATION>>

\* The macros of the register writes; the arguments may be accesses too.
Commas(s, args) == <<LOCATION(s)>> \o args \o <<Register(s, TRUE), END_LOCATION>>

Concat(A, B) == {a \o b : a \in A, b \in B}

\* arm_exception of a reset.
arm_reset == Commas("exc_cpsr", <<>>) \o Commas("exc_pc", <<>>)

\* arm_create: the counter is set after the reset.
arm_create == arm_reset \o <<Call("cycle_zero")>>

\* Mutant: the cycle is counted once pc has been read.
arm_fetch_counts_late ==
    Added("fetch", <<Register("fetch", FALSE), Call("cycle"),
                     MemoryAccess("fetch"), Register("fetch", FALSE)>>)

arm_fetch ==
    Added("fetch", <<Call("cycle"), Register("fetch", FALSE),
                     MemoryAccess("fetch"), Register("fetch", FALSE)>>)

\* What instructions do: a register written with a value read in its own
\* argument, a load, a store of a register read in its argument.  The end of
\* the store's location may fall anywhere among the calls of its argument.
Instructions ==
    LET read == Added("ins", <<Register("ins", FALSE)>>)
    IN  {Commas("ins", r) : r \in read}
        \cup {m \o Commas("ins2", <<>>) : m \in Added("ins", <<MemoryAccess("ins")>>)}
        \cup (UNION {Added("ins", r \o <<MemoryAccess("ins")>>) : r \in read})
        \cup {<<LOCATION("ins")>> \o r \o <<END_LOCATION, MemoryAccess("ins")>> : r \in read}
        \cup {<<LOCATION("ins"), LOCATION("ins")>> \o <<END_LOCATION, END_LOCATION>>
                \o <<Register("ins", FALSE), MemoryAccess("ins")>>}

\* A failed fetch resets the processor instead.
arm_step == Concat(arm_fetch, Instructions \cup {arm_reset})

\* step and the body of cont: the instruction, then trace_arm_state.
step == {s \o <<Call("arm_state")>> : s \in arm_step}

\* Mutant: a handler leaves tracing on for its own accesses.
Hidden_not(accesses) == accesses

\* The handlers that look at or change registers for gdb.
Hidden(accesses) == {<<Call("disable")>> \o a \o <<Call("enable")>> : a \in accesses}

read_registers ==
    Hidden(Concat(Added("handler", <<Register("handler", FALSE)>>),
                  Added("handler", <<Register("handler", FALSE)>>)))

write_registers == Hidden({Commas("handler", <<>>)})

\* cont looks at the next word, stops on a breakpoint or carries on.
cont_peek ==
    Hidden(Concat(Added("handler", <<Register("handler", FALSE)>>),
                  Added("handler", <<MemoryAccess("handler")>>)))
cont == {p \o <<Call("turn")>> : p \in cont_peek}

\* arm_print_state: registers of every mode and cpsr, a few for all of them.
arm_print_state == <<Register(NoSite, FALSE), Register(NoSite, FALSE)>>

-----------------------------------------------------------------------------
(***************************************************************************)
(* trace.c                                                                 *)
(***************************************************************************)
trace_start_location(site) ==
    /\ IF enabled
       THEN /\ location_stack_top' = location_stack_top + 1
            /\ location_stack' = [i \in 0 .. location_stack_top' |->
                                    IF i = location_stack_top' THEN site ELSE location_stack[i]]
       ELSE UNCHANGED <<location_stack_top, location_stack>>
    /\ UNCHANGED <<enabled, cycle_count, line>>

trace_end_location ==
    /\ location_stack_top' = IF enabled THEN location_stack_top - 1 ELSE location_stack_top
    /\ UNCHANGED <<location_stack, enabled, cycle_count, line>>

\* trace_print_location: what is printed before the access.
trace_print_location ==
    IF "POSITION" \in trace_flags /\ location_stack_top >= 0
    THEN location_stack[location_stack_top] ELSE NoSite

\* trace_register and trace_memory: the accessor of a, called by t, and its line.
trace_access(t, a, flag) ==
    /\ line' = IF enabled /\ flag \in trace_flags
               THEN [site |-> a.site, sure |-> a.sure, cycle |-> cycle_count,
                     printed |-> trace_print_location, by |-> t]
               ELSE line
    /\ UNCHANGED <<location_stack, location_stack_top, enabled, cycle_count>>

trace_set(on) ==
    enabled' = on /\ UNCHANGED <<location_stack, location_stack_top, cycle_count, line>>

count_cycle(n) ==
    cycle_count' = n /\ UNCHANGED <<location_stack, location_stack_top, enabled, line>>

\* One cycle more, modulo the width; a counter never set stays unknown.
Counted == IF cycle_count = Unknown THEN Unknown ELSE (cycle_count + 1) % CycleMod

-----------------------------------------------------------------------------
NoLine == [site |-> NoSite, sure |-> FALSE, cycle |-> Unknown, printed |-> NoSite,
           by |-> "main"]

Init ==
    /\ lock = "free" /\ commands = 0 /\ irqs = 0 /\ turns = 0
    /\ trace_flags \in SUBSET {"MEMORY", "REGISTERS", "STATE", "POSITION"}
    /\ calls = [t \in Threads |-> IF t = "main" THEN arm_create ELSE <<>>]
    /\ enabled = TRUE
    /\ location_stack = [i \in {} |-> NoSite] /\ location_stack_top = -1
    /\ cycle_count = Unknown /\ line = NoLine

\* A thread makes its next call; more calls may take its place.
Make(t, c) == calls[t] # <<>> /\ Head(calls[t]).call = c
Rest(t, more) == calls' = [calls EXCEPT ![t] = more \o Tail(calls[t])]

perform(t) ==
    LET a == Head(calls[t])
    IN  /\ \/ Make(t, "start_location") /\ trace_start_location(a.site)
           \/ Make(t, "end_location") /\ trace_end_location
           \/ Make(t, "register") /\ trace_access(t, a, "REGISTERS")
           \/ Make(t, "memory") /\ trace_access(t, a, "MEMORY")
           \/ Make(t, "disable") /\ trace_set(FALSE)
           \/ Make(t, "enable") /\ trace_set(TRUE)
           \/ Make(t, "cycle") /\ count_cycle(Counted)
           \/ Make(t, "cycle_zero") /\ count_cycle(0)
        /\ Rest(t, <<>>) /\ UNCHANGED control

trace_arm_state(t) ==
    /\ Make(t, "arm_state")
    /\ Rest(t, IF enabled /\ "STATE" \in trace_flags THEN arm_print_state ELSE <<>>)
    /\ UNCHANGED <<control, enabled, location_stack, location_stack_top,
                   cycle_count, line>>

\* The breakpoint, or an instruction and another turn of the loop.
cont_turn(t) ==
    /\ Make(t, "turn")
    /\ \/ Rest(t, <<>>) /\ UNCHANGED turns
       \/ /\ turns < MaxTurns /\ turns' = turns + 1
          /\ \E s \in step, c \in cont : Rest(t, s \o c)
    /\ UNCHANGED <<lock, commands, irqs, trace_flags, enabled, location_stack,
                   location_stack_top, cycle_count, line>>

Started == calls["main"] = <<>>
quiet == <<turns, trace_flags, enabled, location_stack, location_stack_top,
           cycle_count, line>>

\* gdb_packet_analysis: lock, handler, unlock.
gdb_packet_analysis ==
    /\ Started /\ lock = "free" /\ commands < MaxCommands
    /\ lock' = "gdb" /\ commands' = commands + 1
    /\ \E c \in step \cup read_registers \cup write_registers \cup cont :
            calls' = [calls EXCEPT !["gdb"] = c]
    /\ UNCHANGED <<irqs, quiet>>

\* Mutant: the interrupt is raised without the lock.
irq_listener_unlocked ==
    /\ Started /\ irqs < MaxIrqs /\ calls["irq"] = <<>>
    /\ irqs' = irqs + 1
    /\ calls' = [calls EXCEPT !["irq"] = arm_reset]
    /\ UNCHANGED <<lock, commands, quiet>>

irq_listener ==
    /\ Started /\ lock = "free" /\ irqs < MaxIrqs
    /\ lock' = "irq" /\ irqs' = irqs + 1
    /\ calls' = [calls EXCEPT !["irq"] = arm_reset]
    /\ UNCHANGED <<commands, quiet>>

unlock(t) ==
    /\ lock = t /\ calls[t] = <<>> /\ lock' = "free"
    /\ UNCHANGED <<calls, commands, irqs, quiet>>

Done == Started /\ lock = "free" /\ commands = MaxCommands /\ irqs = MaxIrqs
        /\ UNCHANGED vars

Next ==
    \/ \E t \in Threads : perform(t) \/ trace_arm_state(t) \/ cont_turn(t) \/ unlock(t)
    \/ gdb_packet_analysis \/ irq_listener \/ Done

Spec == Init /\ [][Next]_vars

-----------------------------------------------------------------------------
\* The stack holds two positions at most, those of a call and of one of its
\* arguments, far from its 128 entries (trace.c:34), and between commands and
\* interrupts none is left and tracing is on: no handler, failed fetch or
\* interrupt pushes without popping or changes `enabled` between the two
\* (trace.c:55-68, gdb_protocol.c:168-171).
BalancedBetweenOperations ==
    /\ location_stack_top \in -1 .. 1
    /\ Started /\ lock = "free" => location_stack_top = -1 /\ enabled

\* A line never shows the position of another access: it is the one of the
\* access traced or, where the compiler ends the location first, none; the
\* register writes always show theirs (trace_location.h:26-57).
OwnPosition ==
    /\ line.printed \in {line.site, NoSite}
    /\ line.sure /\ "POSITION" \in trace_flags => line.printed = line.site

\* The accesses of gdb's handlers leave no line in the trace of the program
\* (gdb_protocol.c:168-171, 213-236, 259-262, 292-324, 364-366).
HandlersInvisible == line.site # "handler"

\* The cycle that counts for the line before: the lines of arm_create's own
\* reset show a counter never set (arm_core.c:44-45), and stand for cycle 0.
Since(l) == IF l.by = "main" THEN 0 ELSE l.cycle

\* m continues the instruction, or the interrupt, that l is a line of.
Continues(l, m) ==
    /\ m.cycle = Since(l)
    /\ m.by = "gdb" => l.by = "gdb"
    /\ m.site = "fetch" => l.site = "fetch"

\* m is the first line of the instruction after l.
Begins(l, m) ==
    /\ m.cycle = (Since(l) + 1) % CycleMod
    /\ m.by = "gdb" /\ m.site = "fetch"

\* The cycles cut the trace into instructions, whichever of registers and
\* memory is traced: a new cycle starts with the fetch of the next instruction,
\* none is left out, the lines of an instruction all show its cycle, and no
\* interrupt or other instruction comes between them; what an interrupt traces
\* follows the instruction it came after (arm_core.c:129-139, 44-45,
\* arm_simulator.c:101-103, gdb_protocol.c:437-439).
InstructionsApart ==
    [][line' # line /\ line'.by # "main" => Continues(line, line') \/ Begins(line, line')]_vars
=============================================================================
