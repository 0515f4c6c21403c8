------------------------------- MODULE Startup --------------------------------
(***************************************************************************)
(* How the simulator comes up and how send_irq reaches it: the options of  *)
(* main in arm_simulator.c, the table of debugged files, the trace file,   *)
(* the processor, the two threads that create their servers, and a run of  *)
(* send_irq.  The socket calls go through the wrappers of csapp.c, which   *)
(* end the process, with status 0, when a call fails; what the kernel does *)
(* with a port is external.                                                *)
(***************************************************************************)
EXTENDS DebugFiles, Sequences

CONSTANTS
    MaxOptions, \* bound on the options of a command line
    PortMod     \* 2^16: ports are kept in an in_port_t

ASSUME StartupAssumption ==
    MaxOptions \in Nat /\ PortMod \in Nat \ {0, 1} /\ Names # {}

VARIABLES
    mpc,        \* main: "options", "gdb_init", "create", "threads", "exited"
    options,    \* options read
    asked,      \* the port asked for each server, 0 for any
    trace_registers, trace_file,
    output,     \* trace.c: where the trace goes, "null" before set_trace_file
    cached,     \* debug.h: the cached flag of gdb_protocol.c, "first" at first
    lpc,        \* each server: "none", "bound", "listening"
    port,       \* the port each server is bound to, 0 for none
    printed,    \* the port its thread printed, 0 for none
    spc,        \* send_irq: "idle", "lookup", "connect", "sent", "exited"
    name, irq,  \* its third argument, and the interrupt it looks at
    received    \* the interrupts irq_listener has read

debugging == <<debugged_files, nb_debugged_files, overflown>>
parsed == <<options, asked, trace_registers, trace_file, debugging>>
servers == <<lpc, port, printed>>
sender == <<spc, name, irq>>
svars == <<mpc, parsed, output, cached, servers, sender, received>>

Servers == {"gdb", "irq"}
Other(s) == CHOOSE t \in Servers : t # s
Running == mpc # "exited"

\* The name of exception number i, NULL at 0 and past the last one.
arm_exception_names ==
    <<"reset", "undefined instruction", "software interrupt", "prefetch abort",
      "data abort", "interrupt", "fast interrupt">>

arm_get_exception_name(i) == IF i \in 1 .. 7 THEN arm_exception_names[i] ELSE "NULL"

INTERRUPT == 6

\* What send_irq is given: nothing, a name, or something else.
Arguments == {"too few", "default", "reset", "fast interrupt", "unknown"}

StartupInit ==
    /\ Init
    /\ mpc = "options" /\ options = 0
    /\ asked = [s \in Servers |-> 0]
    /\ trace_registers = FALSE /\ trace_file = "stdout"
    /\ output = "null" /\ cached = "first"
    /\ lpc = [s \in Servers |-> "none"] /\ port = [s \in Servers |-> 0]
    /\ printed = [s \in Servers |-> 0]
    /\ spc = "idle" /\ name = "default" /\ irq = 0 /\ received = {}

-----------------------------------------------------------------------------
(***************************************************************************)
(* main                                                                    *)
(***************************************************************************)
\* exit: every thread goes with the process.
exit == mpc' = "exited"

getopt == mpc = "options" /\ options < MaxOptions /\ ~overflown /\ options' = options + 1

after_options == <<output, cached, servers, sender, received>>

\* atoi, kept in the sixteen bits of an in_port_t.
option_port(s) ==
    /\ getopt
    /\ \E v \in 0 .. PortMod : asked' = [asked EXCEPT ![s] = v % PortMod]
    /\ UNCHANGED <<mpc, trace_registers, trace_file, debugging, after_options>>

\* -t, which fails when the file cannot be written, and -r for the flags.
option_trace ==
    /\ getopt
    /\ \/ trace_file' = "file" /\ UNCHANGED <<trace_registers, mpc>>
       \/ trace_registers' = TRUE /\ UNCHANGED <<trace_file, mpc>>
       \/ exit /\ UNCHANGED <<trace_registers, trace_file>>
    /\ UNCHANGED <<asked, debugging, after_options>>

\* -h, and an option that is not known: the usage, and the process ends.
option_usage ==
    /\ getopt
    /\ exit
    /\ UNCHANGED <<asked, trace_registers, trace_file, debugging, after_options>>

option_debug ==
    /\ getopt
    /\ \E n \in Names : add_debug_to(n) \/ add_debug_to_full(n)
    /\ UNCHANGED <<mpc, asked, trace_registers, trace_file, after_options>>

options_end ==
    /\ mpc = "options" /\ mpc' = "gdb_init"
    /\ UNCHANGED <<parsed, after_options>>

Flag(answer) == IF answer THEN "on" ELSE "off"

\* The file gdb_protocol.c under the name its debug messages look up.
GdbFile == CHOOSE n \in Names : \A m \in Names : n <= m

\* Mutant: the handlers are initialised before the options are read.
gdb_init_early ==
    /\ mpc \in {"options", "gdb_init"} /\ cached = "first"
    /\ mpc' = IF mpc = "gdb_init" THEN "create" ELSE mpc
    /\ cached' = Flag(__is_debugged(GdbFile))
    /\ UNCHANGED <<parsed, output, servers, sender, received>>

\* gdb_init issues a debug message, the first of its file: is_debugged keeps
\* what it finds.  What it finds in an overflown table is anything.
gdb_init ==
    /\ mpc = "gdb_init" /\ mpc' = "create"
    /\ \/ ~overflown /\ cached' = Flag(__is_debugged(GdbFile))
       \/ overflown /\ cached' \in {"on", "off"}
    /\ UNCHANGED <<parsed, output, servers, sender, received>>

\* set_trace_file, then memory_create and arm_create, whose reset is traced.
create ==
    /\ mpc = "create" /\ mpc' = "threads"
    /\ output' = trace_file
    /\ UNCHANGED <<parsed, cached, servers, sender, received>>

main == <<parsed, output, cached>>

-----------------------------------------------------------------------------
(***************************************************************************)
(* create_server, by the thread of each server                             *)
(***************************************************************************)
\* The kernel: a free port for 0, and otherwise the port asked for unless a
\* server listens on it already (both sockets have SO_REUSEADDR).
Bindable(s) ==
    IF asked[s] = 0 THEN {p \in 1 .. PortMod - 1 : p # port[Other(s)]}
    ELSE {asked[s]} \ {port[t] : t \in {u \in Servers : lpc[u] = "listening"}}

\* Socket, Setsockopt, Bind; getsockname tells the port to print later.
bind(s) ==
    /\ mpc = "threads" /\ lpc[s] = "none"
    /\ \E p \in Bindable(s) : port' = [port EXCEPT ![s] = p]
    /\ lpc' = [lpc EXCEPT ![s] = "bound"]
    /\ UNCHANGED <<mpc, main, printed, sender, received>>

\* Mutant: the result of the call is not looked at.
listen_unchecked(s) ==
    /\ mpc = "threads" /\ lpc[s] = "bound"
    /\ lpc' = [lpc EXCEPT ![s] = "listening"]
    /\ printed' = [printed EXCEPT ![s] = port[s]]
    /\ UNCHANGED <<mpc, main, port, sender, received>>

\* Listen: refused when the other server listens on the port.  The listener
\* prints the port once create_server has returned.
listen(s) ==
    /\ mpc = "threads" /\ lpc[s] = "bound"
    /\ ~(lpc[Other(s)] = "listening" /\ port[Other(s)] = port[s])
    /\ lpc' = [lpc EXCEPT ![s] = "listening"]
    /\ printed' = [printed EXCEPT ![s] = port[s]]
    /\ UNCHANGED <<mpc, main, port, sender, received>>

\* Mutant: a call that fails is tried again.
unix_error_retries(s) ==
    /\ mpc = "threads" /\ lpc[s] # "listening"
    /\ lpc' = [lpc EXCEPT ![s] = "none"]
    /\ port' = [port EXCEPT ![s] = 0]
    /\ UNCHANGED <<mpc, main, printed, sender, received>>

\* unix_error: any socket call may fail, and ends the simulator.
unix_error(s) ==
    /\ mpc = "threads" /\ lpc[s] # "listening"
    /\ exit
    /\ UNCHANGED <<parsed, output, cached, servers, sender, received>>

\* gdb closes the connection: main returns.
main_returns ==
    /\ mpc = "threads" /\ lpc["gdb"] = "listening"
    /\ exit
    /\ UNCHANGED <<parsed, output, cached, servers, sender, received>>

-----------------------------------------------------------------------------
(***************************************************************************)
(* send_irq                                                                *)
(***************************************************************************)
simulator == <<mpc, main, servers>>

\* The arguments: too few, the default interrupt, or a name to look up.
send_irq ==
    /\ spc = "idle" /\ mpc = "threads"
    /\ name' \in Arguments
    /\ \/ name' = "too few" /\ spc' = "exited" /\ UNCHANGED irq
       \/ name' = "default" /\ spc' = "connect" /\ irq' = INTERRUPT
       \/ name' \notin {"too few", "default"} /\ spc' = "lookup" /\ irq' = 1
    /\ UNCHANGED <<simulator, received>>

\* Mutant: the number is one ahead of the name compared.
lookup_ahead ==
    LET n == arm_get_exception_name(irq)
    IN  /\ spc = "lookup"
        /\ spc' = IF n = "NULL" THEN "exited" ELSE IF n = name THEN "connect" ELSE "lookup"
        /\ irq' = irq + 1
        /\ UNCHANGED <<simulator, name, received>>

\* The names in turn, up to the one given or to NULL.
lookup ==
    LET n == arm_get_exception_name(irq)
    IN  /\ spc = "lookup"
        /\ \/ n = "NULL" /\ spc' = "exited" /\ UNCHANGED irq
           \/ n = name /\ spc' = "connect" /\ UNCHANGED irq
           \/ n \notin {"NULL", name} /\ irq' = irq + 1 /\ UNCHANGED spc
        /\ UNCHANGED <<simulator, name, received>>

\* Connect and Write; a host that is not found, a port nobody listens on, or a
\* failure of any other call ends the program.
connect ==
    /\ spc = "connect"
    /\ \/ Running /\ lpc["irq"] = "listening" /\ spc' = "sent"
       \/ spc' = "exited"
    /\ UNCHANGED <<simulator, name, irq, received>>

\* irq_listener: Accept and Read one byte.
irq_read ==
    /\ spc = "sent" /\ Running
    /\ received' = received \cup {irq} /\ spc' = "exited"
    /\ UNCHANGED <<simulator, name, irq>>

Ended == mpc = "exited" \/ (mpc = "options" /\ (overflown \/ options = MaxOptions))
Settled == mpc = "threads" /\ spc = "exited" /\ \A s \in Servers : lpc[s] = "listening"
Idle == (Ended \/ Settled) /\ UNCHANGED svars

StartupNext ==
    \/ option_trace \/ option_usage \/ option_debug \/ options_end
    \/ gdb_init \/ create \/ main_returns
    \/ \E s \in Servers : option_port(s) \/ bind(s) \/ listen(s) \/ unix_error(s)
    \/ send_irq \/ lookup \/ connect \/ irq_read \/ Idle

Starting == options_end \/ gdb_init \/ create
Serving(s) == bind(s) \/ listen(s) \/ unix_error(s)

\* main and its threads are scheduled; the command line ends.
StartupSpec ==
    /\ StartupInit /\ [][StartupNext]_svars
    /\ WF_svars(Starting) /\ \A s \in Servers : WF_svars(Serving(s))

-----------------------------------------------------------------------------
\* The flag debug.h caches at the first message of a file is the answer of the
\* complete table: no message is issued while options are read, which the
\* warning at debug.h:38-42 says would leave it wrongly 0.
CachedFlagRight ==
    cached # "first" /\ ~overflown => cached = Flag(__is_debugged(GdbFile))

\* Two servers that listen do so on different ports, and each prints the port
\* clients reach it on, which is the one asked for if one was
\* (arm_simulator.c:46-66, csapp.c:418-432).
ServersReachable ==
    /\ \A s \in Servers : lpc[s] = "listening" =>
            printed[s] = port[s] /\ asked[s] \in {0, port[s]}
    /\ Running /\ (\A s \in Servers : lpc[s] = "listening") => port["gdb"] # port["irq"]

\* The interrupt the simulator reads is the one send_irq was asked for, the
\* default without a name, and nothing is sent for a name it does not know
\* (send_irq.c:48-59).
InterruptIsTheNamed ==
    \A i \in received :
        IF name = "default" THEN i = INTERRUPT ELSE arm_exception_names[i] = name

\* Once the options are read both servers listen, or the process ends.
ComesUp ==
    mpc = "gdb_init" ~> mpc = "exited" \/ \A s \in Servers : lpc[s] = "listening"
=============================================================================
