------------------------------ MODULE GdbSession ------------------------------
(***************************************************************************)
(* The acknowledged packet stream between gdb and the simulator: the flex  *)
(* scanner and its buffer of invalid characters, gdb_packet_analysis, the  *)
(* last packet kept for retransmission, the shutdown on 'k', end of file   *)
(* and SIGPIPE.  gdb itself is external: it sends a packet, repeats it     *)
(* when it receives '-', waits for '+' and then for the answer.            *)
(*                                                                         *)
(* A packet is its command number, whether its checksum is good, and       *)
(* whether it is a 'k'.  What a command does is the subject of Simulator.  *)
(***************************************************************************)
EXTENDS Naturals, Sequences, FiniteSets

CONSTANTS
    MAX_ERROR_SIZE, \* size of the buffer of invalid characters, scanner.l:32
    MaxCommands,    \* bound on the commands gdb issues
    Continues,      \* the commands that are a 'c' when they are not a 'k'
    MaxFaults,      \* bound on the packets damaged on the way
    MaxStrays,      \* bound on the bytes outside any packet (gdb's ^C, noise)
    MaxTimeouts     \* bound on gdb's retries after silence

ASSUME SessionAssumption ==
    /\ MAX_ERROR_SIZE \in Nat /\ MAX_ERROR_SIZE >= 2
    /\ MaxCommands \in Nat /\ Continues \subseteq Nat /\ MaxFaults \in Nat
    /\ MaxStrays \in Nat /\ MaxTimeouts \in Nat

VARIABLES
    toSim, toGdb,   \* the two directions of the connection, oldest first
    spc,            \* scanner: "scan", "run" a command, "ended", "sigpipe": process dead
    len,            \* parser_data: invalid characters kept
    cur,            \* the packet whose command runs
    last,           \* gdb->packet: the last answer, NoPacket when len is 0
    wopen,          \* the socket is open for writing
    executed,       \* commands carried out, repetitions included
    cpc,            \* gdb: "idle", "ack", "reply", "closed"
    out,            \* gdb: the packet sent last
    taken,          \* gdb: the answer taken for each command, 0 if none
    abrupt,         \* gdb: it closed the connection before it was answered
    faults, strays, timeouts

server == <<spc, len, cur, last, wopen, executed>>
client == <<cpc, out, taken, abrupt, faults, strays, timeouts>>
vars == <<toSim, toGdb, server, client>>

Ids == 1 .. MaxCommands
Mark(c) == [t |-> c]
NoPacket == [t |-> "none", id |-> 0, good |-> FALSE, kill |-> FALSE]

Damaged(p) == [p EXCEPT !.good = FALSE]

Init ==
    /\ toSim = <<>> /\ toGdb = <<>>
    /\ spc = "scan" /\ len = 0 /\ cur = NoPacket /\ last = NoPacket
    /\ wopen = TRUE /\ executed = 0
    /\ cpc = "idle" /\ out = NoPacket /\ taken = [i \in Ids |-> 0]
    /\ abrupt = FALSE /\ faults = 0 /\ strays = 0 /\ timeouts = 0

-----------------------------------------------------------------------------
(***************************************************************************)
(* The simulator's side                                                    *)
(***************************************************************************)
\* rio_writen goes on after short and interrupted writes: all of the bytes go
\* out, in order, to a gdb that is still there.
rio_writen(msgs) == toGdb' = IF cpc = "closed" THEN toGdb ELSE toGdb \o msgs

\* Rio_writen: the process ends, by SIGPIPE or unix_error, once the write side
\* is shut down, and may do so once the peer has gone.
Write(msgs, next) ==
    \/ /\ msgs = <<>> /\ spc' = next /\ UNCHANGED toGdb
    \/ /\ msgs # <<>> /\ wopen
       /\ spc' = next
       /\ rio_writen(msgs)
    \/ /\ msgs # <<>> /\ (~wopen \/ cpc = "closed")
       /\ spc' = "sigpipe" /\ UNCHANGED toGdb

\* handle_error: one '-' for all the invalid characters kept.
handle_error == IF len > 0 THEN <<Mark("-")>> ELSE <<>>

NextToken(t) == spc = "scan" /\ toSim # <<>> /\ Head(toSim).t = t

Consume == toSim' = Tail(toSim)

\* An answer may be damaged on its way to gdb.
Delivered(p) == {p} \cup (IF faults < MaxFaults THEN {Damaged(p)} ELSE {})

Fault(sent, p) == faults' = IF sent = p THEN faults ELSE faults + 1

scan_ack ==
    /\ NextToken("+") /\ Consume
    /\ Write(handle_error, "scan") /\ len' = 0
    /\ UNCHANGED <<cur, last, wopen, executed, client>>

\* Mutant: a request for retransmission is ignored.
scan_nack_ignored ==
    /\ NextToken("-") /\ Consume
    /\ Write(handle_error, "scan") /\ len' = 0
    /\ UNCHANGED <<cur, last, wopen, executed, client>>

\* '-': the last packet again, nothing if there is none yet.
scan_nack ==
    /\ NextToken("-") /\ Consume
    /\ len' = 0
    /\ \/ /\ last = NoPacket
          /\ Write(handle_error, "scan") /\ UNCHANGED faults
       \/ /\ last # NoPacket
          /\ \E p \in Delivered(last) :
                Write(handle_error \o <<p>>, "scan") /\ Fault(p, last)
    /\ UNCHANGED <<cur, last, wopen, executed, cpc, out, taken, abrupt, strays, timeouts>>

\* Mutant: the invalid characters are not forgotten once complained about.
scan_packet_keeps_errors ==
    LET p == Head(toSim)
    IN  /\ NextToken("packet") /\ Consume
        /\ \/ /\ p.good
              /\ Write(handle_error \o <<Mark("+")>>, "run")
              /\ cur' = p
           \/ /\ ~p.good
              /\ Write(handle_error \o <<Mark("-")>>, "scan")
              /\ UNCHANGED cur
        /\ UNCHANGED <<len, last, wopen, executed, client>>

\* A packet: invalid characters before it are complained about first, then
\* its own checksum decides between '+' and '-'.
scan_packet ==
    LET p == Head(toSim)
    IN  /\ NextToken("packet") /\ Consume
        /\ len' = 0
        /\ \/ /\ p.good
              /\ Write(handle_error \o <<Mark("+")>>, "run")
              /\ cur' = p
           \/ /\ ~p.good
              /\ Write(handle_error \o <<Mark("-")>>, "scan")
              /\ UNCHANGED cur
        /\ UNCHANGED <<last, wopen, executed, client>>

\* Mutant: one character more before the buffer counts as full.
FullLate == len > MAX_ERROR_SIZE - 1

\* add_character_to_error: a full buffer is complained about and emptied.
Full == len > MAX_ERROR_SIZE - 2

scan_junk ==
    /\ NextToken("junk") /\ Consume
    /\ Write(IF Full THEN handle_error ELSE <<>>, "scan")
    /\ len' = (IF Full THEN 0 ELSE len) + 1
    /\ UNCHANGED <<cur, last, wopen, executed, client>>

\* Mutant: 'k' answers like the other commands, after the shutdown.
run_command_answers_kill ==
    /\ spc = "run"
    /\ executed' = executed + 1
    /\ wopen' = ~cur.kill
    /\ last' = cur
    /\ \/ ~cur.kill /\ spc' = "scan" /\ toGdb' = Append(toGdb, cur)
       \/ cur.kill /\ spc' = "sigpipe" /\ UNCHANGED toGdb
    /\ UNCHANGED <<toSim, len, cur, client>>

\* 'k' shuts the write side and answers nothing.
kill_request ==
    /\ wopen' = FALSE /\ spc' = "scan"
    /\ UNCHANGED <<toGdb, last, faults>>

\* The answer is kept for retransmission and sent.
gdb_send_buffer ==
    /\ last' = cur
    /\ \E p \in Delivered(cur) :
          Write(<<p>>, "scan") /\ Fault(p, cur)
    /\ UNCHANGED wopen

\* gdb_packet_analysis returns from the handler of the command, the empty
\* answer to an unsupported one included.
run_command ==
    /\ spc = "run"
    /\ executed' = executed + 1
    /\ \/ cur.kill /\ kill_request
       \/ ~cur.kill /\ gdb_send_buffer
    /\ UNCHANGED <<toSim, len, cur, cpc, out, taken, abrupt, strays, timeouts>>

\* Mutant: the scanner goes on reading after the end of file.
scan_eof_reads_on ==
    /\ spc = "scan" /\ toSim = <<>> /\ cpc = "closed"
    /\ Write(handle_error, "scan") /\ len' = 0
    /\ UNCHANGED <<toSim, cur, last, wopen, executed, client>>

scan_eof ==
    /\ spc = "scan" /\ toSim = <<>> /\ cpc = "closed"
    /\ Write(handle_error, "ended") /\ len' = 0
    /\ UNCHANGED <<toSim, cur, last, wopen, executed, client>>

Server ==
    \/ scan_ack \/ scan_nack \/ scan_packet \/ scan_junk \/ run_command \/ scan_eof

\* cont loops until it meets a breakpoint, which the program may never reach.
Continuing == spc = "run" /\ ~cur.kill /\ cur.id \in Continues

-----------------------------------------------------------------------------
(***************************************************************************)
(* gdb's side (external)                                                   *)
(***************************************************************************)
\* A packet sent: it may be damaged, so that its checksum fails, or lose its
\* frame, so that the scanner sees invalid characters only.
Transmit(p) ==
    \/ toSim' = Append(toSim, p) /\ UNCHANGED <<faults, strays>>
    \/ /\ faults < MaxFaults
       /\ toSim' = Append(toSim, Damaged(p))
       /\ faults' = faults + 1 /\ UNCHANGED strays
    \/ /\ strays < MaxStrays
       /\ toSim' = Append(toSim, Mark("junk"))
       /\ strays' = strays + 1 /\ UNCHANGED faults

gdb_issue(k) ==
    /\ cpc = "idle" /\ out.id < MaxCommands
    /\ out' = [t |-> "packet", id |-> out.id + 1, good |-> TRUE, kill |-> k]
    /\ cpc' = "ack"
    /\ Transmit(out')
    /\ UNCHANGED <<toGdb, server, taken, abrupt, timeouts>>

Received(t) == toGdb # <<>> /\ Head(toGdb).t = t /\ toGdb' = Tail(toGdb)

\* Acknowledged: gdb waits for the answer, or closes after a 'k'.
gdb_acked ==
    /\ cpc = "ack" /\ Received("+")
    /\ cpc' = IF out.kill THEN "closed" ELSE "reply"
    /\ UNCHANGED <<toSim, server, out, taken, abrupt, faults, strays, timeouts>>

gdb_repeat ==
    /\ cpc = "ack" /\ Received("-")
    /\ Transmit(out)
    /\ UNCHANGED <<server, cpc, out, taken, abrupt, timeouts>>

\* Silence: nothing is under way, gdb repeats the packet.
gdb_timeout ==
    /\ cpc = "ack" /\ timeouts < MaxTimeouts
    /\ toSim = <<>> /\ toGdb = <<>> /\ spc = "scan"
    /\ timeouts' = timeouts + 1
    /\ Transmit(out)
    /\ UNCHANGED <<toGdb, server, cpc, out, taken, abrupt>>

\* A packet where an acknowledgement was expected is acknowledged and ignored.
gdb_ignore ==
    /\ \/ cpc = "ack" /\ Received("packet") /\ toSim' = Append(toSim, Mark("+"))
       \/ cpc = "reply" /\ (Received("+") \/ Received("-")) /\ UNCHANGED toSim
    /\ UNCHANGED <<server, client>>

gdb_answered ==
    /\ cpc = "reply" /\ Received("packet")
    /\ \/ /\ Head(toGdb).good
          /\ toSim' = Append(toSim, Mark("+"))
          /\ taken' = [taken EXCEPT ![out.id] = Head(toGdb).id]
          /\ cpc' = "idle"
       \/ /\ ~Head(toGdb).good
          /\ toSim' = Append(toSim, Mark("-"))
          /\ UNCHANGED <<taken, cpc>>
    /\ UNCHANGED <<server, out, abrupt, faults, strays, timeouts>>

\* The user interrupts a continue: gdb sends a byte outside any packet.
gdb_stray ==
    /\ cpc = "reply" /\ strays < MaxStrays
    /\ toSim' = Append(toSim, Mark("junk"))
    /\ strays' = strays + 1
    /\ UNCHANGED <<toGdb, server, cpc, out, taken, abrupt, faults, timeouts>>

gdb_close ==
    /\ cpc # "closed"
    /\ abrupt' = (cpc # "idle") /\ cpc' = "closed"
    /\ UNCHANGED <<toSim, toGdb, server, out, taken, faults, strays, timeouts>>

Client ==
    \/ gdb_acked \/ gdb_repeat \/ gdb_timeout \/ gdb_ignore \/ gdb_answered

Terminated == spc \in {"ended", "sigpipe"} /\ UNCHANGED vars

Next ==
    \/ Server \/ Client
    \/ \E k \in BOOLEAN : gdb_issue(k)
    \/ gdb_stray \/ gdb_close \/ Terminated

Safety == Init /\ [][Next]_vars

\* The scanner reads what has arrived and gdb reads what was answered.  Every
\* handler returns but that of 'c', which may or may not.
Spec == Safety /\ WF_vars(~Continuing /\ Server) /\ WF_vars(Client)

-----------------------------------------------------------------------------
(***************************************************************************)
(* Properties                                                              *)
(***************************************************************************)
\* The invalid characters and the '\0' handle_error puts after them always
\* fit in the buffer (scanner.l:40-54).
ErrorBufferFits == len < MAX_ERROR_SIZE

\* The process dies of SIGPIPE only when gdb goes away in the middle of an
\* exchange or after bytes outside packets: after a 'k' the simulator itself
\* writes nothing more (gdb_protocol.c:191-193, 410-449).
NoSigpipeInCleanSession == spc = "sigpipe" => abrupt \/ strays > 0

Abstract == INSTANCE Rpc WITH
    issued <- out.id,
    answered <- Cardinality({i \in Ids : taken[i] = i})

\* With packets damaged in both directions and retries after silence,
\* checksum, '-' and retransmission carry out every command exactly once, in
\* order, and give gdb the answer to the command it asked for.  Each byte
\* outside a packet can cost one repetition: handle_error answers it with a
\* '-' gdb mistakes for the fate of its packet (scanner.l:40-48, 67-70).
ExactlyOnce == Abstract!Spec

\* The one excuse of a session that stands still: the handler of a 'c' never
\* returns to the scanner (gdb_protocol.c:164-186).
ContinuingForever == <>[]Continuing

\* Every command is acknowledged and answered, unless gdb goes away or a
\* continue runs for ever: no damaged, repeated or stray packet makes gdb and
\* the simulator wait for each other (scanner.l:40-70, gdb_protocol.c:410-449).
CommandAnswered ==
    \/ ContinuingForever
    \/ cpc = "ack" ~> cpc \in {"idle", "closed"}

\* The gdb listener ends once gdb has closed the connection, unless it is
\* still inside a continue, which does not look at the connection
\* (gdb_protocol.c:164-186): then it never sees the end of file.
ScannerEnds ==
    \/ ContinuingForever
    \/ cpc = "closed" ~> spc \in {"ended", "sigpipe"}
=============================================================================
