--------------------------- MODULE GdbSessionProofs ----------------------------
(***************************************************************************)
(* Safety of the packet stream, for every size of the buffer of invalid    *)
(* characters and however many commands, damaged packets, stray bytes and  *)
(* retries there are: the buffer never overflows, and the simulator writes *)
(* on a closed connection only after a disorderly end or stray bytes.      *)
(***************************************************************************)
EXTENDS GdbSession, SequenceTheorems, FiniteSetTheorems, TLAPS

-----------------------------------------------------------------------------
(***************************************************************************)
(* The buffer of invalid characters                                        *)
(***************************************************************************)
\* What is inductive: the number of characters kept, and room for one more.
BufferInv == len \in Nat /\ len < MAX_ERROR_SIZE

\* A character added to a buffer, full or not, leaves room for the '\0'.
LEMMA CharacterFits == BufferInv /\ scan_junk => BufferInv'
  BY SessionAssumption DEF BufferInv, scan_junk, Full

\* Every other token empties the buffer.
LEMMA TokenEmpties ==
    ASSUME scan_ack \/ scan_nack \/ scan_packet \/ scan_eof
    PROVE  BufferInv'
  BY SessionAssumption DEF BufferInv, scan_ack, scan_nack, scan_packet, scan_eof

\* Commands and gdb's own steps leave it alone.
LEMMA OthersKeep ==
    ASSUME \/ run_command \/ Client \/ gdb_stray \/ gdb_close \/ Terminated
           \/ \E k \in BOOLEAN : gdb_issue(k)
    PROVE  len' = len
  BY DEF run_command, Client, gdb_acked, gdb_repeat, gdb_timeout, gdb_ignore,
         gdb_answered, gdb_stray, gdb_close, gdb_issue, Terminated, server, vars

\* The invalid characters and their '\0' fit in the buffer (scanner.l:40-54).
THEOREM ErrorsFit == Safety => []ErrorBufferFits
<1>1. Init => BufferInv
  BY SessionAssumption DEF Init, BufferInv
<1>2. BufferInv /\ [Next]_vars => BufferInv'
  <2> SUFFICES ASSUME BufferInv, [Next]_vars PROVE BufferInv'
    OBVIOUS
  <2>1. CASE Server
    BY <2>1, CharacterFits, TokenEmpties, OthersKeep DEF Server, BufferInv
  <2>2. CASE Client \/ gdb_stray \/ gdb_close \/ Terminated
    BY <2>2, OthersKeep DEF BufferInv
  <2>3. CASE \E k \in BOOLEAN : gdb_issue(k)
    BY <2>3, OthersKeep DEF BufferInv
  <2>4. CASE UNCHANGED vars
    BY <2>4 DEF vars, server, BufferInv
  <2> QED
    BY <2>1, <2>2, <2>3, <2>4 DEF Next
<1>3. BufferInv => ErrorBufferFits
  BY DEF BufferInv, ErrorBufferFits
<1> QED
  BY <1>1, <1>2, <1>3, PTL DEF Safety

-----------------------------------------------------------------------------
(***************************************************************************)
(* The messages                                                            *)
(***************************************************************************)
\* The messages of the two directions: a framed packet, the two
\* acknowledgements, and a character outside any packet.
Packet == [t : {"packet"}, id : Nat, good : BOOLEAN, kill : BOOLEAN]
Plus == Mark("+")
Minus == Mark("-")
Junk == Mark("junk")
Message == Packet \cup {Plus, Minus, Junk}

\* The state of the two ends is well formed: what is under way are messages,
\* and there is a packet wherever the code has one in its hands.
TypeInv ==
    /\ toSim \in Seq(Message) /\ toGdb \in Seq(Message)
    /\ spc \in {"scan", "run", "ended", "sigpipe"}
    /\ len \in Nat /\ executed \in Nat /\ wopen \in BOOLEAN
    /\ cur \in Packet \cup {NoPacket} /\ last \in Packet \cup {NoPacket}
    /\ spc = "run" => cur \in Packet
    /\ cpc \in {"idle", "ack", "reply", "closed"}
    /\ out \in Packet \cup {NoPacket} /\ out.id \in 0 .. MaxCommands
    /\ cpc \in {"ack", "reply"} => out \in Packet /\ out.id \in Ids
    /\ taken \in [Ids -> Nat] /\ strays \in Nat

\* What the provers do not find by themselves about sequences of two messages.
LEMMA Pairs ==
    ASSUME NEW x, NEW y
    PROVE  Append(<<x>>, y) = <<x, y>> /\ <<x>> \o <<y>> = <<x, y>>
<1> DEFINE S == {x, y}
<1>1. /\ <<x>> \in Seq(S) /\ <<y>> \in Seq(S) /\ <<x, y>> \in Seq(S)
      /\ Append(<<x>>, y) \in Seq(S) /\ Append(<<x>>, y) = <<x>> \o <<y>>
  OBVIOUS
<1>2. Len(Append(<<x>>, y)) = 2 /\ Append(<<x>>, y)[1] = x /\ Append(<<x>>, y)[2] = y
  OBVIOUS
<1>3. Len(<<x, y>>) = 2 /\ <<x, y>>[1] = x /\ <<x, y>>[2] = y
  OBVIOUS
<1>4. \A i \in 1 .. 2 : Append(<<x>>, y)[i] = <<x, y>>[i]
  BY <1>2, <1>3
<1> HIDE DEF S
<1> QED
  BY <1>1, <1>2, <1>3, <1>4, SeqEqual

\* The kinds of messages exclude one another; damage spoils the checksum of a
\* packet, never its frame nor the command it carries.
LEMMA Kinds ==
    /\ \A m \in Message : /\ m.t = "packet" <=> m \in Packet
                          /\ m.t = "-" <=> m = Minus
                          /\ m.t = "+" <=> m = Plus
                          /\ m.t = "junk" <=> m = Junk
    /\ \A p \in Packet : Damaged(p) \in Packet /\ Damaged(p).id = p.id
    /\ NoPacket \notin Packet /\ NoPacket.id = 0
    /\ Plus \notin Packet /\ Minus \notin Packet /\ Junk \notin Packet
    /\ Plus # Minus /\ Plus # Junk /\ Minus # Junk
<1>1. Plus.t = "+" /\ Minus.t = "-" /\ Junk.t = "junk"
  BY DEF Plus, Minus, Junk, Mark
<1>2. \A p \in Packet : p.t = "packet"
  BY DEF Packet
<1>3. \A p \in Packet : Damaged(p) \in Packet /\ Damaged(p).id = p.id
  BY DEF Packet, Damaged
<1>4. NoPacket \notin Packet /\ NoPacket.id = 0
  BY DEF NoPacket, Packet
<1> QED
  BY <1>1, <1>2, <1>3, <1>4 DEF Message

\* handle_error writes one '-' for all the characters kept, before anything
\* else (scanner.l:40-48).
LEMMA ComplaintFirst ==
    /\ handle_error = IF len > 0 THEN <<Minus>> ELSE <<>>
    /\ \A m : handle_error \o <<m>> = IF len > 0 THEN <<Minus, m>> ELSE <<m>>
<1>1. handle_error = IF len > 0 THEN <<Minus>> ELSE <<>>
  BY DEF handle_error, Minus
<1>2. \A m : <<>> \o <<m>> = <<m>>
  OBVIOUS
<1>3. \A m : <<Minus>> \o <<m>> = <<Minus, m>>
  BY Pairs
<1> QED
  BY <1>1, <1>2, <1>3

\* A write leaves messages on the way to gdb, and ends where it should or in
\* the death of the process.
LEMMA WriteTypes ==
    ASSUME TypeInv, NEW msgs \in Seq(Message), NEW next, Write(msgs, next)
    PROVE  toGdb' \in Seq(Message) /\ spc' \in {next, "sigpipe"}
<1>1. toGdb \in Seq(Message) /\ toGdb \o msgs \in Seq(Message)
  BY DEF TypeInv
<1> QED
  BY <1>1, Zenon DEF Write, rio_writen

\* A complaint, alone or before a message, is made of messages.
LEMMA Emitted ==
    /\ handle_error \in Seq(Message)
    /\ \A m \in Message : handle_error \o <<m>> \in Seq(Message)
<1>1. Minus \in Message /\ <<>> \in Seq(Message)
  BY DEF Message
<1> QED
  BY <1>1, ComplaintFirst

\* Reading one message leaves messages.
LEMMA HeadTypes ==
    ASSUME NEW s \in Seq(Message), s # <<>>
    PROVE  Head(s) \in Message /\ Tail(s) \in Seq(Message)
  OBVIOUS

\* A packet gdb sends arrives as a message, whatever befell it.
LEMMA TransmitTypes ==
    ASSUME TypeInv, NEW p \in Packet, Transmit(p)
    PROVE  toSim' \in Seq(Message) /\ strays' \in Nat
<1>1. p \in Message /\ Damaged(p) \in Message /\ Junk \in Message
  BY Kinds DEF Message
<1>2. /\ Append(toSim, p) \in Seq(Message) /\ Append(toSim, Damaged(p)) \in Seq(Message)
      /\ Append(toSim, Mark("junk")) \in Seq(Message)
  BY <1>1 DEF TypeInv, Junk
<1> QED
  <2>1. toSim' \in Seq(Message)
    BY <1>2, Zenon DEF Transmit
  <2>2. strays' \in Nat
    BY DEF Transmit, TypeInv
  <2> QED
    BY <2>1, <2>2

\* Every step of either end keeps the state well formed.
LEMMA StepTypes == TypeInv /\ [Next]_vars => TypeInv'
<1> SUFFICES ASSUME TypeInv, [Next]_vars PROVE TypeInv'
  OBVIOUS
<1>0. /\ toSim # <<>> => Head(toSim) \in Message /\ Tail(toSim) \in Seq(Message)
      /\ toGdb # <<>> => Head(toGdb) \in Message /\ Tail(toGdb) \in Seq(Message)
      /\ Plus \in Message /\ Minus \in Message /\ Junk \in Message
  BY HeadTypes DEF TypeInv, Message
<1>1. CASE scan_ack
  BY <1>0, <1>1, WriteTypes, Emitted
  DEF scan_ack, TypeInv, NextToken, Consume, client
<1>2. CASE scan_nack
  <2>1. ASSUME last # NoPacket, NEW p \in Delivered(last)
        PROVE  handle_error \o <<p>> \in Seq(Message)
    BY <2>1, Emitted, Kinds DEF Delivered, TypeInv, Message
  <2>2. toGdb' \in Seq(Message) /\ spc' \in {"scan", "sigpipe"}
    BY <1>2, <2>1, WriteTypes, Emitted DEF scan_nack
  <2> QED
    BY <1>0, <1>2, <2>2 DEF scan_nack, TypeInv, NextToken, Consume
<1>3. CASE scan_packet
  <2>1. Head(toSim) \in Packet
    BY <1>0, <1>3, Kinds DEF scan_packet, NextToken
  <2>2. /\ handle_error \o <<Mark("+")>> \in Seq(Message)
        /\ handle_error \o <<Mark("-")>> \in Seq(Message)
    BY <1>0, Emitted DEF Plus, Minus
  <2>3. /\ toGdb' \in Seq(Message) /\ spc' \in {"run", "scan", "sigpipe"}
        /\ spc' = "run" => cur' = Head(toSim)
        /\ cur' \in {cur, Head(toSim)}
    <3>1. CASE Head(toSim).good
      BY <1>3, <2>2, <3>1, WriteTypes DEF scan_packet
    <3>2. CASE ~Head(toSim).good
      <4>1. Write(handle_error \o <<Mark("-")>>, "scan") /\ cur' = cur
        BY <1>3, <3>2 DEF scan_packet
      <4>2. toGdb' \in Seq(Message) /\ spc' \in {"scan", "sigpipe"}
        BY <2>2, <4>1, WriteTypes
      <4> QED
        BY <4>1, <4>2
    <3> QED
      BY <3>1, <3>2
  <2> QED
    BY <1>0, <1>3, <2>1, <2>3 DEF scan_packet, TypeInv, NextToken, Consume, client
<1>4. CASE scan_junk
  <2>1. (IF Full THEN handle_error ELSE <<>>) \in Seq(Message)
    BY Emitted
  <2>2. toGdb' \in Seq(Message) /\ spc' \in {"scan", "sigpipe"}
    BY <1>4, <2>1, WriteTypes DEF scan_junk
  <2> QED
    BY <1>0, <1>4, <2>2 DEF scan_junk, TypeInv, NextToken, Consume, client
<1>5. CASE run_command
  <2>1. ASSUME NEW p \in Delivered(cur) PROVE <<p>> \in Seq(Message)
    BY <1>5, Kinds DEF run_command,
        kill_request, gdb_send_buffer, Delivered, TypeInv, Message
  <2>2. /\ toGdb' \in Seq(Message) /\ spc' \in {"scan", "sigpipe"}
        /\ last' \in Packet \cup {NoPacket} /\ wopen' \in BOOLEAN
    BY <1>5, <2>1, WriteTypes DEF run_command, kill_request, gdb_send_buffer, TypeInv
  <2> QED
    BY <1>5, <2>2 DEF run_command, kill_request, gdb_send_buffer, TypeInv
<1>6. CASE scan_eof
  BY <1>6, WriteTypes, Emitted DEF scan_eof, TypeInv, client
<1>7. CASE \E k \in BOOLEAN : gdb_issue(k)
  <2>1. PICK k \in BOOLEAN : gdb_issue(k)
    BY <1>7
  <2>2. out' \in Packet /\ out'.id = out.id + 1 /\ out'.id \in Ids
    BY <2>1, SessionAssumption DEF gdb_issue, Packet, TypeInv, Ids
  <2>3. toSim' \in Seq(Message) /\ strays' \in Nat
    BY <2>1, <2>2, TransmitTypes DEF gdb_issue
  <2> QED
    BY <2>1, <2>2, <2>3 DEF gdb_issue, TypeInv, server, Ids
<1>8. CASE gdb_acked
  BY <1>0, <1>8 DEF gdb_acked, Received, TypeInv, server
<1>9. CASE gdb_repeat
  BY <1>0, <1>9, TransmitTypes DEF gdb_repeat, Received, TypeInv, server
<1>10. CASE gdb_timeout
  BY <1>0, <1>10, TransmitTypes DEF gdb_timeout, TypeInv, server
<1>11. CASE gdb_ignore
  <2>1. Append(toSim, Mark("+")) \in Seq(Message)
    BY <1>0 DEF TypeInv, Plus
  <2> QED
    BY <1>0, <1>11, <2>1 DEF gdb_ignore, Received, TypeInv, server, client
<1>12. CASE gdb_answered
  <2>1. Head(toGdb) \in Packet /\ Head(toGdb).id \in Nat
    BY <1>0, <1>12, Kinds DEF gdb_answered, Received, Packet
  <2>2. /\ Append(toSim, Mark("+")) \in Seq(Message)
        /\ Append(toSim, Mark("-")) \in Seq(Message)
    BY <1>0 DEF TypeInv, Plus, Minus
  <2>3. taken' \in [Ids -> Nat] /\ toSim' \in Seq(Message) /\ cpc' \in {"reply", "idle"}
    BY <1>12, <2>1, <2>2 DEF gdb_answered, TypeInv
  <2> QED
    BY <1>0, <1>12, <2>3 DEF gdb_answered, Received, TypeInv, server
<1>13. CASE gdb_stray
  BY <1>0, <1>13 DEF gdb_stray, TypeInv, server, Junk
<1>14. CASE gdb_close
  BY <1>14 DEF gdb_close, TypeInv, server
<1>15. CASE UNCHANGED vars
  BY <1>15 DEF vars, server, client, TypeInv
<1> QED
  BY <1>1, <1>2, <1>3, <1>4, <1>5, <1>6, <1>7, <1>8, <1>9, <1>10, <1>11, <1>12, <1>13,
     <1>14, <1>15 DEF Next, Server, Client, Terminated

-----------------------------------------------------------------------------
(***************************************************************************)
(* Sessions without stray bytes                                            *)
(***************************************************************************)
\* A packet of gdb's as it may arrive, or the answer to it.
Copies == {out, Damaged(out)}

\* The phases of a session without stray bytes, in which the two ends are
\* never in doubt about each other: gdb at rest; its packet under way;
\* rejected; accepted and about to be carried out; a 'k' carried out; the
\* command carried out before the '+' is read; carried out after it; answered
\* or asked for again; and gdb gone after the last answer or its 'k'.
AtRest == cpc = "idle" /\ spc = "scan" /\ wopen /\ toGdb = <<>> /\ toSim \in {<<>>, <<Plus>>}
Sent ==
    /\ cpc = "ack" /\ spc = "scan" /\ wopen /\ toGdb = <<>>
    /\ \E p \in Copies : toSim = <<p>> \/ toSim = <<Plus, p>>
Rejected == cpc = "ack" /\ spc = "scan" /\ wopen /\ toSim = <<>> /\ toGdb = <<Minus>>
Accepted == cpc = "ack" /\ spc = "run" /\ wopen /\ cur = out /\ toSim = <<>> /\ toGdb = <<Plus>>
Killed == cpc = "ack" /\ spc = "scan" /\ out.kill /\ toSim = <<>> /\ toGdb = <<Plus>>
Done ==
    /\ cpc = "ack" /\ spc = "scan" /\ wopen /\ ~out.kill /\ last = out
    /\ toSim = <<>> /\ \E p \in Copies : toGdb = <<Plus, p>>
Running ==
    /\ cpc = "reply" /\ spc = "run" /\ wopen /\ ~out.kill /\ cur = out
    /\ toSim = <<>> /\ toGdb = <<>>
Answering ==
    /\ cpc = "reply" /\ spc = "scan" /\ wopen /\ ~out.kill /\ last = out
    /\ \/ toSim = <<>> /\ \E p \in Copies : toGdb = <<p>>
       \/ toSim = <<Minus>> /\ toGdb = <<>>
Over ==
    /\ cpc = "closed"
    /\ \/ spc = "run" /\ cur.kill /\ toSim = <<>>
       \/ spc \in {"scan", "ended"} /\ toSim \in {<<>>, <<Plus>>}

\* One of them.
Phases ==
    \/ AtRest \/ Sent \/ Rejected \/ Accepted \/ Killed \/ Done \/ Running
    \/ Answering \/ Over

\* Every command gdb is done with got its own answer.
OwnTaken == \A i \in Ids : i < out.id \/ (i = out.id /\ cpc = "idle") => taken[i] = i

\* What is inductive: as long as no byte outside a packet was sent and gdb did
\* not leave in the middle, nothing is kept in the buffer of invalid
\* characters and the session is in one of its phases.
CleanInv ==
    /\ abrupt \in BOOLEAN
    /\ abrupt => cpc = "closed"
    /\ strays = 0 /\ ~abrupt =>
        len = 0 /\ (out \in Packet => out.good) /\ OwnTaken /\ Phases

\* Reading and writing the one or two messages a phase has under way.
LEMMA Short ==
    /\ \A x : /\ Head(<<x>>) = x /\ Tail(<<x>>) = <<>> /\ <<x>> # <<>>
             /\ Append(<<>>, x) = <<x>> /\ <<>> \o <<x>> = <<x>>
    /\ \A x, y : /\ Head(<<x, y>>) = x /\ Tail(<<x, y>>) = <<y>> /\ <<x, y>> # <<>>
                /\ <<x>> \o <<y>> = <<x, y>> /\ Append(<<x>>, y) = <<x, y>>
<1>1. \A x : /\ Head(<<x>>) = x /\ Tail(<<x>>) = <<>> /\ <<x>> # <<>>
            /\ Append(<<>>, x) = <<x>> /\ <<>> \o <<x>> = <<x>>
  OBVIOUS
<1>2. \A x, y : Head(<<x, y>>) = x /\ Tail(<<x, y>>) = <<y>> /\ <<x, y>> # <<>>
  OBVIOUS
<1> QED
  BY <1>1, <1>2, Pairs

\* With no characters kept, a write to a gdb that listens adds its message.
LEMMA CleanWrite ==
    ASSUME len = 0, wopen, cpc # "closed"
    PROVE  /\ \A n : Write(handle_error, n) => spc' = n /\ toGdb' = toGdb
           /\ \A m, n : Write(handle_error \o <<m>>, n) => spc' = n /\ toGdb' = toGdb \o <<m>>
           /\ \A m, n : Write(<<m>>, n) => spc' = n /\ toGdb' = toGdb \o <<m>>
<1>1. handle_error = <<>> /\ \A m : handle_error \o <<m>> = <<m>> /\ <<m>> # <<>>
  BY ComplaintFirst, Short
<1>2. \A n : Write(<<>>, n) => spc' = n /\ toGdb' = toGdb
  BY Zenon DEF Write
<1>3. \A m, n : Write(<<m>>, n) => spc' = n /\ toGdb' = toGdb \o <<m>>
  BY <1>1, Zenon DEF Write, rio_writen
<1> QED
  BY <1>1, <1>2, <1>3

\* With no characters kept, there is nothing to complain about.
LEMMA EmptyWrite ==
    ASSUME len = 0
    PROVE  \A n : Write(handle_error, n) => spc' = n /\ toGdb' = toGdb
<1>1. handle_error = <<>>
  BY ComplaintFirst
<1> QED
  BY <1>1, Zenon DEF Write

\* A packet and its damaged copy carry the same command, and the checksum
\* tells them apart.
LEMMA CopyKinds ==
    ASSUME TypeInv, out \in Packet, out.good
    PROVE  \A p \in Copies : p \in Packet /\ p.id = out.id /\ (p.good <=> p = out)
  BY DEF Copies, Packet, Damaged

\* Stray bytes are never unsent.
LEMMA StraysGrow == TypeInv /\ [Next]_vars /\ strays' = 0 => strays = 0
<1> SUFFICES ASSUME TypeInv, [Next]_vars PROVE strays' \in {strays, strays + 1}
  BY DEF TypeInv
<1>1. CASE Server
  BY <1>1 DEF Server, scan_ack, scan_nack, scan_packet, scan_junk, run_command,
      kill_request, gdb_send_buffer, scan_eof, client
<1>2. CASE Client
  BY <1>2 DEF Client, gdb_acked, gdb_repeat, gdb_timeout, gdb_ignore, gdb_answered, Transmit,
              client
<1>3. CASE \E k \in BOOLEAN : gdb_issue(k)
  BY <1>3 DEF gdb_issue, Transmit
<1>4. CASE gdb_stray \/ gdb_close \/ UNCHANGED vars
  BY <1>4 DEF gdb_stray, gdb_close, vars, client
<1> QED
  BY <1>1, <1>2, <1>3, <1>4 DEF Next, Terminated

\* gdb leaves in the middle of an exchange at most once, and for good.
LEMMA AbruptStep ==
    ASSUME CleanInv, [Next]_vars
    PROVE  /\ abrupt' \in BOOLEAN /\ (abrupt' => cpc' = "closed") /\ (~abrupt' => ~abrupt)
<1>1. CASE Server
  BY <1>1 DEF CleanInv, Server, scan_ack, scan_nack, scan_packet, scan_junk, run_command,
      kill_request, gdb_send_buffer,
              scan_eof, client
<1>2. CASE Client
  BY <1>2 DEF CleanInv, Client, gdb_acked, gdb_repeat, gdb_timeout, gdb_ignore, gdb_answered,
              client
<1>3. CASE \E k \in BOOLEAN : gdb_issue(k)
  BY <1>3 DEF CleanInv, gdb_issue
<1>4. CASE gdb_stray \/ UNCHANGED vars
  BY <1>4 DEF CleanInv, gdb_stray, vars, client
<1>5. CASE gdb_close
  BY <1>5, Zenon DEF CleanInv, gdb_close
<1> QED
  BY <1>1, <1>2, <1>3, <1>4, <1>5 DEF Next, Terminated

\* Every step of the scanner and of the handlers leads from a phase to a phase.
LEMMA CleanServer ==
    ASSUME TypeInv, len = 0, Phases, out \in Packet => out.good, Server
    PROVE  len' = 0 /\ Phases'
<1>0. /\ cpc \in {"ack", "reply"} => out \in Packet /\ out.good
      /\ cpc \in {"ack", "reply"} => \A p \in Copies : p \in Packet /\ (p.good <=> p = out)
      /\ Plus.t = "+" /\ Minus.t = "-" /\ \A p \in Packet : p.t = "packet"
      /\ out' = out => Copies' = Copies
  BY CopyKinds, Kinds DEF TypeInv, Copies, Plus, Minus, Mark, Packet
<1>1. CASE scan_ack
  <2>1. spc' = "scan" /\ toGdb' = toGdb /\ len' = 0
    BY <1>1, EmptyWrite DEF scan_ack
  <2>2. CASE AtRest \/ Over
    BY <1>1, <2>1, <2>2, Short
    DEF scan_ack, client, NextToken, Consume, AtRest, Over, Phases
  <2>3. CASE Sent
    <3>1. PICK p \in Copies : toSim = <<p>> \/ toSim = <<Plus, p>>
      BY <2>3 DEF Sent
    <3>2. p.t # "+"
      BY <1>0, <2>3 DEF Sent
    <3>3. Head(toSim).t = "+" /\ toSim' = Tail(toSim)
      BY <1>1 DEF scan_ack, NextToken, Consume
    <3>4. toSim # <<p>>
      BY <3>2, <3>3
    <3>5. toSim' = <<p>>
      <4>1. toSim = <<Plus, p>>
        BY <3>1, <3>4
      <4>2. Tail(<<Plus, p>>) = <<p>>
        BY Short
      <4> QED
        BY <3>3, <4>1, <4>2
    <3> QED
      BY <1>0, <1>1, <2>1, <2>3, <3>5 DEF scan_ack, client, Sent, Phases
  <2> QED
    BY <1>0, <1>1, <2>1, <2>2, <2>3, Short
    DEF scan_ack, NextToken, Phases, Rejected, Accepted, Killed, Done, Running, Answering
<1>2. CASE scan_nack
  <2>1. Answering /\ toSim = <<Minus>> /\ toGdb = <<>>
    BY <1>0, <1>2, Short
    DEF scan_nack, NextToken, Phases, AtRest, Sent, Rejected, Accepted, Killed, Done, Running,
        Answering, Over
  <2>2. last # NoPacket /\ last = out /\ wopen /\ cpc = "reply"
    BY <1>0, <2>1, Kinds DEF Answering
  <2>3. PICK p \in Copies : Write(handle_error \o <<p>>, "scan")
    BY <1>2, <2>2 DEF scan_nack, Delivered, Copies
  <2>4. spc' = "scan" /\ toGdb' = <<p>> /\ toSim' = <<>>
    BY <1>2, <2>1, <2>2, <2>3, CleanWrite, Short DEF scan_nack, Consume
  <2> QED
    BY <1>0, <1>2, <2>1, <2>4 DEF scan_nack, Answering, Phases
<1>3. CASE scan_packet
  <2>1. Sent /\ \E p \in Copies : toSim = <<p>> /\ Head(toSim) = p
    BY <1>0, <1>3, Short
    DEF scan_packet, NextToken, Phases, AtRest, Sent, Rejected, Accepted, Killed, Done, Running,
        Answering, Over
  <2>2. wopen /\ cpc = "ack" /\ toGdb = <<>>
    BY <2>1 DEF Sent
  <2>3. CASE Head(toSim).good
    <3>1. Head(toSim) = out
      BY <1>0, <2>1, <2>2, <2>3
    <3>2. spc' = "run" /\ toGdb' = <<Plus>> /\ toSim' = <<>> /\ cur' = out
      BY <1>3, <2>1, <2>2, <2>3, <3>1, CleanWrite, Short DEF scan_packet, Consume, Plus
    <3> QED
      BY <1>3, <2>2, <3>2 DEF scan_packet, client, Accepted, Phases
  <2>4. CASE ~Head(toSim).good
    <3>1. Write(handle_error \o <<Minus>>, "scan") /\ toSim' = <<>>
      BY <1>3, <2>1, <2>4, Short DEF scan_packet, Consume, Minus
    <3>2. spc' = "scan" /\ toGdb' = <<Minus>>
      BY <2>2, <3>1, CleanWrite, Short
    <3> QED
      BY <1>3, <2>2, <3>1, <3>2 DEF scan_packet, client, Rejected, Phases
  <2> QED
    BY <2>3, <2>4
<1>4. CASE scan_junk
  <2>1. \A p \in Packet : p.t # "junk"
    BY <1>0
  <2> QED
    BY <1>0, <1>4, <2>1, Short
    DEF scan_junk, NextToken, Phases, AtRest, Sent, Rejected, Accepted, Killed, Done, Running,
        Answering, Over
<1>5. CASE run_command
  <2>1. CASE Over
    BY <1>5, <2>1 DEF run_command, kill_request, gdb_send_buffer, Over, Phases
  <2>2. CASE Accepted /\ out.kill
    BY <1>5, <2>2 DEF run_command, kill_request, gdb_send_buffer, Accepted, Killed, Phases
  <2>3. CASE (Accepted /\ ~out.kill) \/ Running
    <3>1. wopen /\ cpc # "closed" /\ cur = out /\ ~cur.kill
      BY <2>3 DEF Accepted, Running
    <3>2. PICK p \in Copies : Write(<<p>>, "scan")
      BY <1>5, <3>1 DEF run_command, kill_request, gdb_send_buffer, Delivered, Copies
    <3>3. spc' = "scan" /\ toGdb' = toGdb \o <<p>> /\ last' = out
      BY <1>5, <3>1, <3>2, CleanWrite DEF run_command, kill_request, gdb_send_buffer
    <3>4. /\ wopen' = wopen /\ toSim' = toSim /\ len' = 0 /\ cpc' = cpc /\ out' = out
      BY <1>5, <3>1 DEF run_command, kill_request, gdb_send_buffer
    <3>5. CASE Accepted
      BY <1>0, <2>3, <3>1, <3>3, <3>4, <3>5, Short DEF Accepted, Running, Done, Phases
    <3>6. CASE Running
      BY <1>0, <3>3, <3>4, <3>6, Short DEF Running, Answering, Phases
    <3> QED
      BY <2>3, <3>5, <3>6
  <2> QED
    BY <1>5, <2>1, <2>2, <2>3
    DEF run_command,
        kill_request, gdb_send_buffer, Phases, AtRest, Sent, Rejected, Accepted,
        Killed, Done, Answering
<1>6. CASE scan_eof
  <2>1. spc' = "ended" /\ len' = 0
    BY <1>6, EmptyWrite DEF scan_eof
  <2> QED
    BY <1>6, <2>1
    DEF scan_eof, client, Phases, AtRest, Sent, Rejected, Accepted, Killed, Done, Running,
        Answering, Over
<1> QED
  BY <1>1, <1>2, <1>3, <1>4, <1>5, <1>6 DEF Server

\* Without a stray byte a packet arrives, whole or damaged.
LEMMA CleanTransmit ==
    ASSUME strays = 0, strays' = 0, NEW p \in Packet, Transmit(p)
    PROVE  toSim' = Append(toSim, p) \/ toSim' = Append(toSim, Damaged(p))
  BY DEF Transmit

\* Every step of gdb leads from a phase to a phase.
LEMMA CleanClient ==
    ASSUME TypeInv, len = 0, Phases, OwnTaken, out \in Packet => out.good,
           strays = 0, strays' = 0,
           Client \/ (\E k \in BOOLEAN : gdb_issue(k)) \/ gdb_close, ~abrupt'
    PROVE  len' = 0 /\ (out' \in Packet => out'.good) /\ OwnTaken' /\ Phases'
<1>0. /\ cpc \in {"ack", "reply"} => out \in Packet /\ out.good
      /\ cpc \in {"ack", "reply"} => \A p \in Copies : p \in Packet /\ p.id = out.id
      /\ Plus.t = "+" /\ Minus.t = "-" /\ \A p \in Packet : p.t = "packet"
      /\ out' = out => Copies' = Copies
  BY CopyKinds, Kinds DEF TypeInv, Copies, Plus, Minus, Mark, Packet
<1>1. CASE gdb_acked
  <2>1. /\ len' = 0 /\ out' = out /\ OwnTaken'
    BY <1>1 DEF gdb_acked, server, OwnTaken, TypeInv
  <2>2. CASE Accepted \/ Killed
    BY <1>0, <1>1, <2>1, <2>2, Short
    DEF gdb_acked, Received, server, Accepted, Killed, Running, Over, Phases
  <2>3. CASE Done
    <3>1. PICK p \in Copies : toGdb = <<Plus, p>>
      BY <2>3 DEF Done
    <3>2. Tail(<<Plus, p>>) = <<p>>
      BY Short
    <3>3. toGdb' = <<p>>
      BY <1>1, <3>1, <3>2 DEF gdb_acked, Received
    <3> QED
      BY <1>0, <1>1, <2>1, <2>3, <3>3 DEF gdb_acked, server, Done, Answering, Phases
  <2> QED
    BY <1>0, <1>1, <2>1, <2>2, <2>3, Short
    DEF gdb_acked, Received, Phases, AtRest, Sent, Rejected, Running, Answering, Over
<1>2. CASE gdb_repeat
  <2>1. Rejected
    BY <1>0, <1>2, Short
    DEF gdb_repeat, Received, Phases, AtRest, Sent, Rejected, Accepted, Killed, Done, Running,
        Answering, Over
  <2>2. toSim' = <<out>> \/ toSim' = <<Damaged(out)>>
    BY <1>0, <1>2, <2>1, CleanTransmit, Short DEF gdb_repeat, Rejected
  <2>3. \E p \in Copies : toSim' = <<p>>
    BY <2>2 DEF Copies
  <2>4. toGdb' = <<>>
    BY <1>2, <2>1, Short DEF gdb_repeat, Received, Rejected
  <2> QED
    BY <1>0, <1>2, <2>1, <2>3, <2>4
    DEF gdb_repeat, server, Rejected, Sent, Phases, OwnTaken, TypeInv
<1>3. CASE gdb_timeout
  BY <1>3, Short
  DEF gdb_timeout, Phases, AtRest, Sent, Rejected, Accepted, Killed, Done, Running,
      Answering, Over
<1>4. CASE gdb_ignore
  BY <1>0, <1>4, Short
  DEF gdb_ignore, Received, Phases, AtRest, Sent, Rejected, Accepted, Killed, Done, Running,
      Answering, Over
<1>5. CASE gdb_answered
  <2>1. Answering /\ toSim = <<>> /\ \E p \in Copies : toGdb = <<p>> /\ Head(toGdb) = p
    BY <1>0, <1>5, Short
    DEF gdb_answered, Received, Phases, AtRest, Sent, Rejected, Accepted, Killed, Done, Running,
        Answering, Over
  <2>2. Head(toGdb).id = out.id /\ toGdb' = <<>> /\ out' = out /\ len' = 0
    BY <1>0, <1>5, <2>1, Short DEF gdb_answered, Received, Answering, server
  <2>3. CASE Head(toGdb).good
    <3>1. toSim' = <<Plus>> /\ cpc' = "idle" /\ taken' = [taken EXCEPT ![out.id] = out.id]
      BY <1>5, <2>1, <2>2, <2>3, Short DEF gdb_answered, Plus
    <3>2. OwnTaken'
      BY <2>2, <3>1 DEF OwnTaken, TypeInv, Ids
    <3> QED
      BY <1>0, <1>5, <2>1, <2>2, <3>1, <3>2 DEF gdb_answered, server, Answering, AtRest, Phases
  <2>4. CASE ~Head(toGdb).good
    <3>1. toSim' = <<Minus>> /\ cpc' = cpc /\ taken' = taken
      BY <1>5, <2>1, <2>2, <2>4, Short DEF gdb_answered, Minus
    <3>2. OwnTaken'
      BY <2>2, <3>1 DEF OwnTaken
    <3> QED
      BY <1>0, <1>5, <2>1, <2>2, <3>1, <3>2 DEF gdb_answered, server, Answering, Phases
  <2> QED
    BY <2>3, <2>4
<1>6. CASE \E k \in BOOLEAN : gdb_issue(k)
  <2>1. PICK k \in BOOLEAN : gdb_issue(k)
    BY <1>6
  <2>2. out' \in Packet /\ out'.good /\ out'.id = out.id + 1
    BY <2>1 DEF gdb_issue, Packet, TypeInv
  <2>3. AtRest
    BY <2>1 DEF gdb_issue, Phases, AtRest, Sent, Rejected, Accepted, Killed, Done, Running,
                Answering, Over
  <2>4. \E p \in Copies' : toSim' = Append(toSim, p)
    BY <2>1, <2>2, CleanTransmit DEF gdb_issue, Copies
  <2>5. \E p \in Copies' : toSim' = <<p>> \/ toSim' = <<Plus, p>>
    BY <2>3, <2>4, Short DEF AtRest
  <2>6. OwnTaken'
    BY <2>1, <2>2 DEF gdb_issue, OwnTaken, TypeInv, Ids
  <2> QED
    BY <2>1, <2>2, <2>3, <2>5, <2>6 DEF gdb_issue, server, AtRest, Sent, Phases
<1>7. CASE gdb_close
  <2>1. cpc = "idle"
    BY <1>7 DEF gdb_close
  <2> QED
    BY <1>7, <2>1
    DEF gdb_close, server, Phases, AtRest, Sent, Rejected, Accepted, Killed, Done, Running,
        Answering, Over, OwnTaken
<1> QED
  BY <1>1, <1>2, <1>3, <1>4, <1>5, <1>6, <1>7 DEF Client

\* An exchange without stray bytes goes through its phases.
LEMMA CleanStep == TypeInv /\ CleanInv /\ [Next]_vars => CleanInv'
<1> SUFFICES ASSUME TypeInv, CleanInv, [Next]_vars, strays' = 0, ~abrupt'
             PROVE  (len = 0 /\ (out \in Packet => out.good) /\ OwnTaken /\ Phases)'
  BY AbruptStep DEF CleanInv
<1>1. strays = 0 /\ ~abrupt
  BY StraysGrow, AbruptStep
<1>2. len = 0 /\ (out \in Packet => out.good) /\ OwnTaken /\ Phases
  BY <1>1 DEF CleanInv
<1>3. CASE Server
  <2>1. out' = out /\ taken' = taken /\ cpc' = cpc
    BY <1>3 DEF Server, scan_ack, scan_nack, scan_packet, scan_junk, run_command,
        kill_request, gdb_send_buffer, scan_eof,
                client
  <2> QED
    BY <1>2, <1>3, <2>1, CleanServer DEF OwnTaken
<1>4. CASE Client \/ (\E k \in BOOLEAN : gdb_issue(k)) \/ gdb_close
  BY <1>1, <1>2, <1>4, CleanClient
<1>5. CASE gdb_stray
  BY <1>1, <1>5 DEF gdb_stray
<1>6. CASE UNCHANGED vars
  BY <1>2, <1>6
  DEF vars, server, client, Phases, AtRest, Sent, Rejected, Accepted, Killed, Done, Running,
      Answering, Over, OwnTaken, Copies
<1> QED
  BY <1>3, <1>4, <1>5, <1>6 DEF Next, Terminated

\* The two ends start well formed and at rest.
LEMMA SessionStart == Init => TypeInv /\ CleanInv
<1> SUFFICES ASSUME Init PROVE TypeInv /\ CleanInv
  OBVIOUS
<1>1. TypeInv
  BY SessionAssumption DEF Init, TypeInv, NoPacket, Ids
<1>2. CleanInv
  <2>1. AtRest /\ len = 0 /\ abrupt = FALSE /\ strays = 0 /\ out = NoPacket
    BY DEF Init, AtRest
  <2>2. out \notin Packet /\ out.id = 0
    BY <2>1, Kinds
  <2>3. OwnTaken
    BY <2>2 DEF OwnTaken, Ids
  <2> QED
    BY <2>1, <2>2, <2>3 DEF CleanInv, Phases
<1> QED
  BY <1>1, <1>2

\* The simulator dies of SIGPIPE only when gdb goes away in the middle of an
\* exchange or after bytes outside packets (gdb_protocol.c:191-193, 410-449).
THEOREM NoSigpipe == Safety => []NoSigpipeInCleanSession
<1>1. TypeInv /\ CleanInv => NoSigpipeInCleanSession
  BY DEF TypeInv, CleanInv, NoSigpipeInCleanSession, Phases, AtRest, Sent, Rejected, Accepted,
         Killed, Done, Running, Answering, Over
<1> QED
  BY <1>1, SessionStart, StepTypes, CleanStep, PTL DEF Safety

-----------------------------------------------------------------------------
(***************************************************************************)
(* The packet stream implements the remote procedure call of Rpc.  Two     *)
(* counts carry the proof.  What may still have a command carried out      *)
(* (Credit) never exceeds what was issued and the stray bytes, so nothing  *)
(* is carried out twice for free.  The commands whose answer was ever made *)
(* (Seen) never exceed the ones carried out, so no answer is made up.      *)
(***************************************************************************)
\* How many of the messages of a sequence are among those of a set.
Where(s, M) == {i \in 1 .. Len(s) : s[i] \in M}
Count(s, M) == Cardinality(Where(s, M))

\* A count is a number.
LEMMA CountType ==
    ASSUME NEW s \in Seq(Message), NEW M
    PROVE  IsFiniteSet(Where(s, M)) /\ Count(s, M) \in Nat
<1>1. Len(s) \in Nat
  OBVIOUS
<1>2. IsFiniteSet(1 .. Len(s))
  BY <1>1, FS_Interval
<1>3. Where(s, M) \in SUBSET (1 .. Len(s))
  BY DEF Where
<1>4. IsFiniteSet(Where(s, M))
  BY <1>2, <1>3, FS_Subset
<1> QED
  BY <1>4, FS_CardinalityType DEF Count

\* Nothing is under way on an empty line.
LEMMA CountEmpty ==
    ASSUME NEW M
    PROVE  Count(<<>>, M) = 0
<1>1. Where(<<>>, M) = {}
  BY DEF Where
<1> QED
  BY <1>1, FS_EmptySet DEF Count

\* Sending a message adds it to the counts it belongs to.
LEMMA CountAppend ==
    ASSUME NEW s \in Seq(Message), NEW x \in Message, NEW M
    PROVE  Count(Append(s, x), M) = Count(s, M) + (IF x \in M THEN 1 ELSE 0)
<1> DEFINE n == Len(s) + 1
<1>1. /\ Len(Append(s, x)) = n /\ Append(s, x)[n] = x /\ Len(s) \in Nat
      /\ \A i \in 1 .. Len(s) : Append(s, x)[i] = s[i]
  OBVIOUS
<1>2. 1 .. n = (1 .. Len(s)) \cup {n} /\ n \notin 1 .. Len(s)
  BY <1>1
<1>3. CASE x \in M
  <2>1. Where(Append(s, x), M) = Where(s, M) \cup {n} /\ n \notin Where(s, M)
    BY <1>1, <1>2, <1>3 DEF Where
  <2> QED
    BY <1>3, <2>1, CountType, FS_AddElement DEF Count
<1>4. CASE x \notin M
  <2>1. Where(Append(s, x), M) = Where(s, M)
    BY <1>1, <1>2, <1>4 DEF Where
  <2> QED
    BY <1>4, <2>1, CountType DEF Count
<1> QED
  BY <1>3, <1>4

\* Reading a message takes it from the counts it belongs to.
LEMMA CountTail ==
    ASSUME NEW s \in Seq(Message), s # <<>>, NEW M
    PROVE  Count(s, M) = Count(Tail(s), M) + (IF Head(s) \in M THEN 1 ELSE 0)
<1> DEFINE A == Where(Tail(s), M)
           B == Where(s, M) \ {1}
           f == [i \in A |-> i + 1]
<1>1. /\ Len(s) \in Nat /\ Len(s) >= 1 /\ Len(Tail(s)) = Len(s) - 1 /\ Head(s) = s[1]
      /\ \A i \in 1 .. Len(s) - 1 : Tail(s)[i] = s[i + 1]
      /\ Tail(s) \in Seq(Message)
  OBVIOUS
<1>2. IsFiniteSet(A) /\ IsFiniteSet(Where(s, M))
  BY <1>1, CountType
<1>3. f \in Bijection(A, B)
  <2>1. \A i \in A : i \in 1 .. Len(s) - 1 /\ s[i + 1] \in M
    BY <1>1 DEF Where
  <2>2. \A i \in A : f[i] \in B
    BY <1>1, <2>1 DEF Where
  <2>3. \A i, j \in A : f[i] = f[j] => i = j
    BY <2>1
  <2>4. \A k \in B : k - 1 \in A /\ f[k - 1] = k
    <3> TAKE k \in B
    <3>1. k \in 2 .. Len(s) /\ s[k] \in M
      BY <1>1 DEF Where
    <3>2. k - 1 \in 1 .. Len(s) - 1 /\ Tail(s)[k - 1] = s[(k - 1) + 1] /\ (k - 1) + 1 = k
      BY <1>1, <3>1
    <3>3. k - 1 \in A
      BY <1>1, <3>1, <3>2 DEF Where
    <3> QED
      BY <3>2, <3>3
  <2> QED
    BY <2>2, <2>3, <2>4 DEF Bijection, Injection, Surjection, IsInjective
<1>4. Cardinality(B) = Cardinality(A)
  BY <1>2, <1>3, FS_Bijection DEF ExistsBijection
<1>5. 1 \in Where(s, M) <=> Head(s) \in M
  BY <1>1 DEF Where
<1>6. Cardinality(B) = IF Head(s) \in M THEN Count(s, M) - 1 ELSE Count(s, M)
  BY <1>2, <1>5, FS_RemoveElement DEF Count
<1>7. Count(s, M) \in Nat /\ Count(Tail(s), M) \in Nat
  BY <1>1, CountType
<1> QED
  BY <1>4, <1>6, <1>7 DEF Count

-----------------------------------------------------------------------------
\* The acknowledgements; what the scanner will answer with one; 1 or 0.
Signs == {Plus, Minus}
Requests == Packet \cup {Junk}
One(b) == IF b THEN 1 ELSE 0

\* What may still have a command carried out: characters kept or under way
\* that will be complained about, complaints gdb has not read, and packets.
Credit ==
    executed + One(spc = "run") + One(len > 0) + Count(toSim, Requests)
    + Count(toGdb, {Minus})

\* gdb waits for the fate of its packet and nothing under way will tell it.
Silent ==
    /\ cpc = "ack" /\ spc \in {"scan", "run"}
    /\ Count(toSim, Packet) = 0 /\ Count(toGdb, Signs) = 0

\* What is inductive: the commands carried out and still to come from what is
\* under way are covered by the ones issued and the stray bytes, with one to
\* spare while gdb waits in vain, which pays for the packet it repeats.
CreditInv ==
    /\ Credit <= out.id + strays
    /\ Silent => Credit + 1 <= out.id + strays

\* The counts the invariant speaks of are numbers.
LEMMA CountsTyped ==
    ASSUME TypeInv
    PROVE  /\ Count(toSim, Requests) \in Nat /\ Count(toSim, Packet) \in Nat
           /\ Count(toGdb, {Minus}) \in Nat /\ Count(toGdb, Signs) \in Nat
  BY CountType DEF TypeInv

\* The scanner reads one message.
LEMMA Consumed ==
    ASSUME TypeInv, toSim # <<>>, Consume
    PROVE  \A M : Count(toSim, M) = Count(toSim', M) + One(Head(toSim) \in M)
<1>1. toSim \in Seq(Message) /\ toSim' = Tail(toSim)
  BY DEF TypeInv, Consume
<1> QED
  BY <1>1, CountTail DEF One

\* gdb reads one message.
LEMMA Read ==
    ASSUME TypeInv, toGdb # <<>>, toGdb' = Tail(toGdb)
    PROVE  \A M : Count(toGdb, M) = Count(toGdb', M) + One(Head(toGdb) \in M)
<1>1. toGdb \in Seq(Message)
  BY DEF TypeInv
<1> QED
  BY <1>1, CountTail DEF One

\* gdb sends one message.
LEMMA Added ==
    ASSUME TypeInv, NEW x \in Message, toSim' = Append(toSim, x)
    PROVE  \A M : Count(toSim', M) = Count(toSim, M) + One(x \in M)
<1>1. toSim \in Seq(Message)
  BY DEF TypeInv
<1> QED
  BY <1>1, CountAppend DEF One

\* A write reaches gdb, is lost because gdb is gone, or kills the process.
LEMMA WriteCases ==
    ASSUME NEW msgs, NEW next, Write(msgs, next)
    PROVE  \/ spc' = next /\ toGdb' = toGdb \o msgs /\ msgs # <<>>
           \/ spc' = next /\ toGdb' = toGdb /\ (cpc = "closed" \/ msgs = <<>>)
           \/ spc' = "sigpipe" /\ toGdb' = toGdb
  BY Zenon DEF Write, rio_writen

\* One message written by the simulator: it enters the counts, unless gdb is
\* gone or the process dies.
LEMMA OneWritten ==
    ASSUME TypeInv, NEW x \in Message, NEW next, Write(<<x>>, next)
    PROVE  /\ spc' \in {next, "sigpipe"}
           /\ \A M : /\ Count(toGdb', M) <= Count(toGdb, M) + One(x \in M)
                     /\ spc' # "sigpipe" /\ cpc # "closed" =>
                          Count(toGdb', M) = Count(toGdb, M) + One(x \in M)
<1>1. toGdb \in Seq(Message) /\ <<x>> # <<>>
  BY DEF TypeInv
<1>2. toGdb \o <<x>> = Append(toGdb, x)
  BY <1>1, AppendIsConcat
<1>3. \A M : /\ Count(toGdb, M) \in Nat
             /\ Count(toGdb \o <<x>>, M) = Count(toGdb, M) + One(x \in M)
             /\ One(x \in M) \in Nat
  BY <1>1, <1>2, CountType, CountAppend DEF One
<1>4. \/ spc' = next /\ toGdb' = toGdb \o <<x>>
      \/ spc' = next /\ toGdb' = toGdb /\ cpc = "closed"
      \/ spc' = "sigpipe" /\ toGdb' = toGdb
  BY <1>1, WriteCases
<1>5. toGdb' \in {toGdb, toGdb \o <<x>>}
  BY <1>4
<1>6. spc' # "sigpipe" /\ cpc # "closed" => toGdb' = toGdb \o <<x>>
  BY <1>4
<1>7. ASSUME NEW M PROVE Count(toGdb', M) <= Count(toGdb, M) + One(x \in M)
  <2>1. CASE toGdb' = toGdb
    BY <1>3, <2>1
  <2>2. CASE toGdb' = toGdb \o <<x>>
    BY <1>3, <2>2
  <2> QED
    BY <1>5, <2>1, <2>2
<1> QED
  BY <1>3, <1>4, <1>6, <1>7

\* The same for a complaint about the characters kept, if any.
LEMMA ComplaintWritten ==
    ASSUME TypeInv, NEW next, Write(handle_error, next)
    PROVE  /\ spc' \in {next, "sigpipe"}
           /\ \A M : LET n == One(len > 0 /\ Minus \in M)
                     IN  /\ Count(toGdb', M) <= Count(toGdb, M) + n
                         /\ spc' # "sigpipe" /\ cpc # "closed" =>
                              Count(toGdb', M) = Count(toGdb, M) + n
<1>1. CASE len > 0
  <2>1. Write(<<Minus>>, next) /\ Minus \in Message
    BY <1>1, ComplaintFirst DEF Message
  <2> QED
    BY <1>1, <2>1, OneWritten
<1>2. CASE ~(len > 0)
  <2>1. Write(<<>>, next)
    BY <1>2, ComplaintFirst
  <2>2. spc' \in {next, "sigpipe"} /\ toGdb' = toGdb
    BY <2>1, Zenon DEF Write
  <2>3. \A M : Count(toGdb, M) \in Nat /\ One(len > 0 /\ Minus \in M) = 0
    BY <1>2, CountType DEF TypeInv, One
  <2> QED
    BY <2>2, <2>3
<1> QED
  BY <1>1, <1>2

\* The same for a complaint, if any, and the message after it.
LEMMA BothWritten ==
    ASSUME TypeInv, NEW x \in Message, NEW next, Write(handle_error \o <<x>>, next)
    PROVE  /\ spc' \in {next, "sigpipe"}
           /\ \A M : LET n == One(len > 0 /\ Minus \in M) + One(x \in M)
                     IN  /\ Count(toGdb', M) <= Count(toGdb, M) + n
                         /\ spc' # "sigpipe" /\ cpc # "closed" =>
                              Count(toGdb', M) = Count(toGdb, M) + n
<1>1. CASE len > 0
  <2>1. Write(<<Minus, x>>, next) /\ Minus \in Message /\ <<Minus, x>> # <<>>
    BY <1>1, ComplaintFirst DEF Message
  <2>2. toGdb \in Seq(Message) /\ Append(toGdb, Minus) \in Seq(Message)
    BY <2>1 DEF TypeInv
  <2>3. toGdb \o <<Minus, x>> = Append(Append(toGdb, Minus), x)
    <3>1. <<Minus>> \in Seq(Message) /\ <<x>> \in Seq(Message)
      BY <2>1
    <3>2. toGdb \o (<<Minus>> \o <<x>>) = (toGdb \o <<Minus>>) \o <<x>>
      BY <2>2, <3>1, ConcatAssociative
    <3> QED
      BY <2>1, <2>2, <3>2, Pairs, AppendIsConcat
  <2>4. \A M : /\ Count(toGdb, M) \in Nat
               /\ Count(toGdb \o <<Minus, x>>, M) =
                    Count(toGdb, M) + (One(len > 0 /\ Minus \in M) + One(x \in M))
               /\ One(len > 0 /\ Minus \in M) + One(x \in M) \in Nat
    <3> TAKE M
    <3>1. Count(toGdb, M) \in Nat
      BY <2>2, CountType
    <3>2. Count(Append(toGdb, Minus), M) = Count(toGdb, M) + One(Minus \in M)
      BY <2>1, <2>2, CountAppend DEF One
    <3>3. Count(toGdb \o <<Minus, x>>, M) = Count(Append(toGdb, Minus), M) + One(x \in M)
      BY <2>2, <2>3, CountAppend DEF One
    <3>4. One(Minus \in M) = One(len > 0 /\ Minus \in M)
      BY <1>1 DEF One
    <3>5. One(Minus \in M) \in Nat /\ One(x \in M) \in Nat
      BY DEF One
    <3> QED
      BY <3>1, <3>2, <3>3, <3>4, <3>5
  <2>5. \/ spc' = next /\ toGdb' = toGdb \o <<Minus, x>>
        \/ spc' = next /\ toGdb' = toGdb /\ cpc = "closed"
        \/ spc' = "sigpipe" /\ toGdb' = toGdb
    BY <2>1, WriteCases
  <2>6. ASSUME NEW M
        PROVE  LET n == One(len > 0 /\ Minus \in M) + One(x \in M)
               IN  /\ Count(toGdb', M) <= Count(toGdb, M) + n
                   /\ spc' # "sigpipe" /\ cpc # "closed" =>
                        Count(toGdb', M) = Count(toGdb, M) + n
    <3>1. CASE toGdb' = toGdb
      BY <2>4, <2>5, <3>1
    <3>2. CASE toGdb' = toGdb \o <<Minus, x>>
      <4>1. Count(toGdb', M) = Count(toGdb \o <<Minus, x>>, M)
        BY <3>2
      <4> HIDE DEF One
      <4> QED
        BY <2>4, <4>1
    <3> QED
      BY <2>5, <3>1, <3>2
  <2> QED
    BY <2>5, <2>6
<1>2. CASE ~(len > 0)
  <2>1. Write(<<x>>, next)
    BY <1>2, ComplaintFirst
  <2>2. \A M : One(len > 0 /\ Minus \in M) + One(x \in M) = One(x \in M)
    BY <1>2 DEF One
  <2> QED
    BY <2>1, <2>2, OneWritten
<1> QED
  BY <1>1, <1>2

\* Which of the counts a message enters.
LEMMA Counted ==
    /\ One(Plus \in Requests) = 0 /\ One(Plus \in Packet) = 0
    /\ One(Minus \in Requests) = 0 /\ One(Minus \in Packet) = 0
    /\ One(Junk \in Requests) = 1 /\ One(Junk \in Packet) = 0
    /\ One(Plus \in {Minus}) = 0 /\ One(Plus \in Signs) = 1
    /\ One(Minus \in {Minus}) = 1 /\ One(Minus \in Signs) = 1
    /\ \A p \in Packet : /\ One(p \in Requests) = 1 /\ One(p \in Packet) = 1
                         /\ One(p \in {Minus}) = 0 /\ One(p \in Signs) = 0
    /\ \A b \in BOOLEAN : One(b /\ Minus \in {Minus}) = One(b) /\ One(b /\ Minus \in Signs) = One(b)
    /\ \A b \in BOOLEAN : One(b) \in {0, 1}
    /\ Plus \in Message /\ Minus \in Message /\ Junk \in Message /\ Packet \subseteq Message
<1>1. /\ Plus \notin Requests /\ Minus \notin Requests /\ Junk \in Requests
      /\ Packet \subseteq Requests
  BY Kinds DEF Requests
<1>2. /\ Plus \in Signs /\ Minus \in Signs /\ Plus \notin {Minus}
      /\ \A p \in Packet : p \notin Signs /\ p \notin {Minus}
  BY Kinds DEF Signs
<1>3. Plus \in Message /\ Minus \in Message /\ Junk \in Message /\ Packet \subseteq Message
  BY DEF Message
<1> QED
  BY <1>1, <1>2, <1>3, Kinds DEF One

\* An answer read from the connection is no mark; a mark is one.
LEMMA ReadCounts ==
    ASSUME TypeInv, TypeInv', toGdb # <<>>, toGdb' = Tail(toGdb)
    PROVE  /\ Head(toGdb) \in Packet => /\ Count(toGdb, {Minus}) = Count(toGdb', {Minus})
                                        /\ Count(toGdb, Signs) = Count(toGdb', Signs)
           /\ Head(toGdb) = Plus => Count(toGdb, {Minus}) = Count(toGdb', {Minus})
           /\ Head(toGdb) = Minus => Count(toGdb, {Minus}) = Count(toGdb', {Minus}) + 1
<1>1. /\ Head(toGdb) \in Packet => /\ One(Head(toGdb) \in {Minus}) = 0
                                   /\ One(Head(toGdb) \in Signs) = 0
      /\ Head(toGdb) = Plus => One(Head(toGdb) \in {Minus}) = 0
      /\ Head(toGdb) = Minus => One(Head(toGdb) \in {Minus}) = 1
  <2>1. Head(toGdb) \in Packet => /\ One(Head(toGdb) \in {Minus}) = 0
                                  /\ One(Head(toGdb) \in Signs) = 0
    BY Counted
  <2>2. Head(toGdb) = Plus => One(Head(toGdb) \in {Minus}) = 0
    BY Counted
  <2>3. Head(toGdb) = Minus => One(Head(toGdb) \in {Minus}) = 1
    BY Counted
  <2> QED
    BY <2>1, <2>2, <2>3
<1>2. /\ Count(toGdb, {Minus}) = Count(toGdb', {Minus}) + One(Head(toGdb) \in {Minus})
      /\ Count(toGdb, Signs) = Count(toGdb', Signs) + One(Head(toGdb) \in Signs)
  BY Read
<1>3. Count(toGdb', {Minus}) \in Nat /\ Count(toGdb', Signs) \in Nat
  BY CountType DEF TypeInv
<1> QED
  BY <1>1, <1>2, <1>3

\* gdb's packet under way: what it adds, and what it costs.
LEMMA TransmitCounts ==
    ASSUME TypeInv, NEW p \in Packet, Transmit(p)
    PROVE  /\ Count(toSim', Requests) = Count(toSim, Requests) + 1
           /\ \/ Count(toSim', Packet) = Count(toSim, Packet) + 1 /\ strays' = strays
              \/ strays' = strays + 1
<1>1. Damaged(p) \in Packet
  BY Kinds
<1>2. CASE toSim' = Append(toSim, p) /\ strays' = strays
  BY <1>2, Counted, Added
<1>3. CASE toSim' = Append(toSim, Damaged(p)) /\ strays' = strays
  BY <1>1, <1>3, Counted, Added
<1>4. CASE toSim' = Append(toSim, Junk) /\ strays' = strays + 1
  BY <1>4, Counted, Added
<1> QED
  BY <1>2, <1>3, <1>4 DEF Transmit, Junk

\* The scanner never makes commands of nothing.
LEMMA CreditServer ==
    ASSUME TypeInv, TypeInv', CreditInv, Server
    PROVE  CreditInv'
<1>0. /\ Count(toSim, Requests) \in Nat /\ Count(toSim, Packet) \in Nat
      /\ Count(toGdb, {Minus}) \in Nat /\ Count(toGdb, Signs) \in Nat
      /\ Count(toSim', Requests) \in Nat /\ Count(toSim', Packet) \in Nat
      /\ Count(toGdb', {Minus}) \in Nat /\ Count(toGdb', Signs) \in Nat
  <2>1. /\ toSim \in Seq(Message) /\ toGdb \in Seq(Message)
        /\ toSim' \in Seq(Message) /\ toGdb' \in Seq(Message)
    BY DEF TypeInv
  <2> QED
    BY <2>1, CountType
<1>1. /\ One(spc = "run") \in {0, 1} /\ One(len > 0) \in {0, 1}
      /\ executed \in Nat /\ out.id \in Nat /\ strays \in Nat /\ len \in Nat
      /\ executed' \in Nat /\ len' \in Nat
  BY DEF TypeInv, One
<1>2. UNCHANGED <<out, strays, cpc>>
  BY DEF Server, scan_ack, scan_nack, scan_packet, scan_junk, run_command,
      kill_request, gdb_send_buffer, scan_eof, client
<1> SUFFICES /\ Credit' <= Credit
             /\ Silent' => Silent
  <2>1. Credit \in Nat /\ Credit' \in Nat
    BY <1>0, <1>1 DEF Credit, One
  <2> QED
    BY <1>1, <1>2, <2>1 DEF CreditInv
<1>3. CASE scan_ack \/ scan_nack
  <2>1. /\ spc = "scan" /\ toSim # <<>> /\ Consume /\ Head(toSim) \in {Plus, Minus} /\ len' = 0
        /\ executed' = executed
    BY <1>3, HeadTypes, Kinds DEF scan_ack, scan_nack, NextToken, TypeInv
  <2>2. /\ Count(toSim, Requests) = Count(toSim', Requests)
        /\ Count(toSim, Packet) = Count(toSim', Packet)
    BY <1>0, <2>1, Consumed, Counted
  <2>3. /\ spc' \in {"scan", "sigpipe"}
        /\ Count(toGdb', {Minus}) <= Count(toGdb, {Minus}) + One(len > 0)
        /\ spc' # "sigpipe" /\ cpc # "closed" => Count(toGdb', Signs) >= Count(toGdb, Signs)
    <3>1. CASE Write(handle_error, "scan")
      BY <1>0, <1>1, <3>1, ComplaintWritten, Counted
    <3>2. CASE scan_nack /\ last # NoPacket
      <4>1. PICK p \in Delivered(last) : Write(handle_error \o <<p>>, "scan")
        BY <3>2 DEF scan_nack
      <4>2. p \in Packet /\ p \in Message
        BY <3>2, Kinds, Counted DEF Delivered, TypeInv
      <4> QED
        BY <1>0, <1>1, <4>1, <4>2, BothWritten, Counted
    <3> QED
      BY <1>3, <3>1, <3>2 DEF scan_ack, scan_nack
  <2>4. One(spc' = "run") = 0 /\ One(len' > 0) = 0 /\ One(spc = "run") = 0
    BY <2>1, <2>3 DEF One
  <2>5. Credit' <= Credit
    BY <1>0, <1>1, <2>1, <2>2, <2>3, <2>4 DEF Credit
  <2> QED
    BY <1>0, <1>2, <2>1, <2>2, <2>3, <2>5 DEF Silent
<1>4. CASE scan_packet
  <2>1. /\ spc = "scan" /\ toSim # <<>> /\ Consume /\ Head(toSim) \in Packet /\ len' = 0
        /\ executed' = executed
    BY <1>4, HeadTypes, Kinds DEF scan_packet, NextToken, TypeInv
  <2>2. Count(toSim, Requests) = Count(toSim', Requests) + 1
    BY <1>0, <2>1, Consumed, Counted
  <2>3. /\ One(spc' = "run") + Count(toGdb', {Minus}) <= Count(toGdb, {Minus}) + One(len > 0) + 1
        /\ spc' # "sigpipe" /\ cpc # "closed" => Count(toGdb', Signs) >= 1
    <3>1. CASE Head(toSim).good
      <4>1. Write(handle_error \o <<Plus>>, "run")
        BY <1>4, <3>1 DEF scan_packet, Plus
      <4> QED
        BY <1>0, <1>1, <4>1, BothWritten, Counted
    <3>2. CASE ~Head(toSim).good
      <4>1. Write(handle_error \o <<Minus>>, "scan")
        BY <1>4, <3>2 DEF scan_packet, Minus
      <4> QED
        BY <1>0, <1>1, <4>1, BothWritten, Counted
    <3> QED
      BY <3>1, <3>2
  <2>4. One(len' > 0) = 0 /\ One(spc = "run") = 0 /\ One(spc' = "run") \in Nat
    BY <2>1 DEF One
  <2>5. Credit' <= Credit
    <3>1. One(len > 0) \in Nat /\ Count(toSim, Requests) \in Nat /\ Count(toGdb, {Minus}) \in Nat
      BY <1>0, <1>1
    <3>2. Count(toSim', Requests) \in Nat /\ Count(toGdb', {Minus}) \in Nat
      BY <1>0
    <3>3. Credit = executed + One(len > 0) + Count(toSim, Requests) + Count(toGdb, {Minus})
      BY <1>1, <2>4, <3>1 DEF Credit
    <3>4. Credit' = executed + One(spc' = "run") + Count(toSim', Requests) + Count(toGdb', {Minus})
      BY <1>1, <2>1, <2>4, <3>2 DEF Credit
    <3> QED
      BY <1>1, <2>2, <2>3, <2>4, <3>1, <3>2, <3>3, <3>4
  <2>6. ~Silent'
    BY <1>0, <1>2, <2>3 DEF Silent
  <2> QED
    BY <2>5, <2>6
<1>5. CASE scan_junk
  <2>1. /\ spc = "scan" /\ toSim # <<>> /\ Consume /\ Head(toSim) = Junk
        /\ executed' = executed /\ len' > 0
    BY <1>1, <1>5, HeadTypes, Kinds DEF scan_junk, NextToken, TypeInv
  <2>2. /\ Count(toSim, Requests) = Count(toSim', Requests) + 1
        /\ Count(toSim, Packet) = Count(toSim', Packet)
    BY <1>0, <2>1, Consumed, Counted
  <2>3. /\ spc' \in {"scan", "sigpipe"}
        /\ Count(toGdb', {Minus}) <= Count(toGdb, {Minus}) + One(len > 0)
        /\ spc' # "sigpipe" /\ cpc # "closed" => Count(toGdb', Signs) >= Count(toGdb, Signs)
    <3>1. CASE Full
      BY <1>0, <1>1, <1>5, <3>1, ComplaintWritten, Counted DEF scan_junk
    <3>2. CASE ~Full
      <4>1. Write(<<>>, "scan")
        BY <1>5, <3>2 DEF scan_junk
      <4>2. spc' \in {"scan", "sigpipe"} /\ toGdb' = toGdb
        BY <4>1, Zenon DEF Write
      <4> QED
        BY <1>0, <1>1, <4>2
    <3> QED
      BY <3>1, <3>2
  <2>4. One(spc' = "run") = 0 /\ One(len' > 0) = 1 /\ One(spc = "run") = 0
    BY <2>1, <2>3 DEF One
  <2>5. Credit' <= Credit
    BY <1>0, <1>1, <2>1, <2>2, <2>3, <2>4 DEF Credit
  <2> QED
    BY <1>0, <1>2, <2>1, <2>2, <2>3, <2>5 DEF Silent
<1>6. CASE run_command
  <2>1. /\ spc = "run" /\ toSim' = toSim /\ len' = len /\ executed' = executed + 1
        /\ cur \in Packet
    BY <1>6 DEF run_command, kill_request, gdb_send_buffer, TypeInv
  <2>2. /\ spc' \in {"scan", "sigpipe"}
        /\ Count(toGdb', {Minus}) <= Count(toGdb, {Minus})
        /\ spc' # "sigpipe" /\ cpc # "closed" => Count(toGdb', Signs) = Count(toGdb, Signs)
    <3>1. CASE cur.kill
      BY <1>0, <1>6, <3>1 DEF run_command, kill_request, gdb_send_buffer
    <3>2. CASE ~cur.kill
      <4>1. PICK p \in Delivered(cur) : Write(<<p>>, "scan")
        BY <1>6, <3>2 DEF run_command, kill_request, gdb_send_buffer
      <4>2. p \in Packet /\ p \in Message
        BY <2>1, Kinds, Counted DEF Delivered
      <4> QED
        BY <1>0, <4>1, <4>2, OneWritten, Counted
    <3> QED
      BY <3>1, <3>2
  <2>3. One(spc' = "run") = 0 /\ One(spc = "run") = 1
    BY <2>1, <2>2 DEF One
  <2>4. Credit' <= Credit
    BY <1>0, <1>1, <2>1, <2>2, <2>3 DEF Credit
  <2> QED
    BY <1>0, <1>2, <2>1, <2>2, <2>4 DEF Silent
<1>7. CASE scan_eof
  <2>1. /\ spc = "scan" /\ toSim' = toSim /\ len' = 0 /\ executed' = executed
        /\ cpc = "closed"
    BY <1>7 DEF scan_eof
  <2>2. /\ spc' \in {"ended", "sigpipe"}
        /\ Count(toGdb', {Minus}) <= Count(toGdb, {Minus}) + One(len > 0)
    BY <1>0, <1>1, <1>7, ComplaintWritten, Counted DEF scan_eof
  <2>3. One(spc' = "run") = 0 /\ One(len' > 0) = 0 /\ One(spc = "run") = 0
    BY <2>1, <2>2 DEF One
  <2>4. Credit' <= Credit
    BY <1>0, <1>1, <2>1, <2>2, <2>3 DEF Credit
  <2> QED
    BY <1>2, <2>1, <2>4 DEF Silent
<1> QED
  BY <1>3, <1>4, <1>5, <1>6, <1>7 DEF Server

\* What gdb sends is paid for: by the command it issues, by the '-' it read,
\* by the silence it waited through or by the stray byte itself.
LEMMA CreditClient ==
    ASSUME TypeInv, TypeInv', CreditInv,
           Client \/ (\E k \in BOOLEAN : gdb_issue(k)) \/ gdb_stray \/ gdb_close
    PROVE  CreditInv'
<1>0. /\ Count(toSim, Requests) \in Nat /\ Count(toSim, Packet) \in Nat
      /\ Count(toGdb, {Minus}) \in Nat /\ Count(toGdb, Signs) \in Nat
      /\ Count(toSim', Requests) \in Nat /\ Count(toSim', Packet) \in Nat
      /\ Count(toGdb', {Minus}) \in Nat /\ Count(toGdb', Signs) \in Nat
  <2>1. /\ toSim \in Seq(Message) /\ toGdb \in Seq(Message)
        /\ toSim' \in Seq(Message) /\ toGdb' \in Seq(Message)
    BY DEF TypeInv
  <2> QED
    BY <2>1, CountType
<1>1. UNCHANGED <<spc, len, executed>>
  BY DEF Client, gdb_issue, gdb_acked, gdb_repeat, gdb_timeout, gdb_ignore, gdb_answered,
         gdb_stray, gdb_close, server
<1> DEFINE c == executed + One(spc = "run") + One(len > 0)
           d == out.id + strays
<1>2. c \in Nat /\ out.id \in Nat /\ strays \in Nat /\ d \in Nat /\ c' = c
  BY <1>1 DEF TypeInv, One
<1>3. /\ Credit = c + Count(toSim, Requests) + Count(toGdb, {Minus})
      /\ Credit' = c + Count(toSim', Requests) + Count(toGdb', {Minus})
      /\ CreditInv' <=> /\ Credit' <= out'.id + strays'
                        /\ Silent' => Credit' + 1 <= out'.id + strays'
  BY <1>1 DEF Credit, CreditInv
<1>4. /\ c + Count(toSim, Requests) + Count(toGdb, {Minus}) <= d
      /\ Silent => c + Count(toSim, Requests) + Count(toGdb, {Minus}) + 1 <= d
  BY <1>3 DEF CreditInv
<1> HIDE DEF c
<1>5. CASE gdb_acked
  <2>1. /\ toSim' = toSim /\ out' = out /\ strays' = strays /\ cpc' # "ack"
        /\ toGdb # <<>> /\ toGdb' = Tail(toGdb) /\ Head(toGdb) = Plus
    BY <1>5, HeadTypes, Kinds DEF gdb_acked, Received, TypeInv
  <2>2. Count(toGdb, {Minus}) = Count(toGdb', {Minus})
    BY <2>1, ReadCounts
  <2> QED
    BY <1>0, <1>2, <1>3, <1>4, <2>1, <2>2 DEF Silent
<1>6. CASE gdb_repeat
  <2>1. /\ out'.id = out.id /\ out \in Packet /\ Transmit(out)
        /\ toGdb # <<>> /\ toGdb' = Tail(toGdb) /\ Head(toGdb) = Minus
    BY <1>6, HeadTypes, Kinds DEF gdb_repeat, Received, TypeInv
  <2>2. Count(toGdb, {Minus}) = Count(toGdb', {Minus}) + 1
    BY <2>1, ReadCounts
  <2>3. Count(toSim', Requests) = Count(toSim, Requests) + 1
    BY <2>1, TransmitCounts
  <2>4. Credit' = Credit
    BY <1>0, <1>2, <1>3, <2>2, <2>3
  <2>5. out'.id = out.id
    BY <2>1
  <2>6. Credit \in Nat
    BY <1>0, <1>2, <1>3
  <2>7. CASE Count(toSim', Packet) = Count(toSim, Packet) + 1 /\ strays' = strays
    <3>1. ~Silent'
      BY <1>0, <2>7 DEF Silent
    <3> QED
      BY <1>2, <1>3, <2>4, <2>5, <2>6, <2>7, <3>1 DEF CreditInv
  <2>8. CASE strays' = strays + 1
    BY <1>2, <1>3, <2>4, <2>5, <2>6, <2>8 DEF CreditInv
  <2> QED
    BY <2>1, <2>7, <2>8, TransmitCounts
<1>7. CASE gdb_timeout
  <2>1. /\ out' = out /\ out \in Packet /\ Transmit(out)
        /\ Count(toGdb', {Minus}) = Count(toGdb, {Minus})
    BY <1>7 DEF gdb_timeout, TypeInv
  <2>2. c + Count(toSim, Requests) + Count(toGdb, {Minus}) + 1 <= d
    BY <1>4, <1>7, CountEmpty DEF gdb_timeout, Silent
  <2>3. Count(toSim', Requests) = Count(toSim, Requests) + 1
    BY <2>1, TransmitCounts
  <2>4. CASE Count(toSim', Packet) = Count(toSim, Packet) + 1 /\ strays' = strays
    <3>1. ~Silent'
      BY <1>0, <2>4 DEF Silent
    <3> QED
      BY <1>0, <1>2, <1>3, <2>1, <2>2, <2>3, <2>4, <3>1
  <2>5. CASE strays' = strays + 1
    BY <1>0, <1>2, <1>3, <2>1, <2>2, <2>3, <2>5
  <2> QED
    BY <2>1, <2>4, <2>5, TransmitCounts
<1>8. CASE gdb_ignore
  <2>1. out' = out /\ strays' = strays /\ cpc' = cpc
    BY <1>8 DEF gdb_ignore, client
  <2>2. CASE cpc = "ack" /\ Received("packet") /\ toSim' = Append(toSim, Mark("+"))
    <3>1. toGdb # <<>> /\ toGdb' = Tail(toGdb) /\ Head(toGdb) \in Packet
      BY <2>2, HeadTypes, Kinds DEF Received, TypeInv
    <3>2. /\ Count(toGdb, {Minus}) = Count(toGdb', {Minus})
          /\ Count(toGdb, Signs) = Count(toGdb', Signs)
      BY <3>1, ReadCounts
    <3>3. toSim' = Append(toSim, Plus)
      BY <2>2 DEF Plus
    <3>4. /\ Count(toSim, Requests) = Count(toSim', Requests)
          /\ Count(toSim, Packet) = Count(toSim', Packet)
      BY <1>0, <3>3, Added, Counted
    <3> QED
      BY <1>0, <1>1, <1>2, <1>3, <1>4, <2>1, <3>2, <3>4 DEF Silent
  <2>3. CASE cpc = "reply" /\ (Received("+") \/ Received("-")) /\ toSim' = toSim
    <3>1. toGdb # <<>> /\ toGdb' = Tail(toGdb)
      BY <2>3 DEF Received
    <3>2. Count(toGdb', {Minus}) <= Count(toGdb, {Minus})
      <4>1. Count(toGdb, {Minus}) = Count(toGdb', {Minus}) + One(Head(toGdb) \in {Minus})
        BY <3>1, Read
      <4>2. One(Head(toGdb) \in {Minus}) \in {0, 1}
        BY DEF One
      <4> QED
        BY <1>0, <4>1, <4>2
    <3> QED
      BY <1>0, <1>2, <1>3, <1>4, <2>1, <2>3, <3>2 DEF Silent
  <2> QED
    BY <1>8, <2>2, <2>3 DEF gdb_ignore
<1>9. CASE gdb_answered
  <2>1. /\ out' = out /\ strays' = strays /\ cpc' # "ack"
        /\ toGdb # <<>> /\ toGdb' = Tail(toGdb) /\ Head(toGdb) \in Packet
        /\ toSim' = Append(toSim, Plus) \/ toSim' = Append(toSim, Minus)
    BY <1>9, HeadTypes, Kinds DEF gdb_answered, Received, TypeInv, Plus, Minus
  <2>2. Count(toGdb, {Minus}) = Count(toGdb', {Minus})
    BY <2>1, ReadCounts
  <2>3. Count(toSim, Requests) = Count(toSim', Requests)
    <3>1. CASE toSim' = Append(toSim, Plus)
      BY <1>0, <3>1, Added, Counted
    <3>2. CASE toSim' = Append(toSim, Minus)
      BY <1>0, <3>2, Added, Counted
    <3> QED
      BY <2>1, <3>1, <3>2
  <2> QED
    BY <1>0, <1>2, <1>3, <1>4, <2>1, <2>2, <2>3 DEF Silent
<1>10. CASE \E k \in BOOLEAN : gdb_issue(k)
  <2>1. /\ out'.id = out.id + 1 /\ out' \in Packet /\ Transmit(out') /\ toGdb' = toGdb
    BY <1>10 DEF gdb_issue, TypeInv, Packet
  <2>2. Count(toSim', Requests) = Count(toSim, Requests) + 1
    BY <2>1, TransmitCounts
  <2>3. CASE Count(toSim', Packet) = Count(toSim, Packet) + 1 /\ strays' = strays
    BY <1>0, <1>2, <1>3, <1>4, <2>1, <2>2, <2>3 DEF Silent
  <2>4. CASE strays' = strays + 1
    BY <1>0, <1>2, <1>3, <1>4, <2>1, <2>2, <2>4
  <2> QED
    BY <2>1, <2>3, <2>4, TransmitCounts
<1>11. CASE gdb_stray
  <2>1. /\ out'.id = out.id /\ strays' = strays + 1
        /\ Count(toGdb', {Minus}) = Count(toGdb, {Minus})
    BY <1>11 DEF gdb_stray
  <2>2. toSim' = Append(toSim, Junk) /\ ~Silent'
    BY <1>11 DEF gdb_stray, Junk, Silent
  <2>3. Count(toSim', Requests) = Count(toSim, Requests) + 1
    BY <2>2, Added, Counted
  <2>4. Credit \in Nat /\ Credit' = Credit + 1
    BY <1>0, <1>2, <1>3, <2>1, <2>3
  <2> QED
    BY <1>2, <1>3, <2>1, <2>2, <2>4 DEF CreditInv
<1>12. CASE gdb_close
  BY <1>0, <1>2, <1>3, <1>4, <1>12 DEF gdb_close, Silent
<1> QED
  BY <1>5, <1>6, <1>7, <1>8, <1>9, <1>10, <1>11, <1>12 DEF Client

\* No step of either end spends more than was paid.
LEMMA CreditStep == TypeInv /\ CreditInv /\ [Next]_vars => CreditInv'
<1> SUFFICES ASSUME TypeInv, CreditInv, [Next]_vars PROVE CreditInv'
  OBVIOUS
<1>1. TypeInv'
  BY StepTypes
<1>2. CASE UNCHANGED vars
  BY <1>2 DEF vars, server, client, CreditInv, Credit, Silent
<1> QED
  BY <1>1, <1>2, CreditServer, CreditClient DEF Next, Terminated

-----------------------------------------------------------------------------
\* The commands gdb holds the answer to, those whose answer is under way, and
\* the one whose answer is kept for retransmission.
Own == {i \in Ids : taken[i] = i}
AnswerIds(s) == {s[j].id : j \in Where(s, Packet)}
Seen == (Own \cup AnswerIds(toGdb) \cup {last.id}) \ {0}

\* Every answer ever made comes from a command carried out.
SeenInv == IsFiniteSet(Seen) /\ Cardinality(Seen) <= executed

\* gdb has no answer to a command it is still waiting for or has not issued.
TakenInv ==
    \A i \in Ids : i > out.id \/ (i = out.id /\ cpc \in {"ack", "reply"}) => taken[i] = 0

\* A message sent to gdb adds at most its own answer.
LEMMA IdsAppend ==
    ASSUME NEW s \in Seq(Message), NEW x \in Message
    PROVE  /\ x \notin Packet => AnswerIds(Append(s, x)) \subseteq AnswerIds(s)
           /\ AnswerIds(Append(s, x)) \subseteq AnswerIds(s) \cup {x.id}
<1>1. /\ Len(Append(s, x)) = Len(s) + 1 /\ Append(s, x)[Len(s) + 1] = x /\ Len(s) \in Nat
      /\ \A i \in 1 .. Len(s) : Append(s, x)[i] = s[i]
  OBVIOUS
<1>2. ASSUME NEW j \in Where(Append(s, x), Packet)
      PROVE  Append(s, x)[j].id \in AnswerIds(s) \/ (x \in Packet /\ Append(s, x)[j].id = x.id)
  <2>1. j \in 1 .. Len(s) + 1 /\ Append(s, x)[j] \in Packet
    BY <1>1, <1>2 DEF Where
  <2>2. CASE j = Len(s) + 1
    BY <1>1, <2>1, <2>2
  <2>3. CASE j \in 1 .. Len(s)
    BY <1>1, <2>1, <2>3 DEF Where, AnswerIds
  <2> QED
    BY <1>1, <2>1, <2>2, <2>3
<1> QED
  BY <1>2 DEF AnswerIds

\* A message read by gdb was under way.
LEMMA IdsTail ==
    ASSUME NEW s \in Seq(Message), s # <<>>
    PROVE  /\ AnswerIds(Tail(s)) \subseteq AnswerIds(s)
           /\ Head(s) \in Packet => Head(s).id \in AnswerIds(s)
<1>1. /\ Len(s) \in Nat /\ Len(s) >= 1 /\ Len(Tail(s)) = Len(s) - 1 /\ Head(s) = s[1]
      /\ \A i \in 1 .. Len(s) - 1 : Tail(s)[i] = s[i + 1]
  OBVIOUS
<1>2. ASSUME NEW j \in Where(Tail(s), Packet)
      PROVE  Tail(s)[j].id \in AnswerIds(s)
  <2>1. j \in 1 .. Len(s) - 1 /\ Tail(s)[j] = s[j + 1] /\ s[j + 1] \in Packet
    BY <1>1, <1>2 DEF Where
  <2>2. j + 1 \in Where(s, Packet)
    BY <1>1, <2>1 DEF Where
  <2> QED
    BY <2>1, <2>2 DEF AnswerIds
<1>3. Head(s) \in Packet => 1 \in Where(s, Packet)
  BY <1>1 DEF Where
<1> QED
  BY <1>1, <1>2, <1>3 DEF AnswerIds

\* What a write can add to the answers under way.
LEMMA IdsWritten ==
    ASSUME TypeInv, NEW x \in Message, NEW next,
           \/ Write(handle_error, next) /\ x = Minus
           \/ Write(<<x>>, next) \/ Write(handle_error \o <<x>>, next)
    PROVE  /\ x \notin Packet => AnswerIds(toGdb') \subseteq AnswerIds(toGdb)
           /\ AnswerIds(toGdb') \subseteq AnswerIds(toGdb) \cup {x.id}
<1>1. toGdb \in Seq(Message) /\ Minus \in Message /\ Minus \notin Packet
  BY Kinds DEF TypeInv, Message
<1>2. Append(toGdb, Minus) \in Seq(Message) /\ <<Minus>> \in Seq(Message) /\ <<x>> \in Seq(Message)
  BY <1>1
<1>3. toGdb \o <<x>> = Append(toGdb, x) /\ toGdb \o <<Minus>> = Append(toGdb, Minus)
  BY <1>1, AppendIsConcat
<1>4. toGdb \o <<Minus, x>> = Append(Append(toGdb, Minus), x)
  <2>1. toGdb \o (<<Minus>> \o <<x>>) = (toGdb \o <<Minus>>) \o <<x>>
    BY <1>1, <1>2, ConcatAssociative
  <2> QED
    BY <1>2, <1>3, <2>1, Pairs, AppendIsConcat
<1>5. toGdb' \in {toGdb, Append(toGdb, x), Append(Append(toGdb, Minus), x)}
  <2>1. \A msgs, n : Write(msgs, n) => toGdb' \in {toGdb, toGdb \o msgs}
    BY WriteCases
  <2>2. CASE Write(handle_error, next) /\ x = Minus
    <3>1. handle_error \in {<<>>, <<Minus>>}
      BY ComplaintFirst
    <3>2. toGdb \o <<>> = toGdb
      BY <1>1
    <3> QED
      BY <1>3, <2>1, <2>2, <3>1, <3>2
  <2>3. CASE Write(<<x>>, next)
    BY <1>3, <2>1, <2>3
  <2>4. CASE Write(handle_error \o <<x>>, next)
    <3>1. handle_error \o <<x>> \in {<<x>>, <<Minus, x>>}
      BY ComplaintFirst
    <3> QED
      BY <1>3, <1>4, <2>1, <2>4, <3>1
  <2> QED
    BY <2>2, <2>3, <2>4
<1>6. /\ AnswerIds(Append(toGdb, Minus)) \subseteq AnswerIds(toGdb)
      /\ x \notin Packet => /\ AnswerIds(Append(toGdb, x)) \subseteq AnswerIds(toGdb)
                            /\ AnswerIds(Append(Append(toGdb, Minus), x)) \subseteq AnswerIds(toGdb)
      /\ AnswerIds(Append(toGdb, x)) \subseteq AnswerIds(toGdb) \cup {x.id}
      /\ AnswerIds(Append(Append(toGdb, Minus), x)) \subseteq AnswerIds(toGdb) \cup {x.id}
  BY <1>1, <1>2, IdsAppend
<1> QED
  BY <1>5, <1>6

\* Only carrying out a command makes an answer gdb has not seen.
LEMMA SeenGrows ==
    ASSUME TypeInv, [Next]_vars
    PROVE  \/ Seen' \subseteq Seen /\ executed' = executed
           \/ run_command /\ Seen' \subseteq Seen \cup {cur.id}
<1>0. toGdb # <<>> /\ toGdb' = Tail(toGdb) => AnswerIds(toGdb') \subseteq AnswerIds(toGdb)
  BY IdsTail DEF TypeInv
<1>1. /\ Minus \in Message /\ Plus \in Message /\ Minus \notin Packet /\ Plus \notin Packet
      /\ Packet \subseteq Message
  BY Kinds DEF Message
<1>2. ASSUME Own' = Own, AnswerIds(toGdb') \subseteq AnswerIds(toGdb), last' = last
      PROVE  Seen' \subseteq Seen
  BY <1>2 DEF Seen
<1>3. CASE scan_ack \/ scan_eof
  <2>1. Own' = Own /\ last' = last /\ executed' = executed
    BY <1>3 DEF scan_ack, scan_eof, client, Own
  <2>2. \E n : Write(handle_error, n)
    BY <1>3 DEF scan_ack, scan_eof
  <2>3. AnswerIds(toGdb') \subseteq AnswerIds(toGdb)
    BY <1>1, <2>2, IdsWritten
  <2> QED
    BY <1>2, <2>1, <2>3
<1>4. CASE scan_nack
  <2>1. Own' = Own /\ last' = last /\ executed' = executed
    BY <1>4 DEF scan_nack, Own
  <2>2. CASE last = NoPacket
    <3>1. Write(handle_error, "scan")
      BY <1>4, <2>2 DEF scan_nack
    <3>2. AnswerIds(toGdb') \subseteq AnswerIds(toGdb)
      BY <1>1, <3>1, IdsWritten
    <3> QED
      BY <1>2, <2>1, <3>2
  <2>3. CASE last # NoPacket
    <3>1. PICK p \in Delivered(last) : Write(handle_error \o <<p>>, "scan")
      BY <1>4, <2>3 DEF scan_nack
    <3>2. p \in Message /\ p.id = last.id
      BY <1>1, <2>3, Kinds DEF Delivered, TypeInv
    <3>3. AnswerIds(toGdb') \subseteq AnswerIds(toGdb) \cup {last.id}
      BY <3>1, <3>2, IdsWritten
    <3> QED
      BY <2>1, <3>3 DEF Seen
  <2> QED
    BY <2>2, <2>3
<1>5. CASE scan_packet
  <2>1. Own' = Own /\ last' = last /\ executed' = executed
    BY <1>5 DEF scan_packet, client, Own
  <2>2. \/ Write(handle_error \o <<Plus>>, "run")
        \/ Write(handle_error \o <<Minus>>, "scan")
    BY <1>5 DEF scan_packet, Plus, Minus
  <2>3. AnswerIds(toGdb') \subseteq AnswerIds(toGdb)
    BY <1>1, <2>2, IdsWritten
  <2> QED
    BY <1>2, <2>1, <2>3
<1>6. CASE scan_junk
  <2>1. Own' = Own /\ last' = last /\ executed' = executed
    BY <1>6 DEF scan_junk, client, Own
  <2>2. CASE Full
    <3>1. Write(handle_error, "scan")
      BY <1>6, <2>2 DEF scan_junk
    <3>2. AnswerIds(toGdb') \subseteq AnswerIds(toGdb)
      BY <1>1, <3>1, IdsWritten
    <3> QED
      BY <1>2, <2>1, <3>2
  <2>3. CASE ~Full
    <3>1. Write(<<>>, "scan")
      BY <1>6, <2>3 DEF scan_junk
    <3>2. toGdb' = toGdb
      BY <3>1, Zenon DEF Write
    <3> QED
      BY <1>2, <2>1, <3>2
  <2> QED
    BY <2>2, <2>3
<1>7. CASE run_command
  <2>1. Own' = Own /\ cur \in Packet
    BY <1>7 DEF run_command, kill_request, gdb_send_buffer, Own, TypeInv
  <2>2. CASE cur.kill
    BY <1>7, <2>1, <2>2 DEF run_command, kill_request, gdb_send_buffer, Seen
  <2>3. CASE ~cur.kill
    <3>1. PICK p \in Delivered(cur) : Write(<<p>>, "scan")
      BY <1>7, <2>3 DEF run_command, kill_request, gdb_send_buffer
    <3>2. p \in Message /\ p.id = cur.id /\ last' = cur
      BY <1>1, <1>7, <2>1, <2>3, Kinds DEF Delivered, run_command, gdb_send_buffer
    <3>3. AnswerIds(toGdb') \subseteq AnswerIds(toGdb) \cup {cur.id}
      BY <3>1, <3>2, IdsWritten
    <3> QED
      BY <1>7, <2>1, <3>2, <3>3 DEF Seen
  <2> QED
    BY <2>2, <2>3
<1>8. CASE gdb_answered
  <2>1. /\ toGdb # <<>> /\ toGdb' = Tail(toGdb) /\ Head(toGdb) \in Packet
        /\ last' = last /\ executed' = executed /\ out.id \in Ids
        /\ taken' = taken \/ taken' = [taken EXCEPT ![out.id] = Head(toGdb).id]
    BY <1>8, HeadTypes, Kinds DEF gdb_answered, Received, TypeInv, server
  <2>2. Head(toGdb).id \in AnswerIds(toGdb)
    BY <2>1, IdsTail DEF TypeInv
  <2>3. Own' \subseteq Own \cup AnswerIds(toGdb)
    BY <2>1, <2>2 DEF Own, TypeInv
  <2> QED
    BY <1>0, <2>1, <2>3 DEF Seen
<1>9. CASE gdb_acked \/ gdb_repeat \/ gdb_ignore
  <2>1. /\ toGdb # <<>> /\ toGdb' = Tail(toGdb)
        /\ Own' = Own /\ last' = last /\ executed' = executed
    BY <1>9 DEF gdb_acked, gdb_repeat, gdb_ignore, Received, server, client, Own
  <2> QED
    BY <1>0, <1>2, <2>1
<1>10. CASE gdb_timeout \/ (\E k \in BOOLEAN : gdb_issue(k)) \/ gdb_stray \/ gdb_close
  <2>1. toGdb' = toGdb /\ Own' = Own /\ last' = last /\ executed' = executed
    BY <1>10 DEF gdb_timeout, gdb_issue, gdb_stray, gdb_close, server, Own
  <2> QED
    BY <1>2, <2>1
<1>11. CASE UNCHANGED vars
  <2>1. toGdb' = toGdb /\ Own' = Own /\ last' = last /\ executed' = executed
    BY <1>11 DEF vars, server, client, Own
  <2> QED
    BY <1>2, <2>1
<1> QED
  BY <1>3, <1>4, <1>5, <1>6, <1>7, <1>8, <1>9, <1>10, <1>11 DEF Next, Server, Client, Terminated

\* No step makes up an answer.
LEMMA SeenStep == TypeInv /\ SeenInv /\ [Next]_vars => SeenInv'
<1> SUFFICES ASSUME TypeInv, SeenInv, [Next]_vars PROVE SeenInv'
  OBVIOUS
<1>1. /\ IsFiniteSet(Seen) /\ Cardinality(Seen) \in Nat /\ Cardinality(Seen) <= executed
      /\ executed \in Nat
  BY FS_CardinalityType DEF SeenInv, TypeInv
<1>2. CASE Seen' \subseteq Seen /\ executed' = executed
  <2>1. IsFiniteSet(Seen') /\ Cardinality(Seen') <= Cardinality(Seen)
    BY <1>1, <1>2, FS_Subset
  <2>2. Cardinality(Seen') \in Nat
    BY <2>1, FS_CardinalityType
  <2> QED
    BY <1>1, <1>2, <2>1, <2>2 DEF SeenInv
<1>3. CASE run_command /\ Seen' \subseteq Seen \cup {cur.id}
  <2>1. /\ IsFiniteSet(Seen \cup {cur.id})
        /\ Cardinality(Seen \cup {cur.id}) <= Cardinality(Seen) + 1
        /\ Cardinality(Seen \cup {cur.id}) \in Nat
    BY <1>1, FS_AddElement, FS_CardinalityType
  <2>2. IsFiniteSet(Seen') /\ Cardinality(Seen') <= Cardinality(Seen \cup {cur.id})
    BY <1>3, <2>1, FS_Subset
  <2>3. Cardinality(Seen') \in Nat /\ executed' = executed + 1
    BY <1>3, <2>2, FS_CardinalityType DEF run_command, kill_request, gdb_send_buffer
  <2> QED
    BY <1>1, <2>1, <2>2, <2>3 DEF SeenInv
<1> QED
  BY <1>2, <1>3, SeenGrows

\* gdb takes one answer for a command, and none before it is issued.
LEMMA TakenStep == TypeInv /\ TakenInv /\ [Next]_vars => TakenInv'
<1> SUFFICES ASSUME TypeInv, TakenInv, [Next]_vars PROVE TakenInv'
  OBVIOUS
<1>0. \A i \in Ids : i \in Nat
  BY DEF Ids
<1>1. CASE Server \/ UNCHANGED vars
  <2>1. taken' = taken /\ out' = out /\ cpc' = cpc
    BY <1>1 DEF Server, scan_ack, scan_nack, scan_packet, scan_junk, run_command,
        kill_request, gdb_send_buffer, scan_eof,
                client, vars
  <2> QED
    BY <2>1 DEF TakenInv
<1>2. CASE gdb_answered
  <2>1. out' = out /\ out.id \in Ids /\ cpc = "reply"
    BY <1>2 DEF gdb_answered, TypeInv
  <2>2. CASE cpc' = "idle" /\ taken' = [taken EXCEPT ![out.id] = Head(toGdb).id]
    BY <1>0, <2>1, <2>2 DEF TakenInv, TypeInv
  <2>3. CASE cpc' = cpc /\ taken' = taken
    BY <2>1, <2>3 DEF TakenInv
  <2> QED
    BY <1>2, <2>2, <2>3 DEF gdb_answered
<1>3. CASE \E k \in BOOLEAN : gdb_issue(k)
  <2>1. taken' = taken /\ out'.id = out.id + 1 /\ out.id \in Nat
    BY <1>3 DEF gdb_issue, TypeInv
  <2> QED
    BY <1>0, <2>1 DEF TakenInv
<1>4. CASE gdb_acked \/ gdb_repeat \/ gdb_timeout \/ gdb_ignore \/ gdb_stray \/ gdb_close
  <2>1. /\ taken' = taken /\ out' = out
        /\ cpc' \in {"ack", "reply"} => cpc \in {"ack", "reply"}
    BY <1>4 DEF gdb_acked, gdb_repeat, gdb_timeout, gdb_ignore, gdb_stray, gdb_close, client
  <2> QED
    BY <2>1 DEF TakenInv
<1> QED
  BY <1>1, <1>2, <1>3, <1>4 DEF Next, Client, Terminated

-----------------------------------------------------------------------------
\* A command is carried out only if one was issued for it or a stray byte
\* paid for its repetition.
LEMMA ExecuteAllowed ==
    ASSUME TypeInv, CreditInv, spc = "run"
    PROVE  executed < out.id + strays
<1>1. /\ Count(toSim, Requests) \in Nat /\ Count(toGdb, {Minus}) \in Nat
      /\ executed \in Nat /\ out.id \in Nat /\ strays \in Nat
  BY CountsTyped DEF TypeInv
<1>2. One(spc = "run") = 1 /\ One(len > 0) \in Nat
  BY DEF One
<1> QED
  BY <1>1, <1>2 DEF CreditInv, Credit

\* gdb has its own answers only to commands the simulator has carried out.
LEMMA OwnSeen ==
    ASSUME TypeInv
    PROVE  IsFiniteSet(Own) /\ Cardinality(Own) \in Nat /\ Own \subseteq Seen
<1>1. IsFiniteSet(Ids) /\ Own \in SUBSET Ids /\ 0 \notin Own
  BY SessionAssumption, FS_Interval DEF Ids, Own
<1>2. IsFiniteSet(Own)
  BY <1>1, FS_Subset
<1> QED
  BY <1>1, <1>2, FS_CardinalityType DEF Seen

\* Without stray bytes gdb issues a command when it has all its answers.
LEMMA IssueAllowed ==
    ASSUME TypeInv, CleanInv, TakenInv, cpc = "idle"
    PROVE  out.id = Cardinality(Own) \/ strays > 0
<1> SUFFICES ASSUME strays = 0 PROVE out.id = Cardinality(Own)
  BY DEF TypeInv
<1>1. OwnTaken
  BY DEF CleanInv
<1>2. out.id \in 0 .. MaxCommands
  BY DEF TypeInv
<1>3. Own = 1 .. out.id
  BY <1>1, <1>2, SessionAssumption DEF Own, OwnTaken, TakenInv, Ids
<1>4. Cardinality(1 .. out.id) = out.id
  BY <1>2, SessionAssumption, FS_Interval
<1> QED
  BY <1>3, <1>4

\* An answer taken is the answer to the command, or leaves the count alone.
LEMMA AnswerAllowed ==
    ASSUME TypeInv, SeenInv, TakenInv, gdb_answered
    PROVE  \/ Cardinality(Own') = Cardinality(Own)
           \/ Cardinality(Own') = Cardinality(Own) + 1 /\ Cardinality(Own) < executed
<1>1. /\ toGdb # <<>> /\ Head(toGdb) \in Packet /\ out.id \in Ids /\ taken[out.id] = 0
      /\ taken' = taken \/ taken' = [taken EXCEPT ![out.id] = Head(toGdb).id]
  BY HeadTypes, Kinds DEF gdb_answered, Received, TypeInv, TakenInv
<1>2. out.id \notin Own /\ out.id # 0
  BY <1>1 DEF Own, Ids
<1>3. CASE taken' = taken
  BY <1>3 DEF Own
<1>4. CASE taken' = [taken EXCEPT ![out.id] = Head(toGdb).id] /\ Head(toGdb).id # out.id
  <2>1. Own' = Own
    BY <1>1, <1>2, <1>4 DEF Own, TypeInv
  <2> QED
    BY <2>1
<1>5. CASE taken' = [taken EXCEPT ![out.id] = Head(toGdb).id] /\ Head(toGdb).id = out.id
  <2>1. Own' = Own \cup {out.id}
    BY <1>1, <1>5 DEF Own, TypeInv
  <2>2. out.id \in Seen
    BY <1>1, <1>2, <1>5, IdsTail DEF Seen, TypeInv
  <2>3. Cardinality(Own \cup {out.id}) = Cardinality(Own) + 1
    BY <1>2, OwnSeen, FS_AddElement
  <2>4. Cardinality(Own \cup {out.id}) <= Cardinality(Seen)
    BY <2>2, OwnSeen, FS_Subset DEF SeenInv
  <2>5. Cardinality(Seen) \in Nat /\ executed \in Nat /\ Cardinality(Own) \in Nat
    BY OwnSeen, FS_CardinalityType DEF SeenInv, TypeInv
  <2> QED
    BY <2>1, <2>3, <2>4, <2>5 DEF SeenInv
<1> QED
  BY <1>1, <1>3, <1>4, <1>5

\* What is inductive.
SessionInv == TypeInv /\ CleanInv /\ CreditInv /\ SeenInv /\ TakenInv

\* Every step of the stream is a step of the remote procedure call or none.
LEMMA StepIsRpc == SessionInv /\ [Next]_vars => [Abstract!Next]_Abstract!vars
<1> SUFFICES ASSUME SessionInv, [Next]_vars
             PROVE  Abstract!Next \/ UNCHANGED <<out.id, executed, Cardinality(Own), strays>>
  BY DEF Abstract!vars, Own
<1> USE DEF SessionInv
<1>1. CASE scan_ack \/ scan_nack \/ scan_packet \/ scan_junk \/ scan_eof
  BY <1>1 DEF scan_ack, scan_nack, scan_packet, scan_junk, scan_eof, client, Own
<1>2. CASE run_command
  <2>1. executed < out.id + strays
    BY <1>2, ExecuteAllowed DEF run_command, kill_request, gdb_send_buffer
  <2> QED
    BY <1>2, <2>1 DEF run_command,
        kill_request, gdb_send_buffer, Abstract!Next, Abstract!Execute
<1>3. CASE \E k \in BOOLEAN : gdb_issue(k)
  <2>1. /\ out.id < MaxCommands /\ out'.id = out.id + 1 /\ strays' \in {strays, strays + 1}
        /\ executed' = executed /\ taken' = taken /\ cpc = "idle"
    BY <1>3 DEF gdb_issue, Transmit, server
  <2>2. out.id = Cardinality({i \in Ids : taken[i] = i}) \/ strays > 0
    BY <2>1, IssueAllowed DEF Own
  <2> QED
    BY <2>1, <2>2 DEF Abstract!Next, Abstract!Issue
<1>4. CASE gdb_repeat \/ gdb_timeout \/ gdb_stray
  <2>1. /\ out' = out /\ executed' = executed /\ taken' = taken
        /\ strays' \in {strays, strays + 1}
    BY <1>4 DEF gdb_repeat, gdb_timeout, gdb_stray, Transmit, server
  <2> QED
    BY <2>1 DEF Abstract!Next, Abstract!Stray, Own
<1>5. CASE gdb_answered
  <2>1. out' = out /\ executed' = executed /\ strays' = strays
    BY <1>5 DEF gdb_answered, server
  <2>2. CASE Cardinality(Own') = Cardinality(Own)
    BY <2>1, <2>2
  <2>3. CASE Cardinality(Own') = Cardinality(Own) + 1 /\ Cardinality(Own) < executed
    BY <2>1, <2>3 DEF Abstract!Next, Abstract!Answer, Own
  <2> QED
    BY <1>5, <2>2, <2>3, AnswerAllowed
<1>6. CASE gdb_acked \/ gdb_ignore \/ gdb_close \/ UNCHANGED vars
  BY <1>6 DEF gdb_acked, gdb_ignore, gdb_close, server, client, vars, Own
<1> QED
  BY <1>1, <1>2, <1>3, <1>4, <1>5, <1>6 DEF Next, Server, Client, Terminated

\* Whatever is damaged on the way and however often gdb retries, the commands
\* are carried out exactly once, in order, and gdb takes the answer to the
\* command it asked for; each byte outside a packet can cost one repetition
\* (scanner.l:40-48, 67-70, gdb_protocol.c:410-449).
THEOREM CommandsExactlyOnce == Safety => ExactlyOnce
<1>1. Init => SessionInv /\ Abstract!Init
  <2> SUFFICES ASSUME Init PROVE SessionInv /\ Abstract!Init
    OBVIOUS
  <2>1. TypeInv /\ CleanInv
    BY SessionStart
  <2>2. Own = {} /\ AnswerIds(toGdb) = {} /\ last.id = 0 /\ out.id = 0
    BY Kinds DEF Init, Own, Ids, AnswerIds, Where
  <2>3. SeenInv
    <3>1. Seen = {}
      BY <2>2 DEF Seen
    <3> QED
      BY <3>1, FS_EmptySet DEF SeenInv, Init
  <2>4. TakenInv
    BY DEF Init, TakenInv
  <2>5. CreditInv
    <3>1. Count(toSim, Requests) = 0 /\ Count(toGdb, {Minus}) = 0
      BY CountEmpty DEF Init
    <3>2. One(spc = "run") = 0 /\ One(len > 0) = 0 /\ executed = 0 /\ strays = 0 /\ ~Silent
      BY DEF Init, One, Silent
    <3> QED
      BY <2>2, <3>1, <3>2 DEF CreditInv, Credit
  <2>6. Abstract!Init
    BY <2>2, FS_EmptySet DEF Init, Abstract!Init, Own
  <2> QED
    BY <2>1, <2>3, <2>4, <2>5, <2>6 DEF SessionInv
<1>2. SessionInv /\ [Next]_vars => SessionInv'
  BY StepTypes, CleanStep, CreditStep, SeenStep, TakenStep DEF SessionInv
<1> QED
  BY <1>1, <1>2, StepIsRpc, PTL DEF Safety, ExactlyOnce, Abstract!Spec
=============================================================================
