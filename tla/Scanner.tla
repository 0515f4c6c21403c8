------------------------------- MODULE Scanner --------------------------------
(***************************************************************************)
(* scanner.c: the scanner flex generated from scanner.l, on the byte       *)
(* stream that arrives from gdb in pieces.  The automaton is the one of    *)
(* the generated tables; a match runs up to the end-of-buffer mark, is     *)
(* resumed once more bytes are read, and backs up to the last accepting    *)
(* state when it jams.  What the rules do with a token is the subject of   *)
(* GdbSession; here a token is its rule and its text.                      *)
(*                                                                         *)
(* Positions are offsets in yy_ch_buf.  Memory allocation succeeds.        *)
(***************************************************************************)
EXTENDS Integers, Sequences, SequencesExt

CONSTANTS
    YY_BUF_SIZE,      \* 16384, the first size of the buffer
    YY_READ_BUF_SIZE, \* 8192, the most one read asks for
    Streams           \* what gdb may send before it closes, bytes

ASSUME ScannerAssumption ==
    /\ YY_BUF_SIZE \in Nat \ {0} /\ YY_READ_BUF_SIZE \in Nat \ {0}
    /\ \A s \in Streams : s \in Seq(0 .. 255)

VARIABLES
    stream, nread,    \* what gdb sends, and how much of it was read
    pc,               \* the label of yylex the scanner is at
    yy_ch_buf,        \* the buffer: text read, then two end-of-buffer marks
    yy_n_chars,       \* bytes of text in it
    yy_buf_size,
    yy_buffer_status, \* "new", "normal", "eof_pending"
    yy_bp, yy_cp,     \* start of the current token, next character
    yy_hold_char,     \* what the '\0' after yytext replaced
    yy_current_state,
    yy_last_accepting, \* state and position to back up to
    tokens,           \* the tokens whose rules were run
    heap              \* what yylex_destroy has to free

buffer == <<yy_ch_buf, yy_n_chars, yy_buf_size, yy_buffer_status>>
match == <<yy_bp, yy_cp, yy_hold_char, yy_current_state, yy_last_accepting>>
vars == <<stream, nread, pc, buffer, match, tokens, heap>>

Table(s) == [i \in 0 .. Len(s) - 1 |-> s[i + 1]]

yy_accept == Table(<<0, 0, 0, 6, 4, 5, 4, 1, 2, 0, 0, 0, 3, 0>>)
yy_meta == Table(<<0, 1, 1, 1, 2, 1, 1, 1>>)
yy_base == Table(<<0, 0, 0, 13, 14, 14, 9, 14, 14, 8, 3, 2, 14, 14, 7>>)
yy_def == Table(<<0, 13, 1, 13, 13, 13, 14, 13, 13, 14, 13, 13, 13, 0, 13>>)
yy_nxt == Table(<<0, 4, 5, 4, 6, 7, 8, 4, 9, 12, 11, 10, 10, 13, 3, 13, 13, 13,
                  13, 13, 13, 13>>)
yy_chk == Table(<<0, 1, 1, 1, 1, 1, 1, 1, 14, 11, 10, 9, 6, 3, 13, 13, 13, 13,
                  13, 13, 13, 13>>)

Hex == (48 .. 57) \cup (65 .. 70) \cup (97 .. 102)

\* The class of a byte: newline, '#', '$', '+', '-', hexadecimal, others.
yy_ec(c) ==
    CASE c = 0 -> 0 [] c = 10 -> 2 [] c = 35 -> 3 [] c = 36 -> 4
      [] c = 43 -> 5 [] c = 45 -> 6 [] c \in Hex -> 7 [] OTHER -> 1

\* The state after a character of class c, through the default states.
yy_trans[p \in (0 .. 14) \X (0 .. 7)] ==
    LET s == p[1]
        c == p[2]
        d == yy_def[s]
    IN  IF yy_chk[yy_base[s] + c] = s THEN yy_nxt[yy_base[s] + c]
        ELSE yy_trans[<<d, IF d >= 14 THEN yy_meta[c] ELSE c>>]

-----------------------------------------------------------------------------
Init ==
    /\ stream \in Streams /\ nread = 0
    /\ pc = "start"
    /\ yy_ch_buf = Table(<<>>) /\ yy_n_chars = 0 /\ yy_buf_size = 0
    /\ yy_buffer_status = "new"
    /\ yy_bp = 0 /\ yy_cp = 0 /\ yy_hold_char = 0 /\ yy_current_state = 0
    /\ yy_last_accepting = [state |-> 0, cpos |-> 0]
    /\ tokens = <<>> /\ heap = {}

\* yylex_init_extra allocates the state of the scanner.
yylex_init_extra == heap' = {"guts"}

\* gdb_scanner: no scanner without an input stream.
gdb_scanner ==
    /\ pc = "start"
    /\ \/ pc' = "done" /\ UNCHANGED heap
       \/ pc' = "init" /\ yylex_init_extra
    /\ UNCHANGED <<stream, nread, buffer, match, tokens>>

\* yy_flush_buffer: an empty buffer and its two marks, to be filled.
yy_flush_buffer ==
    /\ yy_ch_buf' = Table(<<0, 0>>) /\ yy_n_chars' = 0
    /\ yy_buffer_status' = "new"

\* yy_load_buffer_state, for an empty buffer.
yy_load_buffer_state ==
    yy_bp' = 0 /\ yy_cp' = 0 /\ yy_hold_char' = 0

\* yyrestart, with the buffer that exists.
yyrestart == yy_flush_buffer /\ yy_load_buffer_state

\* What yyensure_buffer_stack and yy_create_buffer allocate.
yyensure_buffer_stack == {"stack"}
yy_create_buffer == {"buffer", "chars"}

\* The first call of yylex creates the stack of buffers and a buffer.
yylex_first ==
    /\ pc = "init" /\ pc' = "token"
    /\ heap' = heap \cup yyensure_buffer_stack \cup yy_create_buffer
    /\ yy_buf_size' = YY_BUF_SIZE
    /\ yy_flush_buffer /\ yy_load_buffer_state
    /\ UNCHANGED <<stream, nread, yy_current_state, yy_last_accepting, tokens>>

\* A new token starts where the last one ended.
yylex_token ==
    /\ pc = "token" /\ pc' = "match"
    /\ yy_ch_buf' = [yy_ch_buf EXCEPT ![yy_cp] = yy_hold_char]
    /\ yy_bp' = yy_cp /\ yy_current_state' = 1
    /\ UNCHANGED <<stream, nread, yy_n_chars, yy_buf_size, yy_buffer_status,
                   yy_cp, yy_hold_char, yy_last_accepting, tokens, heap>>

Accepting(s, p) ==
    IF yy_accept[s] # 0 THEN [state |-> s, cpos |-> p] ELSE yy_last_accepting

\* Mutant: a complete token waits for the character after it.
yy_match_looks_ahead ==
    /\ pc = "match"
    /\ yy_last_accepting' = Accepting(yy_current_state, yy_cp)
    /\ yy_current_state' = yy_trans[<<yy_current_state, yy_ec(yy_ch_buf[yy_cp])>>]
    /\ yy_cp' = yy_cp + 1
    /\ pc' = IF yy_current_state' # 13 THEN "match" ELSE "find_action"
    /\ UNCHANGED <<stream, nread, buffer, yy_bp, yy_hold_char, tokens, heap>>

\* yy_match: one character, up to a state that no character can leave.
yy_match ==
    /\ pc = "match"
    /\ yy_last_accepting' = Accepting(yy_current_state, yy_cp)
    /\ yy_current_state' = yy_trans[<<yy_current_state, yy_ec(yy_ch_buf[yy_cp])>>]
    /\ yy_cp' = yy_cp + 1
    /\ pc' = IF yy_base[yy_current_state'] # 14 THEN "match" ELSE "find_action"
    /\ UNCHANGED <<stream, nread, buffer, yy_bp, yy_hold_char, tokens, heap>>

\* yy_find_action: back up when the state does not accept, then set up yytext.
yy_find_action ==
    LET back == yy_accept[yy_current_state] = 0
    IN  /\ pc = "find_action" /\ pc' = "action"
        /\ yy_current_state' = IF back THEN yy_last_accepting.state ELSE yy_current_state
        /\ yy_cp' = IF back THEN yy_last_accepting.cpos ELSE yy_cp
        /\ yy_hold_char' = yy_ch_buf[yy_cp']
        /\ yy_ch_buf' = [yy_ch_buf EXCEPT ![yy_cp'] = 0]
        /\ UNCHANGED <<stream, nread, yy_n_chars, yy_buf_size, yy_buffer_status,
                       yy_bp, yy_last_accepting, tokens, heap>>

yy_act == yy_accept[yy_current_state]
yytext == [i \in 1 .. yy_cp - yy_bp |-> yy_ch_buf[yy_bp + i - 1]]

\* The rules: '+', '-', a packet, another character, and the default rule that
\* echoes a newline.
yylex_rule ==
    /\ pc = "action" /\ yy_act \in 1 .. 5 /\ pc' = "token"
    /\ tokens' = Append(tokens, <<yy_act, yytext>>)
    /\ UNCHANGED <<stream, nread, buffer, match, heap>>

-----------------------------------------------------------------------------
(***************************************************************************)
(* The end-of-buffer mark                                                  *)
(***************************************************************************)
\* The buffer with the byte under the '\0' put back.
Restored == [yy_ch_buf EXCEPT ![yy_cp] = yy_hold_char]

\* A NUL is a character of class 1 where it is known to be text.
TextClass(c) == IF c = 0 THEN 1 ELSE yy_ec(c)

\* yy_get_previous_state: the state after the text from bp up to the position
\* to, and the accepting state met last on the way.
yy_get_previous_state(buf, bp, to) ==
    LET state[p \in bp .. to] ==
            IF p = bp THEN 1 ELSE yy_trans[<<state[p - 1], TextClass(buf[p - 1])>>]
        accepting == {p \in bp .. to - 1 : yy_accept[state[p]] # 0}
        cpos == CHOOSE p \in accepting : \A q \in accepting : q <= p
    IN  [state |-> state[to],
         last |-> IF accepting = {} THEN yy_last_accepting
                  ELSE [state |-> state[cpos], cpos |-> cpos]]

\* yy_try_NUL_trans: 0 when the automaton jams.
yy_try_NUL_trans(s) == IF yy_trans[<<s, 1>>] = 13 THEN 0 ELSE yy_trans[<<s, 1>>]

EndOfBuffer == pc = "action" /\ yy_act = 6

\* A buffer just created or restarted is known to hold what was read into it.
Known == yy_buffer_status' = IF yy_buffer_status = "new" THEN "normal" ELSE yy_buffer_status

\* The mark was a NUL of the text: it is matched as a character.
end_of_buffer_nul ==
    LET prev == yy_get_previous_state(Restored, yy_bp, yy_cp - 1)
        next == yy_try_NUL_trans(prev.state)
    IN  /\ EndOfBuffer /\ yy_cp <= yy_n_chars
        /\ yy_ch_buf' = Restored /\ Known
        /\ yy_last_accepting' = IF yy_accept[prev.state] # 0
                                THEN [state |-> prev.state, cpos |-> yy_cp - 1]
                                ELSE prev.last
        /\ \/ /\ next # 0 /\ pc' = "match"
              /\ yy_current_state' = next /\ UNCHANGED yy_cp
           \/ /\ next = 0 /\ pc' = "find_action"
              /\ yy_current_state' = prev.state /\ yy_cp' = yy_cp - 1
        /\ UNCHANGED <<stream, nread, yy_n_chars, yy_buf_size, yy_bp,
                       yy_hold_char, tokens, heap>>

number_to_move == yy_cp - yy_bp - 1

\* The buffer is doubled until there is room for one more byte.  Past 2^30
\* bytes, where the doubled int is no longer positive, the code grows by an
\* eighth instead (scanner.c:1020-1021); this is left out.
Grown(size) ==
    CHOOSE new \in size .. size + 2 * number_to_move + 2 :
        /\ \E k \in 0 .. number_to_move + 1 : new = size * 2 ^ k
        /\ new - number_to_move - 1 > 0
        /\ new = size \/ (new \div 2) - number_to_move - 1 <= 0

\* yy_get_next_buffer, before the read: the text of the token that began moves
\* to the start of the buffer.
yy_get_next_buffer ==
    /\ EndOfBuffer /\ yy_cp > yy_n_chars
    /\ pc' = "read" /\ Known
    /\ yy_ch_buf' = [i \in 0 .. number_to_move - 1 |-> Restored[yy_bp + i]]
    /\ yy_n_chars' = number_to_move
    /\ yy_buf_size' = IF yy_buffer_status = "eof_pending" THEN yy_buf_size
                      ELSE Grown(yy_buf_size)
    /\ yy_bp' = 0 /\ yy_cp' = number_to_move
    /\ UNCHANGED <<stream, nread, yy_hold_char, yy_current_state,
                   yy_last_accepting, tokens, heap>>

num_to_read ==
    LET room == yy_buf_size - yy_n_chars - 1
    IN  IF room > YY_READ_BUF_SIZE THEN YY_READ_BUF_SIZE ELSE room

\* Mutant: one mark only ends the buffer.
Filled_one_mark(n) ==
    [i \in 0 .. yy_n_chars + n |->
        IF i < yy_n_chars THEN yy_ch_buf[i]
        ELSE IF i < yy_n_chars + n THEN stream[nread + 1 + i - yy_n_chars] ELSE 0]

\* The buffer after n more bytes, with its two marks.
Filled(n) ==
    [i \in 0 .. yy_n_chars + n + 1 |->
        IF i < yy_n_chars THEN yy_ch_buf[i]
        ELSE IF i < yy_n_chars + n THEN stream[nread + 1 + i - yy_n_chars] ELSE 0]

Resume(n) ==
    LET prev == yy_get_previous_state(Filled(n), yy_bp, yy_cp)
    IN  yy_current_state' = prev.state /\ yy_last_accepting' = prev.last

\* YY_INPUT gives some of the bytes under way, never more than there is room
\* for.  A read that a signal interrupts is repeated.
YY_INPUT(n) ==
    /\ n <= num_to_read /\ nread + n <= Len(stream)
    /\ nread' = nread + n

\* EOB_ACT_CONTINUE_SCAN: the match goes on where the mark stopped it.
yy_input(n) ==
    /\ pc = "read" /\ yy_buffer_status # "eof_pending"
    /\ YY_INPUT(n)
    /\ yy_ch_buf' = Filled(n) /\ yy_n_chars' = yy_n_chars + n
    /\ Resume(n) /\ pc' = "match"
    /\ UNCHANGED <<stream, yy_buf_size, yy_buffer_status, yy_bp, yy_cp,
                   yy_hold_char, tokens, heap>>

\* No byte is read: an end of file already met is not asked for again, and a
\* read that asks for nothing looks the same as the end of file.
Eof ==
    /\ pc = "read"
    /\ yy_buffer_status = "eof_pending" \/ nread = Len(stream) \/ num_to_read <= 0

\* Mutant: the end of file ends the scan whatever text is left.
yy_input_last_ends ==
    /\ Eof /\ yy_n_chars > 0
    /\ yyrestart
    /\ pc' = "eof"
    /\ UNCHANGED <<stream, nread, yy_buf_size, yy_current_state,
                   yy_last_accepting, tokens, heap>>

\* EOB_ACT_LAST_MATCH: end of file after the start of a token.
yy_input_last ==
    /\ Eof /\ yy_n_chars > 0
    /\ yy_ch_buf' = Filled(0)
    /\ yy_buffer_status' = "eof_pending"
    /\ Resume(0) /\ pc' = "find_action"
    /\ UNCHANGED <<stream, nread, yy_n_chars, yy_buf_size, yy_bp, yy_cp,
                   yy_hold_char, tokens, heap>>

\* Mutant: yywrap asks for another file, the same connection is read again.
yy_input_eof_wraps ==
    /\ Eof /\ yy_n_chars = 0
    /\ yyrestart
    /\ pc' = "token"
    /\ UNCHANGED <<stream, nread, yy_buf_size, yy_current_state,
                   yy_last_accepting, tokens, heap>>

\* EOB_ACT_END_OF_FILE: yyrestart, and the rule for <<EOF>> returns.
yy_input_eof ==
    /\ Eof /\ yy_n_chars = 0
    /\ yyrestart
    /\ pc' = "eof"
    /\ UNCHANGED <<stream, nread, yy_buf_size, yy_current_state,
                   yy_last_accepting, tokens, heap>>

\* yy_fatal_error: a read that fails ends the whole simulator.
yy_fatal_error ==
    /\ pc = "read" /\ yy_buffer_status # "eof_pending" /\ pc' = "exit"
    /\ UNCHANGED <<stream, nread, buffer, match, tokens, heap>>

\* What yy_delete_buffer frees.
yy_delete_buffer == {"buffer", "chars"}

yylex_destroy ==
    /\ pc = "eof" /\ pc' = "done"
    /\ heap' = heap \ ({"guts", "stack"} \cup yy_delete_buffer)
    /\ UNCHANGED <<stream, nread, buffer, match, tokens>>

Terminated == pc \in {"done", "exit"} /\ UNCHANGED vars

Next ==
    \/ gdb_scanner \/ yylex_first
    \/ yylex_token \/ yy_match \/ yy_find_action \/ yylex_rule
    \/ end_of_buffer_nul \/ yy_get_next_buffer
    \/ \E n \in 1 .. Len(stream) : yy_input(n)
    \/ yy_input_last \/ yy_input_eof \/ yy_fatal_error
    \/ yylex_destroy \/ Terminated

\* The scanner goes on, and gdb closes the connection after its last byte.
Spec == Init /\ [][Next]_vars /\ WF_vars(Next)

-----------------------------------------------------------------------------
(***************************************************************************)
(* The rules of scanner.l, longest match first                             *)
(***************************************************************************)
\* The end of the packet that starts at i, 0 when there is none.
PacketEnd(s, i) ==
    LET ends == {j \in i + 1 .. Len(s) - 2 :
                    /\ s[j] = 35 /\ s[j + 1] \in Hex /\ s[j + 2] \in Hex
                    /\ \A k \in i + 1 .. j - 1 : s[k] \notin {35, 36}}
    IN  IF s[i] # 36 \/ ends = {} THEN 0 ELSE (CHOOSE j \in ends : TRUE) + 2

\* More bytes could still make a packet of the text from i on.  A last NUL
\* waits for the byte after it too, which changes nothing: it is an invalid
\* character, complained about before the next token or at the end of file.
Undecided(s, i) ==
    \/ /\ s[i] = 36 /\ PacketEnd(s, i) = 0
       /\ \A k \in i + 1 .. Len(s) :
            \/ s[k] \notin {35, 36}
            \/ s[k] = 35 /\ (k = Len(s) \/ (k = Len(s) - 1 /\ s[k + 1] \in Hex))
    \/ s[i] = 0 /\ i = Len(s)

RuleOf(c) == CASE c = 43 -> 1 [] c = 45 -> 2 [] c = 10 -> 5 [] OTHER -> 4

\* The tokens of s, up to a token more bytes could still make longer unless
\* the stream has ended.
TokensOf(s, ended) ==
    LET from[i \in 1 .. Len(s) + 1] ==
            IF i > Len(s) \/ (~ended /\ Undecided(s, i)) THEN <<>>
            ELSE LET end == PacketEnd(s, i)
                 IN  IF end # 0 THEN <<<<3, SubSeq(s, i, end)>>>> \o from[end + 1]
                     ELSE <<<<RuleOf(s[i]), <<s[i]>>>>>> \o from[i + 1]
    IN  from[1]

\* Positions stay in the text and its two marks, text in the buffer
\* (scanner.c:989-1047); nothing is used that is not allocated, and all of it
\* is freed once the connection is closed (scanner.c:1860-1887).
TypeOK ==
    /\ pc \in {"start", "init", "token", "match", "find_action", "action",
               "read", "eof", "done", "exit"}
    /\ nread \in 0 .. Len(stream)
    /\ yy_current_state \in 0 .. 14 /\ yy_act \in 0 .. 6
    /\ pc \notin {"start", "init", "done", "exit"} =>
        /\ heap = {"guts", "stack", "buffer", "chars"}
        /\ yy_n_chars <= yy_buf_size
    /\ pc = "done" => heap = {}
    /\ pc \in {"token", "match", "find_action", "action"} =>
        /\ DOMAIN yy_ch_buf = 0 .. yy_n_chars + 1
        /\ yy_bp <= yy_cp /\ yy_cp <= yy_n_chars + (IF pc = "find_action" THEN 2 ELSE 1)

\* However the reads cut the stream, and wherever a token meets the end of the
\* buffer, a NUL or a jam, the rules are run for the longest matches of
\* scanner.l, in order, with their bytes unchanged (scanner.c:727-1151).
LongestMatches ==
    /\ IsPrefix(tokens, TokensOf(stream, TRUE))
    /\ pc = "eof" => tokens = TokensOf(stream, TRUE)

\* Before the scanner waits for bytes it has run the rule of every token the
\* bytes read so far decide: gdb, which waits for the acknowledgement of a
\* packet before it sends another byte, is never left waiting
\* (scanner.l:56, always-interactive; scanner.c:757).
NoTokenHeldBack ==
    pc = "read" /\ yy_buffer_status # "eof_pending" =>
        tokens = TokensOf(SubSeq(stream, 1, nread), FALSE)

\* The scanner ends: back up, NULs and end of buffer never make it run in
\* circles (scanner.c:819-936).  Here the action of a rule is one step; it says
\* nothing of a continue that does not return to the scanner.
ScannerTerminates == <>(pc \in {"done", "exit"})
=============================================================================
