------------------------------- MODULE LoadStore -------------------------------
(***************************************************************************)
(* arm_load_store.c: loads and stores of a word or a byte, of a half word  *)
(* and of several registers, on a little endian host and target.  The      *)
(* state m has the registers and flags of DataProcessing, the T bit of the *)
(* status word and the bytes of memory.  The mode of the processor is      *)
(* always USR (nothing in the program changes it), so that                 *)
(* arm_write_usr_register is arm_write_register.                           *)
(*                                                                         *)
(* An instruction is a record of its fields: load is bit L, before P, up   *)
(* U, write W.                                                             *)
(***************************************************************************)
EXTENDS DataProcessing, FiniteSets, FiniteSetsExt

CONSTANTS
    Size,        \* bytes of memory
    NibbleMod,   \* 16: half word offsets are encoded as two nibbles
    OffsetMod,   \* 256: the half word offset is a uint8_t
    Starts,      \* states the debugger may prepare
    Transfers,   \* the load and store instructions of programs
    MaxSteps     \* bound on the instructions executed

VARIABLE steps

Address == 0 .. Size - 1

Byte == 0 .. Pow2[ByteBits] - 1

FullMachine ==
    [reg : [RegNo -> Word], N : {0, 1}, Z : {0, 1}, C : {0, 1}, V : {0, 1}, T : {0, 1},
     mem : [Address -> Byte]]

SingleTransfer ==
    [class : {"single"}, cond : Conditions, load : BOOLEAN, byte : BOOLEAN,
     before : BOOLEAN, up : BOOLEAN, write : BOOLEAN, rn : RegNo, rd : RegNo,
     offset : [kind : {"immediate"}, value : Nat]
              \cup [kind : {"scaled"}, rm : RegNo, type : 0 .. 3, count : Place]]

MultipleTransfer ==
    [class : {"multiple"}, cond : Conditions, load : BOOLEAN, before : BOOLEAN,
     up : BOOLEAN, write : BOOLEAN, rn : RegNo, list : SUBSET RegNo]

HalfTransfer ==
    [class : {"half"}, cond : Conditions, load : BOOLEAN, before : BOOLEAN,
     up : BOOLEAN, write : BOOLEAN, rn : RegNo, rd : RegNo,
     offset : [kind : {"immediate"}, value : Nat] \cup [kind : {"scaled"}, rm : RegNo]]

ASSUME LoadStoreAssumption ==
    /\ Bits = 4 * ByteBits /\ Size \in Nat /\ Size % 4 = 0 /\ Size < Pow2[Bits]
    /\ NibbleMod \in Nat \ {0} /\ OffsetMod \in Nat \ {0} /\ MaxSteps \in Nat
    /\ Starts \subseteq FullMachine
    /\ Transfers \subseteq SingleTransfer \cup MultipleTransfer \cup HalfTransfer

-----------------------------------------------------------------------------
(***************************************************************************)
(* Memory, as memory.c gives it on this host and target                    *)
(***************************************************************************)
Accepted(a, n) == a < Size /\ a % n = 0

ByteOf(v, j) == (v \div Pow2[ByteBits * j]) % Pow2[ByteBits]

\* The n bytes at a as a number.
Loaded(k, a, n) == Total([j \in 0 .. n - 1 |-> k.mem[a + j] * Pow2[ByteBits * j]], n)

Read(k, a, n, otherwise) == IF Accepted(a, n) THEN Loaded(k, a, n) ELSE otherwise

Write(k, a, n, v) ==
    IF Accepted(a, n)
    THEN [k EXCEPT !.mem = [x \in Address |->
             IF x \in a .. a + n - 1 THEN ByteOf(v, x - a) ELSE k.mem[x]]]
    ELSE k

\* A word loaded into the pc: bit 0 goes to T.
LoadPc(k, pc, value) == [arm_write_register(k, PC, pc) EXCEPT !.T = value % 2]

-----------------------------------------------------------------------------
(***************************************************************************)
(* arm_load_store                                                          *)
(***************************************************************************)
\* The cases LSR and ASR fall through to ROR; RRX is a logical or.
Index(k, o) ==
    CASE o.kind = "immediate" -> {o.value}
      [] o.kind = "scaled" ->
            LET x == arm_read_register(k, o.rm)
            IN  IF o.type = 0 THEN ShiftLeft(x, o.count)
                ELSE IF o.count = 0 THEN {Bit(k.C = 1 \/ x \div 2 # 0)}
                ELSE ror(x, o.count)

Moved(base, up, by) == Wrap(IF up THEN base + by ELSE base - by)

\* Mutant: a post-indexed access uses the updated base.
Transfer_updated_address(k, i, index) ==
    LET address == Moved(arm_read_register(k, i.rn), i.up, index)
    IN  [address |-> address,
         machine |-> IF ~i.before \/ i.write THEN arm_write_register(k, i.rn, address)
                     ELSE k]

\* The address accessed, and the machine once the base is written back.
Transfer(k, i, index) ==
    LET base == arm_read_register(k, i.rn)
        moved == Moved(base, i.up, index)
    IN  [address |-> IF i.before THEN moved ELSE base,
         machine |-> IF ~i.before \/ i.write THEN arm_write_register(k, i.rn, moved)
                     ELSE k]

\* A refused load gives zero; a store takes rd after the base is written back.
Access(i, t) ==
    LET n == IF i.byte THEN 1 ELSE 4
        value == Read(t.machine, t.address, n, 0)
    IN  IF ~i.load
        THEN Write(t.machine, t.address, n, arm_read_register(t.machine, i.rd))
        ELSE IF i.rd = PC THEN LoadPc(t.machine, value - (value % 2), value)
        ELSE arm_write_register(t.machine, i.rd, value)

arm_load_store(k, i) ==
    IF ConditionPassed(k, i.cond)
    THEN {Access(i, Transfer(k, i, index)) : index \in Index(k, i.offset)}
    ELSE {k}

-----------------------------------------------------------------------------
(***************************************************************************)
(* arm_load_store_multiple                                                 *)
(***************************************************************************)
\* The registers counted and stored: the pc is not one of them.
Listed(i) == i.list \ {PC}

Position(i, r) == Cardinality({q \in Listed(i) : q < r})

\* Mutant: decrement before starts at the base.
StartAddress_at_base(base, i) ==
    LET bytes == 4 * Cardinality(Listed(i))
    IN  Wrap(base + (IF i.up THEN (IF i.before THEN 4 ELSE 0) ELSE -bytes + 4))

StartAddress(base, i) ==
    LET bytes == 4 * Cardinality(Listed(i))
    IN  Wrap(base + (IF i.up THEN (IF i.before THEN 4 ELSE 0)
                             ELSE (IF i.before THEN -bytes ELSE 4 - bytes)))

\* The base is written back before any register is loaded or stored.
WriteBack(k, i) ==
    IF i.write
    THEN arm_write_register(k, i.rn, Moved(arm_read_register(k, i.rn), i.up,
                                           4 * Cardinality(Listed(i))))
    ELSE k

\* `value` after the transfer at position p: a refused word leaves the one
\* before it, zero at first.
ValueAt(k, start, p) ==
    LET read == {q \in 0 .. p : Accepted(Wrap(start + 4 * q), 4)}
    IN  IF read = {} THEN 0 ELSE Loaded(k, Wrap(start + 4 * Max(read)), 4)

\* The pc gets `value && 0xFFFFFFFE`, which is 0 or 1.
LoadMultiple(k, i, start) ==
    LET low == [k EXCEPT !.reg = [r \in RegNo |->
                    IF r \in Listed(i) THEN ValueAt(k, start, Position(i, r))
                                       ELSE k.reg[r]]]
        last == ValueAt(k, start, Cardinality(Listed(i)))
    IN  IF PC \in i.list THEN LoadPc(low, Bit(last # 0), last) ELSE low

\* Stores to different words commute.
StoreMultiple(k, i, start) ==
    LET Holds(r, x) == LET a == Wrap(start + 4 * Position(i, r))
                       IN  Accepted(a, 4) /\ x \in a .. a + 3
    IN  [k EXCEPT !.mem = [x \in Address |->
            IF \E r \in Listed(i) : Holds(r, x)
            THEN ByteOf(arm_read_register(k, CHOOSE r \in Listed(i) : Holds(r, x)), x % 4)
            ELSE k.mem[x]]]

\* Mutant: the base is written back although the condition failed.
arm_load_store_multiple_moves_base(k, i) ==
    LET start == StartAddress(arm_read_register(k, i.rn), i)
        w == WriteBack(k, i)
    IN  IF ~ConditionPassed(k, i.cond) THEN {w}
        ELSE IF i.load THEN {LoadMultiple(w, i, start)}
        ELSE {StoreMultiple(w, i, start)}

\* The result, 1 when the addresses do not add up, is dropped by the caller.
arm_load_store_multiple(k, i) ==
    LET start == StartAddress(arm_read_register(k, i.rn), i)
        w == WriteBack(k, i)
    IN  IF ~ConditionPassed(k, i.cond) THEN {k}
        ELSE IF i.load THEN {LoadMultiple(w, i, start)}
        ELSE {StoreMultiple(w, i, start)}

-----------------------------------------------------------------------------
(***************************************************************************)
(* arm_load_store_half                                                     *)
(***************************************************************************)
HalfOffset(k, o) ==
    IF o.kind = "immediate" THEN o.value ELSE arm_read_register(k, o.rm) % OffsetMod

\* rm_immedL: the low nibble of the immediate, or the number of the register.
LowNibble(o) == IF o.kind = "immediate" THEN o.value % NibbleMod ELSE o.rm

\* Post-indexing adds rm_immedL, whatever the condition and the direction;
\* with W it is undone.
arm_load_store_half(k, i) ==
    LET base == arm_read_register(k, i.rn)
        address == IF i.before THEN Moved(base, i.up, HalfOffset(k, i.offset)) ELSE base
        indexed == IF i.before THEN k
                   ELSE arm_write_register(k, i.rn, Wrap(base + LowNibble(i.offset)))
        w == IF i.write THEN arm_write_register(indexed, i.rn, address) ELSE indexed
    IN  IF ~ConditionPassed(k, i.cond) THEN {indexed}
        ELSE IF i.load THEN {arm_write_register(w, i.rd, Read(w, address, 2, 0))}
        ELSE {Write(w, address, 2, arm_read_register(w, i.rd))}

-----------------------------------------------------------------------------
Execute(k, i) ==
    CASE i.class = "single" -> arm_load_store(k, i)
      [] i.class = "multiple" -> arm_load_store_multiple(k, i)
      [] i.class = "half" -> arm_load_store_half(k, i)

Prepared == m \in Starts /\ steps = 0

Perform ==
    /\ steps < MaxSteps /\ steps' = steps + 1
    /\ \E i \in Transfers : m' \in Execute(arm_fetch(m), i)

LoadStoreSpec == Prepared /\ [][Perform]_<<m, steps>>

-----------------------------------------------------------------------------
Multiple(load, before, up, list) ==
    [class |-> "multiple", cond |-> "AL", load |-> load, before |-> before,
     up |-> up, write |-> TRUE, rn |-> 0, list |-> list]

Single(load, before, up, o) ==
    [class |-> "single", cond |-> "AL", load |-> load, byte |-> FALSE,
     before |-> before, up |-> up, write |-> before, rn |-> 0, rd |-> 1,
     offset |-> [kind |-> "immediate", value |-> o]]

\* The pushed registers are used for something else.
Scratched(k, list) ==
    [k EXCEPT !.reg = [r \in RegNo |->
        IF r \in list THEN Wrap(k.reg[r] + 1) ELSE k.reg[r]]]

\* Every way of pushing registers on a stack is undone by the opposite way of
\* popping them: registers and base come back, as long as the stack lies in
\* memory (arm_load_store.c:129-196).
StackDiscipline ==
    \A list \in SUBSET (RegNo \ {0, PC}) : \A before, up \in BOOLEAN :
        LET push == Multiple(FALSE, before, up, list)
            pop == Multiple(TRUE, ~before, ~up, list)
            start == StartAddress(m.reg[0], push)
        IN  (list # {} /\ start % 4 = 0 /\ start + 4 * Cardinality(list) <= Size) =>
            \A k \in arm_load_store_multiple(m, push) :
            \A r \in arm_load_store_multiple(Scratched(k, list), pop) : r.reg = m.reg

\* STR rd, [rn, -o]! then LDR rd, [rn], +o restores register and base, and so
\* do the other three directions (arm_load_store.c:29-127).
PushPopOne ==
    \A before, up \in BOOLEAN : \A o \in {4, 8} :
        LET t == Transfer(m, Single(FALSE, before, up, o), o)
        IN  Accepted(t.address, 4) =>
            \A k \in arm_load_store(m, Single(FALSE, before, up, o)) :
            \A r \in arm_load_store(Scratched(k, {1}), Single(TRUE, ~before, ~up, o)) :
                r.reg = m.reg

\* A transfer whose condition fails does nothing, the post-indexed half word
\* transfers apart (arm_load_store.c:92-118, 144-184, 223-233).
FailedConditionDoesNothing ==
    \A i \in Transfers :
        ~ConditionPassed(m, i.cond) /\ ~(i.class = "half" /\ ~i.before) =>
            Execute(m, i) = {m}

-----------------------------------------------------------------------------
\* LDRH and STRH are "tested arm operation[s]" (README.md:3, 6), tested by
\* Examples/LdrhStrh.s: post-indexing moves the base by the offset.
HalfPostIndex ==
    \A i \in Transfers :
        (/\ i.class = "half" /\ ~i.before /\ ~i.write /\ ~i.load
         /\ ConditionPassed(m, i.cond)) =>
        \A k \in arm_load_store_half(m, i) :
            k.reg[i.rn] = Moved(m.reg[i.rn], i.up, HalfOffset(m, i.offset))

\* LDM (1) (README.md:6, arm_load_store.c:165): the pc gets the word loaded,
\* without bit 0.
LoadMultiplePc ==
    \A i \in Transfers :
        (i.class = "multiple" /\ i.load /\ i.list = {PC} /\ ConditionPassed(m, i.cond)) =>
            LET a == StartAddress(m.reg[i.rn], i)
            IN  Accepted(a, 4) => \A k \in arm_load_store_multiple(m, i) :
                    k.reg[PC] = 2 * (Loaded(m, a, 4) \div 2)
=============================================================================
