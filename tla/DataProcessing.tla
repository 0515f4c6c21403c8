---------------------------- MODULE DataProcessing ----------------------------
(***************************************************************************)
(* arm_data_processing.c: what the sixteen data processing instructions do *)
(* to the registers and the flags.  The state m is a record of registers   *)
(* and flags; every handler maps a state to a state.  An instruction is a  *)
(* record of its fields, its operand one of                                *)
(*   [kind |-> "immediate", imm, rot]    bit 25                            *)
(*   [kind |-> "shift", rm, type, count] shifted by a constant             *)
(*   [kind |-> "register", rm, type, rs] shifted by a register             *)
(*   [kind |-> "other"]                  bits 4 and 7: not data processing *)
(***************************************************************************)
EXTENDS Util

CONSTANTS
    PC,           \* 15, the last register
    Instructions  \* the instructions programs contain

VARIABLE m

RegNo == 0 .. PC

Opcodes == {"AND", "EOR", "SUB", "RSB", "ADD", "ADC", "SBC", "RSC", "TST", "TEQ",
            "CMP", "CMN", "ORR", "MOV", "BIC", "MVN"}

Machine == [reg : [RegNo -> Word], N : {0, 1}, Z : {0, 1}, C : {0, 1}, V : {0, 1}]

Operand ==
    [kind : {"immediate"}, imm : 0 .. Pow2[ByteBits] - 1, rot : {n \in 0 .. Bits : 2 * n < Bits}]
    \cup [kind : {"shift"}, rm : RegNo, type : 0 .. 3, count : Place]
    \cup [kind : {"register"}, rm : RegNo, type : 0 .. 3, rs : RegNo]
    \cup [kind : {"other"}]

Instruction ==
    [cond : Conditions, op : Opcodes, s : BOOLEAN, rn : RegNo, rd : RegNo, operand : Operand]

ASSUME InstructionAssumption ==
    PC \in Nat /\ PC > 1 /\ Instructions \subseteq Instruction

-----------------------------------------------------------------------------
\* The pc reads four bytes ahead, with bit 1 cleared.
arm_read_register(k, r) ==
    IF r = PC THEN LET v == Wrap(k.reg[PC] + 4) IN v - 2 * get_bit(v, 1)
              ELSE k.reg[r]

\* A register number that does not exist is ignored.
arm_write_register(k, r, v) ==
    IF r \in RegNo THEN [k EXCEPT !.reg[r] = v] ELSE k

\* The fetch advances the pc before the instruction is executed.
arm_fetch(k) == [k EXCEPT !.reg[PC] = arm_read_register(k, PC)]

\* Mutant: Z is set when the result is not zero.
updateZN_inverted(k, result) == [k EXCEPT !.Z = Bit(result # 0), !.N = Sign(result)]

updateZN(k, result) == [k EXCEPT !.Z = Bit(result = 0), !.N = Sign(result)]

\* Mutant: the carry is set and never cleared.
UpdateC_only_set(k, carry, c) ==
    [k EXCEPT !.C = IF carry /\ c = 0 THEN 1 ELSE @]

\* The two tests on the carry the handler was given.
UpdateC(k, carry, c) ==
    [k EXCEPT !.C = IF carry /\ c = 0 THEN 1 ELSE IF ~carry /\ c = 1 THEN 0 ELSE @]

\* The overflow rule of an addition, used for subtractions too.
UpdateV(k, a, b, result) ==
    [k EXCEPT !.V = Bit(Sign(a) = Sign(b) /\ Sign(a) # Sign(result))]

arm_tst(k, a, b) == [updateZN(k, a & b) EXCEPT !.C = 0]

arm_teq(k, a, b) == [updateZN(k, a ^^ b) EXCEPT !.C = 0]

\* Mutant: the carry test is not strict.
arm_cmp_loose(k, a, b, c) ==
    LET r == Wrap(a - b)
    IN  UpdateC(UpdateV(updateZN(k, r), a, b, r), MaxWord - a <= Wrap(-b), c)

arm_cmp(k, a, b, c) ==
    LET r == Wrap(a - b)
    IN  UpdateC(UpdateV(updateZN(k, r), a, b, r), MaxWord - a < Wrap(-b), c)

\* Mutant: the carry of a subtraction.
arm_cmn_as_cmp(k, a, b, c) ==
    LET r == Wrap(a + b)
    IN  UpdateC(UpdateV(updateZN(k, r), a, b, r), MaxWord - a < Wrap(-b), c)

arm_cmn(k, a, b, c) ==
    LET r == Wrap(a + b)
    IN  UpdateC(UpdateV(updateZN(k, r), a, b, r), MaxWord - a < b, c)

\* The first operand minus the second; called with Rn first.
arm_rsb(k, rd, a, b, s, c) ==
    LET r == Wrap(a - b)
        w == arm_write_register(k, rd, r)
    IN  IF s THEN UpdateV(UpdateC(updateZN(w, r), MaxWord - b < Wrap(-a), c), a, b, r)
             ELSE w

\* The V test compares a bit with the complement of a bit and never holds.
arm_rsc(k, rd, a, b, s, c) ==
    LET r == Wrap(b - a - (1 - c))
        w == arm_write_register(k, rd, r)
        u == UpdateC(updateZN(w, r), Wrap(MaxWord - b - c) < Wrap(1 - a), c)
    IN  IF s THEN [u EXCEPT !.V = 0] ELSE w

\* Mutant: the flags are set whatever the S bit says.
arm_mov_flags(k, rd, v, s) ==
    LET w == arm_write_register(k, rd, v)
    IN  updateZN(w, arm_read_register(w, rd))

\* MOV and MVN take Z and N from the register as it reads after the write.
arm_mov(k, rd, v, s) ==
    LET w == arm_write_register(k, rd, v)
    IN  IF s THEN updateZN(w, arm_read_register(w, rd)) ELSE w

-----------------------------------------------------------------------------
\* An 8 bit rotation of the 8 bit immediate.
apply_rotation_imm(imm, rot) ==
    IF rot = 0 THEN {imm}
    ELSE Either({imm \div Pow2[2 * rot]}, ShiftLeft(imm, ByteBits - 2 * rot))

\* (ins >> 5) & 2 keeps the high bit of the shift type: LSL or ASR.
Shifted(x, type, n) == IF type \in {0, 1} THEN ShiftLeft(x, n) ELSE asr(x, n)

\* The values val_2 may have; none when bits 4 and 7 are set.
decode_operand(k, o) ==
    CASE o.kind = "immediate" -> apply_rotation_imm(o.imm, o.rot)
      [] o.kind = "shift" -> Shifted(arm_read_register(k, o.rm), o.type, o.count)
      [] o.kind = "register" ->
            Shifted(arm_read_register(k, o.rm), o.type,
                    arm_read_register(k, o.rs) % Pow2[ByteBits])
      [] o.kind = "other" -> {}

\* What is written to rd, by the operations that leave it to the dispatcher.
ResultOf(i, a, b, c) ==
    CASE i.op = "AND" -> a & b
      [] i.op = "EOR" -> a ^^ b
      [] i.op = "SUB" -> Wrap(a - b)
      [] i.op = "ADD" -> Wrap(a + b)
      [] i.op = "ADC" -> Wrap(a + b + c)
      [] i.op = "SBC" -> Wrap(a - b - (1 - c))
      [] i.op = "ORR" -> a | b
      [] i.op = "BIC" -> a & Inverted(b)

\* The flags those operations set: ADD through arm_cmp, SBC and ADC with the
\* carry folded into the second operand.
FlagsOf(k, i, a, b, c) ==
    CASE i.op = "AND" -> arm_tst(k, a, b)
      [] i.op = "EOR" -> arm_teq(k, a, b)
      [] i.op \in {"SUB", "ADD"} -> arm_cmp(k, a, b, c)
      [] i.op = "ADC" -> arm_cmn(k, a, Wrap(b + c), c)
      [] i.op = "SBC" -> arm_cmp(k, a, Wrap(b + 1 + c), c)
      [] i.op = "ORR" -> updateZN(k, a | b)
      [] i.op = "BIC" -> arm_tst(k, a, Inverted(b))

\* RSC is called with the value of Rn in the place of the number of Rd and
\* the other way round.
Operate(k, i, a, b) ==
    CASE i.op = "TST" -> arm_tst(k, a, b)
      [] i.op = "TEQ" -> arm_teq(k, a, b)
      [] i.op = "CMP" -> arm_cmp(k, a, b, k.C)
      [] i.op = "CMN" -> arm_cmn(k, a, b, k.C)
      [] i.op = "RSB" -> arm_rsb(k, i.rd, a, b, i.s, k.C)
      [] i.op = "RSC" -> arm_rsc(k, a % Pow2[ByteBits], i.rd, b, i.s, k.C)
      [] i.op = "MOV" -> arm_mov(k, i.rd, b, i.s)
      [] i.op = "MVN" -> arm_mov(k, i.rd, Inverted(b), i.s)
      [] OTHER -> arm_write_register(IF i.s THEN FlagsOf(k, i, a, b, k.C) ELSE k,
                                     i.rd, ResultOf(i, a, b, k.C))

\* The states the instruction may lead to.  UNDEFINED_INSTRUCTION, returned
\* when the condition fails or the operand is not one, is dropped by the caller.
arm_data_processing_shift(k, i) ==
    LET values == decode_operand(k, i.operand)
    IN  IF ConditionPassed(k, i.cond) /\ values # {}
        THEN {Operate(k, i, arm_read_register(k, i.rn), b) : b \in values}
        ELSE {k}

-----------------------------------------------------------------------------
\* gdb may have set registers and flags to anything.
Init == m \in Machine

Next == \E i \in Instructions : m' \in arm_data_processing_shift(arm_fetch(m), i)

Spec == Init /\ [][Next]_m

-----------------------------------------------------------------------------
\* r0 op r1, into r0, unconditionally.
Plain(op, s) ==
    [cond |-> "AL", op |-> op, s |-> s, rn |-> 0, rd |-> 0,
     operand |-> [kind |-> "shift", rm |-> 1, type |-> 0, count |-> 0]]

After(k, op, s) == arm_data_processing_shift(k, Plain(op, s))

Compares == {"TST", "TEQ", "CMP", "CMN"}

\* An instruction changes its destination and nothing else: a comparison no
\* register, an instruction without S no flag, one whose condition fails
\* nothing at all (arm_data_processing.c:345-411).  RSC, which is called with
\* its arguments exchanged, is left out.
OnlyDestination ==
    \A i \in {j \in Instructions : j.op # "RSC"} :
        LET before == arm_fetch(m)
        IN  \A k \in arm_data_processing_shift(before, i) :
                /\ \A r \in RegNo \ {i.rd} : k.reg[r] = before.reg[r]
                /\ i.op \in Compares => k.reg = before.reg
                /\ ~i.s /\ i.op \notin Compares =>
                        [k EXCEPT !.reg = 0] = [before EXCEPT !.reg = 0]
                /\ ~ConditionPassed(before, i.cond) => k = before

\* After CMP the unsigned conditions decide the order of the operands, for
\* every second operand but zero, whose negation is zero too
\* (arm_data_processing.c:176-202 with util.c:44-95).
UnsignedOrder ==
    LET a == m.reg[0]
        b == m.reg[1]
    IN  \A k \in After(m, "CMP", TRUE) :
            /\ ConditionPassed(k, "EQ") <=> a = b
            /\ b # 0 => /\ ConditionPassed(k, "CS_HS") <=> a >= b
                        /\ ConditionPassed(k, "CC_LO") <=> a < b
                        /\ ConditionPassed(k, "HI") <=> a > b
                        /\ ConditionPassed(k, "LS") <=> a <= b

\* Two words as one number of twice the width.
Double(hi, lo) == hi * Pow2[Bits] + lo

\* The registers loaded with the high words.
HighWords(k, x, y) == [k EXCEPT !.reg[0] = x, !.reg[1] = y]

\* SUBS then SBC subtract numbers of two words, when the low word taken away
\* is not zero (arm_data_processing.c:68-75, 124-132).
BorrowChain ==
    m.reg[1] # 0 =>
    \A x, y \in Word : \A lo \in After(m, "SUB", TRUE) :
    \A hi \in After(HighWords(lo, x, y), "SBC", FALSE) :
        Double(hi.reg[0], lo.reg[0]) =
            (Double(x, m.reg[0]) - Double(y, m.reg[1])) % Pow2[2 * Bits]

\* CMN then ADD then ADC add numbers of two words
\* (arm_data_processing.c:134-145, 204-232).
CarryChain ==
    \A x, y \in Word : \A t \in After(m, "CMN", TRUE) :
    \A lo \in After(t, "ADD", FALSE) :
    \A hi \in After(HighWords(lo, x, y), "ADC", FALSE) :
        Double(hi.reg[0], lo.reg[0]) =
            (Double(x, m.reg[0]) + Double(y, m.reg[1])) % Pow2[2 * Bits]

-----------------------------------------------------------------------------
(***************************************************************************)
(* What comments and documents say of the instructions, and the code does  *)
(* not do                                                                  *)
(***************************************************************************)
Signed(x) == IF Sign(x) = 1 THEN x - Pow2[Bits] ELSE x

\* CMP is a "tested arm operation" (README.md:3-5) of an "ARMv5 instruction
\* set emulator" (README:2): GE and LT decide the order of signed operands.
SignedOrder ==
    \A k \in After(m, "CMP", TRUE) :
        ConditionPassed(k, "GE") <=> Signed(m.reg[0]) >= Signed(m.reg[1])

\* ADD is "tested" too (README.md:3-5): ADDS leaves the carry of the sum.
AddCarry ==
    \A k \in After(m, "ADD", TRUE) :
        ConditionPassed(k, "CS_HS") <=> m.reg[0] + m.reg[1] >= Pow2[Bits]

\* "Rd := shifter_operand - Rn" (arm_data_processing.c:236).
ReverseSubtract ==
    \A k \in After(m, "RSB", FALSE) : k.reg[0] = Wrap(m.reg[1] - m.reg[0])

\* "32-bit immediate" (arm_data_processing.c:309) by "rotation de rotation_imm
\* x 2 bits" (arm_data_processing.c:298).
RotatedImmediate ==
    \A i \in Instructions : i.operand.kind = "immediate" =>
        decode_operand(m, i.operand) = ror(i.operand.imm, 2 * i.operand.rot)
=============================================================================
