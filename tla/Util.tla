--------------------------------- MODULE Util ---------------------------------
(***************************************************************************)
(* util.h and util.c: words, their bits, shifts and the condition field of *)
(* an instruction.  A shift by a count outside 0 .. Bits-1 is undefined in *)
(* C: builds give zero or use the count modulo the width, and both are     *)
(* outcomes here, so that shifts are sets of words.                        *)
(***************************************************************************)
EXTENDS Integers

CONSTANTS
    Bits,       \* width of a word, 32
    ByteBits    \* width of uint8_t, 8

ASSUME UtilAssumption == Bits \in Nat /\ ByteBits \in 1 .. Bits /\ Bits > 2

\* 2 ^ n.
Pow2[n \in 0 .. 2 * Bits] == IF n = 0 THEN 1 ELSE 2 * Pow2[n - 1]

Word == 0 .. Pow2[Bits] - 1
MaxWord == Pow2[Bits] - 1
Wrap(x) == x % Pow2[Bits]
Inverted(x) == MaxWord - x
get_bit(x, i) == (x \div Pow2[i]) % 2
Sign(x) == get_bit(x, Bits - 1)
Bit(b) == IF b THEN 1 ELSE 0

\* term[0] + ... + term[n - 1].
Total(term, n) ==
    LET sum[j \in 0 .. n] == IF j = 0 THEN 0 ELSE sum[j - 1] + term[j - 1]
    IN  sum[n]

Place == 0 .. Bits - 1

FromBits(bit) == Total([i \in Place |-> bit[i] * Pow2[i]], Bits)

x & y == FromBits([i \in Place |-> Bit(get_bit(x, i) = 1 /\ get_bit(y, i) = 1)])
x | y == FromBits([i \in Place |-> Bit(get_bit(x, i) = 1 \/ get_bit(y, i) = 1)])
x ^^ y == FromBits([i \in Place |-> Bit(get_bit(x, i) # get_bit(y, i))])

ShiftLeft(x, n) ==
    IF n \in 0 .. Bits - 1 THEN {Wrap(x * Pow2[n])}
                           ELSE {0, Wrap(x * Pow2[n % Bits])}

ShiftRight(x, n) ==
    IF n \in 0 .. Bits - 1 THEN {x \div Pow2[n]} ELSE {0, x \div Pow2[n % Bits]}

Either(S, R) == {x | y : x \in S, y \in R}

asr(x, n) ==
    Either(ShiftRight(x, n),
           IF Sign(x) = 1 THEN ShiftLeft(MaxWord, Bits - n) ELSE {0})

ror(x, n) == Either(ShiftRight(x, n), ShiftLeft(x, Bits - n))

Conditions == {"EQ", "NE", "CS_HS", "CC_LO", "MI", "PL", "VS", "VC", "HI", "LS",
               "GE", "LT", "GT", "LE", "AL", "NV"}

\* f: the flags of cpsr, a record with fields N, Z, C and V.
ConditionPassed(f, cond) ==
    CASE cond = "EQ" -> f.Z = 1
      [] cond = "NE" -> f.Z = 0
      [] cond = "CS_HS" -> f.C = 1
      [] cond = "CC_LO" -> f.C = 0
      [] cond = "MI" -> f.N = 1
      [] cond = "PL" -> f.N = 0
      [] cond = "VS" -> f.V = 1
      [] cond = "VC" -> f.V = 0
      [] cond = "HI" -> f.C = 1 /\ f.Z = 0
      [] cond = "LS" -> f.C = 0 \/ f.Z = 1
      [] cond = "GE" -> f.N = f.V
      [] cond = "LT" -> f.N # f.V
      [] cond = "GT" -> f.Z = 0 /\ f.N = f.V
      [] cond = "LE" -> f.Z = 1 \/ f.N # f.V
      [] cond = "AL" -> TRUE
      [] cond = "NV" -> FALSE
=============================================================================
