--------------------------- MODULE LoadStoreProofs ----------------------------
(***************************************************************************)
(* Loads and stores, for every width of words, number of registers and     *)
(* size of memory: registers stay words and memory bytes, and what is      *)
(* pushed is what is popped.                                               *)
(***************************************************************************)
EXTENDS LoadStore, InstructionProofs, FiniteSetTheorems

\* Every transfer is of one class.
LEMMA Classes ==
    ASSUME NEW i \in Transfers
    PROVE  \/ i.class = "single" /\ i \in SingleTransfer
           \/ i.class = "multiple" /\ i \in MultipleTransfer
           \/ i.class = "half" /\ i \in HalfTransfer
<1>1. i \in SingleTransfer \cup MultipleTransfer \cup HalfTransfer
  BY LoadStoreAssumption
<1>2. i \in SingleTransfer => i.class = "single"
  BY DEF SingleTransfer
<1>3. i \in MultipleTransfer => i.class = "multiple"
  BY DEF MultipleTransfer
<1>4. i \in HalfTransfer => i.class = "half"
  BY DEF HalfTransfer
<1> QED
  BY <1>1, <1>2, <1>3, <1>4

LEMMA FailedCondition == FailedConditionDoesNothing
<1> SUFFICES ASSUME NEW i \in Transfers, ~ConditionPassed(m, i.cond),
                    ~(i.class = "half" /\ ~i.before)
             PROVE  Execute(m, i) = {m}
  BY DEF FailedConditionDoesNothing
<1>1. CASE i.class = "single"
  BY <1>1 DEF Execute, arm_load_store
<1>2. CASE i.class = "multiple"
  BY <1>2 DEF Execute, arm_load_store_multiple
<1>3. CASE i.class = "half"
  BY <1>3 DEF Execute, arm_load_store_half
<1> QED
  BY <1>1, <1>2, <1>3, Classes

\* A transfer whose condition fails does nothing, the post-indexed half word
\* transfers apart, in every program and state
\* (arm_load_store.c:92-118, 144-184, 223-233).
THEOREM FailedTransfers == LoadStoreSpec => []FailedConditionDoesNothing
  BY FailedCondition, PTL

-----------------------------------------------------------------------------
(***************************************************************************)
(* Bytes                                                                   *)
(***************************************************************************)
Width4 == {1, 2, 4}

\* The place values of the bytes of a word.
LEMMA BytePlaces ==
    /\ ByteBits \in Nat /\ Pow2[ByteBits] \in Nat \ {0}
    /\ \A j \in 0 .. 4 : Pow2[ByteBits * j] \in Nat \ {0} /\ Pow2[ByteBits * j] <= Pow2[Bits]
    /\ \A j \in 0 .. 3 : Pow2[ByteBits * (j + 1)] = Pow2[ByteBits] * Pow2[ByteBits * j]
    /\ Pow2[ByteBits * 0] = 1 /\ Pow2[ByteBits * 4] = Pow2[Bits]
<1>1. ByteBits \in Nat /\ Bits \in Nat /\ Bits = 4 * ByteBits /\ ByteBits \in Exponent
      /\ Pow2[ByteBits] \in Nat \ {0} /\ Pow2[Bits] \in Nat \ {0}
  BY UtilAssumption, LoadStoreAssumption, Width DEF Exponent
<1>2. ASSUME NEW j \in 0 .. 4
      PROVE  Pow2[ByteBits * j] \in Nat \ {0} /\ Pow2[ByteBits * j] <= Pow2[Bits]
  <2> DEFINE p == ByteBits * j
             q == ByteBits * (4 - j)
  <2>1. p \in Exponent /\ q \in Exponent /\ p + q = Bits /\ Bits \in Exponent
    BY <1>1 DEF Exponent
  <2> HIDE DEF p, q
  <2>2. Pow2[p + q] = Pow2[p] * Pow2[q] /\ Pow2[p] \in Nat \ {0} /\ Pow2[q] \in Nat \ {0}
    BY <2>1, Pow2Sum, Pow2Values
  <2> DEFINE x == Pow2[p]
             y == Pow2[q]
  <2>3. x \in Nat \ {0} /\ y \in Nat \ {0} /\ Pow2[Bits] = x * y
    BY <2>1, <2>2
  <2> HIDE DEF x, y
  <2>4. x <= x * y
    BY <2>3
  <2> QED
    BY <2>2, <2>3, <2>4 DEF x, p
<1>3. ASSUME NEW j \in 0 .. 3
      PROVE  Pow2[ByteBits * (j + 1)] = Pow2[ByteBits] * Pow2[ByteBits * j]
  <2> DEFINE p == ByteBits * j
  <2>1. p \in Exponent /\ ByteBits + p \in Exponent /\ ByteBits * (j + 1) = ByteBits + p
    BY <1>1 DEF Exponent
  <2> HIDE DEF p
  <2>2. Pow2[ByteBits + p] = Pow2[ByteBits] * Pow2[p]
    BY <1>1, <2>1, Pow2Sum
  <2> QED
    BY <2>1, <2>2 DEF p
<1>4. ByteBits * 0 = 0 /\ ByteBits * 4 = Bits
  BY <1>1
<1>5. Pow2[ByteBits * 0] = 1 /\ Pow2[ByteBits * 4] = Pow2[Bits]
  BY <1>4, Pow2Values
<1> QED
  BY <1>1, <1>2, <1>3, <1>5

LEMMA ByteOfByte ==
    ASSUME NEW v \in Word, NEW j \in 0 .. 3
    PROVE  ByteOf(v, j) \in Byte
<1> DEFINE d == Pow2[ByteBits * j]
           B == Pow2[ByteBits]
<1>1. d \in Nat \ {0} /\ B \in Nat \ {0} /\ v \in Int
  BY BytePlaces, WordInt
<1> HIDE DEF d, B
<1>2. v \div d \in Int
  BY <1>1
<1>3. (v \div d) % B \in 0 .. B - 1
  BY <1>1, <1>2
<1> QED
  BY <1>3 DEF ByteOf, Byte, d, B

\* The bytes of an access lie in memory.
LEMMA AccessedBytes ==
    ASSUME NEW a \in Nat, NEW n \in Width4, Accepted(a, n)
    PROVE  a + n <= Size /\ \A j \in 0 .. n - 1 : a + j \in Address
<1>1. a < Size /\ a % n = 0 /\ Size \in Nat /\ Size % 4 = 0
  BY LoadStoreAssumption DEF Accepted
<1>2. a + n <= Size
  <2>1. CASE n = 1
    BY <1>1, <2>1
  <2>2. CASE n = 2
    BY <1>1, <2>2
  <2>3. CASE n = 4
    BY <1>1, <2>3
  <2> QED
    BY <2>1, <2>2, <2>3 DEF Width4
<1> QED
  BY <1>1, <1>2 DEF Address, Width4

\* What is read from memory is a word.
LEMMA LoadedWord ==
    ASSUME NEW k, k.mem \in [Address -> Byte], NEW a \in Nat, NEW n \in Width4,
           Accepted(a, n)
    PROVE  Loaded(k, a, n) \in Word
<1> DEFINE power == [j \in 0 .. n |-> Pow2[ByteBits * j]]
           digit == [j \in 0 .. n - 1 |-> k.mem[a + j]]
           B == Pow2[ByteBits]
<1>1. n \in Nat /\ n \in 0 .. 4 /\ 0 \in 0 .. n /\ n \in 0 .. n
      /\ (\A j \in 0 .. n : j \in 0 .. 4) /\ \A j \in 0 .. n - 1 : j \in 0 .. 3
  BY DEF Width4
<1>2. B \in Nat \ {0}
  BY BytePlaces
<1>3. power \in [0 .. n -> Nat \ {0}] /\ power[0] = 1 /\ power[n] <= Pow2[Bits]
  BY <1>1, BytePlaces
<1>4. ASSUME NEW j \in 0 .. n - 1 PROVE power[j + 1] = B * power[j]
  <2>1. j \in 0 .. 3 /\ j \in 0 .. n /\ j + 1 \in 0 .. n
    BY <1>1
  <2> QED
    BY <2>1, BytePlaces
<1>5. digit \in [0 .. n - 1 -> 0 .. B - 1]
  BY AccessedBytes DEF Byte
<1>6. Loaded(k, a, n) = Total([j \in 0 .. n - 1 |-> digit[j] * power[j]], n)
  <2>1. \A j \in 0 .. n - 1 : digit[j] = k.mem[a + j] /\ power[j] = Pow2[ByteBits * j]
    BY <1>1
  <2> HIDE DEF digit, power
  <2>2. [j \in 0 .. n - 1 |-> digit[j] * power[j]] =
        [j \in 0 .. n - 1 |-> k.mem[a + j] * Pow2[ByteBits * j]]
    BY <2>1
  <2> QED
    BY <2>2 DEF Loaded
<1> HIDE DEF power, digit, B
<1>7. /\ Total([j \in 0 .. n - 1 |-> digit[j] * power[j]], n) \in Nat
      /\ Total([j \in 0 .. n - 1 |-> digit[j] * power[j]], n) < power[n]
  BY <1>1, <1>2, <1>3, <1>4, <1>5, DigitsBound
<1>8. power[n] \in Nat
  BY <1>1, <1>3
<1> QED
  BY <1>3, <1>6, <1>7, <1>8, Width DEF Word

\* A word stored in four bytes is read back.
LEMMA StoredWord ==
    ASSUME NEW k, NEW a, NEW v \in Word, \A j \in 0 .. 3 : k.mem[a + j] = ByteOf(v, j)
    PROVE  Loaded(k, a, 4) = v
<1> DEFINE power == [j \in 0 .. 4 |-> Pow2[ByteBits * j]]
           term == [j \in 0 .. 4 - 1 |-> k.mem[a + j] * Pow2[ByteBits * j]]
           B == Pow2[ByteBits]
<1>1. B \in Nat \ {0} /\ v \in Nat /\ 4 \in Nat
  BY BytePlaces, WordInt
<1>2. power \in [0 .. 4 -> Nat \ {0}] /\ power[0] = 1 /\ power[4] = Pow2[Bits]
  BY BytePlaces
<1>3. ASSUME NEW j \in 0 .. 4 - 1
      PROVE  /\ power[j + 1] = B * power[j]
             /\ term[j] = ((v \div power[j]) % B) * power[j]
  <2>1. j \in 0 .. 3 /\ j \in 0 .. 4 /\ j + 1 \in 0 .. 4
    OBVIOUS
  <2>2. power[j + 1] = Pow2[ByteBits * (j + 1)] /\ power[j] = Pow2[ByteBits * j]
    BY <2>1
  <2>3. power[j + 1] = B * power[j]
    BY <2>1, <2>2, BytePlaces
  <2>4. term[j] = ByteOf(v, j) * Pow2[ByteBits * j]
    BY <2>1
  <2> HIDE DEF power, term
  <2> QED
    BY <2>2, <2>3, <2>4 DEF ByteOf
<1>4. Loaded(k, a, 4) = Total(term, 4)
  BY DEF Loaded
<1> HIDE DEF power, term, B
<1>5. Total(term, 4) = v % power[4]
  <2> DEFINE N == 4
  <2>1. N \in Nat /\ power \in [0 .. N -> Nat \ {0}]
    BY <1>2
  <2>2. \A j \in 0 .. N - 1 : power[j + 1] = B * power[j]
    BY <1>3
  <2>3. \A j \in 0 .. N - 1 : term[j] = ((v \div power[j]) % B) * power[j]
    BY <1>3
  <2>4. Digits(term, v, power, B, N)
    BY <1>2, <2>1, <2>2, <2>3 DEF Digits
  <2> HIDE DEF N
  <2>5. Total(term, N) = v % power[N]
    BY <1>1, <2>1, <2>4, DigitsValue
  <2> QED
    BY <2>5 DEF N
<1>6. v % Pow2[Bits] = v
  BY <1>1, WrapWord DEF Wrap
<1> QED
  BY <1>2, <1>4, <1>5, <1>6

-----------------------------------------------------------------------------
(***************************************************************************)
(* The machine with its memory                                             *)
(***************************************************************************)
LEMMA FullRegisters ==
    ASSUME NEW k \in FullMachine
    PROVE  k.reg \in Registers /\ k.mem \in [Address -> Byte] /\ k.C \in {0, 1}
  BY DEF FullMachine, Registers

LEMMA WriteFull ==
    ASSUME NEW k \in FullMachine, NEW r, NEW v \in Word
    PROVE  /\ arm_write_register(k, r, v) \in FullMachine
           /\ arm_write_register(k, r, v).mem = k.mem
           /\ \A q \in RegNo \ {r} : arm_write_register(k, r, v).reg[q] = k.reg[q]
           /\ r \in RegNo => arm_write_register(k, r, v).reg[r] = v
  BY DEF arm_write_register, FullMachine

LEMMA FetchFull == ASSUME NEW k \in FullMachine PROVE arm_fetch(k) \in FullMachine
<1>1. arm_read_register(k, PC) \in Word
  BY FullRegisters, ReadWord, RegisterNumbers
<1> QED
  BY <1>1, RegisterNumbers DEF arm_fetch, FullMachine

LEMMA LoadPcFull ==
    ASSUME NEW k \in FullMachine, NEW pc \in Word, NEW value \in Word
    PROVE  LoadPc(k, pc, value) \in FullMachine
<1>1. arm_write_register(k, PC, pc) \in FullMachine
  BY WriteFull
<1>2. value % 2 \in {0, 1}
  <2>1. value \in Nat
    BY WordInt
  <2> QED
    BY <2>1
<1> QED
  BY <1>1, <1>2 DEF LoadPc, FullMachine

LEMMA ReadFull ==
    ASSUME NEW k \in FullMachine, NEW a \in Word, NEW n \in Width4
    PROVE  Read(k, a, n, 0) \in Word
<1>1. a \in Nat
  BY WordInt
<1> QED
  BY <1>1, FullRegisters, LoadedWord, WordConstants DEF Read

\* A store changes the bytes it addresses.
LEMMA WriteBytes ==
    ASSUME NEW k \in FullMachine, NEW a \in Word, NEW n \in Width4, NEW v \in Word
    PROVE  /\ Write(k, a, n, v) \in FullMachine
           /\ Write(k, a, n, v).reg = k.reg
           /\ Accepted(a, n) => \A j \in 0 .. n - 1 : Write(k, a, n, v).mem[a + j] = ByteOf(v, j)
<1>1. a \in Nat /\ n \in Nat /\ n <= 4
  BY WordInt DEF Width4
<1>2. CASE ~Accepted(a, n)
  BY <1>2 DEF Write
<1>3. CASE Accepted(a, n)
  <2> DEFINE mem == [x \in Address |-> IF x \in a .. a + n - 1 THEN ByteOf(v, x - a)
                                                              ELSE k.mem[x]]
  <2>1. Write(k, a, n, v) = [k EXCEPT !.mem = mem]
    BY <1>3 DEF Write
  <2>2. mem \in [Address -> Byte]
    <3>1. ASSUME NEW x \in Address, x \in a .. a + n - 1
          PROVE  ByteOf(v, x - a) \in Byte
      <4>1. x - a \in 0 .. 3
        BY <1>1, <3>1, LoadStoreAssumption DEF Address
      <4> QED
        BY <4>1, ByteOfByte
    <3>2. \A x \in Address : k.mem[x] \in Byte
      BY FullRegisters
    <3> QED
      BY <3>1, <3>2
  <2>3. ASSUME NEW j \in 0 .. n - 1 PROVE mem[a + j] = ByteOf(v, j)
    <3>1. a + j \in Address /\ a + j \in a .. a + n - 1 /\ (a + j) - a = j
      BY <1>1, <1>3, AccessedBytes
    <3> QED
      BY <3>1
  <2> HIDE DEF mem
  <2>4. [k EXCEPT !.mem = mem] \in FullMachine /\ [k EXCEPT !.mem = mem].reg = k.reg
        /\ [k EXCEPT !.mem = mem].mem = mem
    BY <2>2 DEF FullMachine
  <2> QED
    BY <2>1, <2>3, <2>4
<1> QED
  BY <1>2, <1>3

LEMMA MovedWord ==
    ASSUME NEW base \in Word, NEW up \in BOOLEAN, NEW by \in Int
    PROVE  Moved(base, up, by) \in Word
<1>1. base + by \in Int /\ base - by \in Int
  BY WordInt
<1> QED
  BY <1>1, WrapWord DEF Moved

-----------------------------------------------------------------------------
\* Loads and stores of one register.
LEMMA IndexInt ==
    ASSUME NEW k \in FullMachine, NEW i \in SingleTransfer, NEW index \in Index(k, i.offset)
    PROVE  index \in Int
<1> DEFINE o == i.offset
<1>1. o \in [kind : {"immediate"}, value : Nat]
           \cup [kind : {"scaled"}, rm : RegNo, type : 0 .. 3, count : Place]
  BY DEF SingleTransfer
<1>2. index \in Index(k, o)
  OBVIOUS
<1> HIDE DEF o
<1>3. CASE o.kind = "immediate"
  BY <1>1, <1>2, <1>3 DEF Index
<1>4. CASE o.kind = "scaled"
  <2> DEFINE x == arm_read_register(k, o.rm)
  <2>1. o.rm \in RegNo /\ o.count \in Int
    BY <1>1, <1>4, UtilAssumption DEF Place
  <2>2. x \in Word
    BY <2>1, FullRegisters, ReadWord
  <2>3. Index(k, o) = IF o.type = 0 THEN ShiftLeft(x, o.count)
                      ELSE IF o.count = 0 THEN {Bit(k.C = 1 \/ x \div 2 # 0)}
                      ELSE ror(x, o.count)
    BY <1>4 DEF Index
  <2> HIDE DEF x
  <2>4. ShiftLeft(x, o.count) \subseteq Word /\ ror(x, o.count) \subseteq Word
    BY <2>1, <2>2, ShiftWord, EitherWord DEF ror
  <2>5. Bit(k.C = 1 \/ x \div 2 # 0) \in Word
    BY WordConstants DEF Bit
  <2>6. index \in Word
    BY <1>2, <2>3, <2>4, <2>5
  <2> QED
    BY <2>6, WordInt
<1> QED
  BY <1>1, <1>3, <1>4

LEMMA TransferFull ==
    ASSUME NEW k \in FullMachine, NEW i, i.rn \in RegNo, i.up \in BOOLEAN, NEW index \in Int
    PROVE  /\ Transfer(k, i, index).address \in Word
           /\ Transfer(k, i, index).machine \in FullMachine
<1> DEFINE base == arm_read_register(k, i.rn)
           moved == Moved(base, i.up, index)
<1>1. base \in Word
  BY FullRegisters, ReadWord
<1> HIDE DEF base
<1>2. moved \in Word
  BY <1>1, MovedWord
<1> HIDE DEF moved
<1>3. arm_write_register(k, i.rn, moved) \in FullMachine
  BY <1>2, WriteFull
<1>4. Transfer(k, i, index) =
        [address |-> IF i.before THEN moved ELSE base,
         machine |-> IF ~i.before \/ i.write THEN arm_write_register(k, i.rn, moved) ELSE k]
  BY DEF Transfer, base, moved
<1> QED
  BY <1>1, <1>2, <1>3, <1>4

LEMMA AccessFull ==
    ASSUME NEW i \in SingleTransfer, NEW t, t.address \in Word, t.machine \in FullMachine
    PROVE  Access(i, t) \in FullMachine
<1> DEFINE n == IF i.byte THEN 1 ELSE 4
           k == t.machine
           value == Read(k, t.address, n, 0)
<1>1. n \in Width4 /\ i.rd \in RegNo
  BY DEF Width4, SingleTransfer
<1> HIDE DEF n
<1>2. value \in Word
  BY <1>1, ReadFull
<1> HIDE DEF value
<1>3. arm_read_register(k, i.rd) \in Word
  BY <1>1, FullRegisters, ReadWord
<1>4. Write(k, t.address, n, arm_read_register(k, i.rd)) \in FullMachine
  BY <1>1, <1>3, WriteBytes
<1>5. LoadPc(k, value - (value % 2), value) \in FullMachine
  <2>1. value \in Nat /\ value < Pow2[Bits] /\ Pow2[Bits] \in Nat
    BY <1>2, WordInt, Width
  <2>2. value - (value % 2) \in Word
    BY <2>1 DEF Word
  <2> DEFINE pc == value - (value % 2)
  <2> HIDE DEF pc
  <2>3. LoadPc(k, pc, value) \in FullMachine
    BY <1>2, <2>2, LoadPcFull DEF pc
  <2> QED
    BY <2>3 DEF pc
<1>6. arm_write_register(k, i.rd, value) \in FullMachine
  BY <1>2, WriteFull
<1>7. Access(i, t) = IF ~i.load THEN Write(k, t.address, n, arm_read_register(k, i.rd))
                     ELSE IF i.rd = PC THEN LoadPc(k, value - (value % 2), value)
                     ELSE arm_write_register(k, i.rd, value)
  BY DEF Access, n, value
<1> QED
  BY <1>4, <1>5, <1>6, <1>7

LEMMA SingleFull ==
    ASSUME NEW k \in FullMachine, NEW i \in SingleTransfer, NEW l \in arm_load_store(k, i)
    PROVE  l \in FullMachine
<1>1. CASE ConditionPassed(k, i.cond)
  <2>1. PICK index \in Index(k, i.offset) : l = Access(i, Transfer(k, i, index))
    BY <1>1 DEF arm_load_store
  <2>2. index \in Int
    BY IndexInt
  <2>3. i.rn \in RegNo /\ i.up \in BOOLEAN
    BY DEF SingleTransfer
  <2>4. /\ Transfer(k, i, index).address \in Word
        /\ Transfer(k, i, index).machine \in FullMachine
    BY <2>2, <2>3, TransferFull
  <2> QED
    BY <2>1, <2>4, AccessFull
<1>2. CASE ~ConditionPassed(k, i.cond)
  BY <1>2 DEF arm_load_store
<1> QED
  BY <1>1, <1>2

-----------------------------------------------------------------------------
\* Half words.
LEMMA HalfFull ==
    ASSUME NEW k \in FullMachine, NEW i \in HalfTransfer, NEW l \in arm_load_store_half(k, i)
    PROVE  l \in FullMachine
<1> DEFINE o == i.offset
           base == arm_read_register(k, i.rn)
           address == IF i.before THEN Moved(base, i.up, HalfOffset(k, o)) ELSE base
           after == Wrap(base + LowNibble(o))
           indexed == IF i.before THEN k ELSE arm_write_register(k, i.rn, after)
           w == IF i.write THEN arm_write_register(indexed, i.rn, address) ELSE indexed
           value == Read(w, address, 2, 0)
<1>1. /\ i.rn \in RegNo /\ i.rd \in RegNo /\ i.up \in BOOLEAN
      /\ o \in [kind : {"immediate"}, value : Nat] \cup [kind : {"scaled"}, rm : RegNo]
  BY DEF HalfTransfer
<1>2. base \in Word /\ base \in Int
  <2>1. base \in Word
    BY <1>1, FullRegisters, ReadWord
  <2> QED
    BY <2>1, WordInt
<1>3. HalfOffset(k, o) \in Int /\ LowNibble(o) \in Int
  <2> HIDE DEF o
  <2>1. CASE o.kind = "immediate"
    BY <1>1, <2>1, LoadStoreAssumption DEF HalfOffset, LowNibble
  <2>2. CASE o.kind # "immediate"
    <3>1. o.rm \in RegNo
      BY <1>1, <2>2
    <3>2. arm_read_register(k, o.rm) \in Int
      <4>1. arm_read_register(k, o.rm) \in Word
        BY <3>1, FullRegisters, ReadWord
      <4> QED
        BY <4>1, WordInt
    <3>3. LowNibble(o) \in Int
      <4>1. LowNibble(o) = o.rm
        BY <2>2 DEF LowNibble
      <4>2. o.rm \in Nat
        BY <3>1, RegisterNumbers
      <4> QED
        BY <4>1, <4>2
    <3>4. HalfOffset(k, o) \in Int
      <4> DEFINE x == arm_read_register(k, o.rm)
      <4>1. HalfOffset(k, o) = x % OffsetMod
        BY <2>2 DEF HalfOffset
      <4>2. x \in Int /\ OffsetMod \in Nat \ {0}
        BY <3>2, LoadStoreAssumption
      <4> HIDE DEF x
      <4> QED
        BY <4>1, <4>2
    <3> QED
      BY <3>3, <3>4
  <2> QED
    BY <2>1, <2>2
<1>4. arm_load_store_half(k, i) =
        IF ~ConditionPassed(k, i.cond) THEN {indexed}
        ELSE IF i.load THEN {arm_write_register(w, i.rd, value)}
        ELSE {Write(w, address, 2, arm_read_register(w, i.rd))}
  BY DEF arm_load_store_half
<1> HIDE DEF o, base
<1>5. address \in Word
  <2> DEFINE by == HalfOffset(k, o)
  <2> HIDE DEF by
  <2>1. Moved(base, i.up, by) \in Word
    BY <1>1, <1>2, <1>3, MovedWord DEF by
  <2> QED
    BY <1>2, <2>1 DEF by
<1>6. after \in Word
  <2>1. base + LowNibble(o) \in Int
    BY <1>2, <1>3
  <2> QED
    BY <2>1, WrapWord
<1> HIDE DEF address, after
<1>7. indexed \in FullMachine
  BY <1>6, WriteFull
<1> HIDE DEF indexed
<1>8. w \in FullMachine
  BY <1>5, <1>7, WriteFull
<1> HIDE DEF w
<1>9. 2 \in Width4
  BY DEF Width4
<1>10. value \in Word
  BY <1>5, <1>8, <1>9, ReadFull
<1> HIDE DEF value
<1>11. arm_write_register(w, i.rd, value) \in FullMachine
  BY <1>8, <1>10, WriteFull
<1>12. Write(w, address, 2, arm_read_register(w, i.rd)) \in FullMachine
  <2> DEFINE v == arm_read_register(w, i.rd)
  <2>1. v \in Word
    BY <1>1, <1>8, FullRegisters, ReadWord
  <2> HIDE DEF v
  <2>2. Write(w, address, 2, v) \in FullMachine
    BY <1>5, <1>8, <1>9, <2>1, WriteBytes
  <2> QED
    BY <2>2 DEF v
<1> QED
  BY <1>4, <1>7, <1>11, <1>12

-----------------------------------------------------------------------------
\* Several registers: the registers listed are counted.
LEMMA ListedFinite ==
    ASSUME NEW i, i.list \in SUBSET RegNo
    PROVE  /\ IsFiniteSet(Listed(i)) /\ Listed(i) \in SUBSET RegNo
           /\ Cardinality(Listed(i)) \in Nat
           /\ \A r : Position(i, r) \in Nat
<1>1. IsFiniteSet(RegNo)
  BY InstructionAssumption, FS_Interval DEF RegNo
<1>2. Listed(i) \in SUBSET RegNo
  BY DEF Listed
<1>3. ASSUME NEW S \in SUBSET RegNo PROVE IsFiniteSet(S) /\ Cardinality(S) \in Nat
  <2>1. IsFiniteSet(S)
    BY <1>1, FS_Subset
  <2> QED
    BY <2>1, FS_CardinalityType
<1>4. ASSUME NEW r PROVE Position(i, r) \in Nat
  <2> DEFINE S == {q \in Listed(i) : q < r}
  <2>1. S \in SUBSET RegNo
    BY <1>2
  <2> HIDE DEF S
  <2>2. Cardinality(S) \in Nat
    BY <1>3, <2>1
  <2> QED
    BY <2>2 DEF Position, S
<1> QED
  BY <1>2, <1>3, <1>4

LEMMA StartWord ==
    ASSUME NEW i, i.list \in SUBSET RegNo, NEW base \in Word
    PROVE  StartAddress(base, i) \in Word
<1> DEFINE bytes == 4 * Cardinality(Listed(i))
           by == IF i.up THEN (IF i.before THEN 4 ELSE 0)
                 ELSE (IF i.before THEN -bytes ELSE 4 - bytes)
<1>1. bytes \in Int /\ base \in Int
  BY ListedFinite, WordInt
<1> HIDE DEF bytes
<1>2. base + by \in Int
  BY <1>1
<1>3. StartAddress(base, i) = Wrap(base + by)
  BY DEF StartAddress, bytes
<1> QED
  BY <1>2, <1>3, WrapWord

LEMMA WriteBackFull ==
    ASSUME NEW k \in FullMachine, NEW i, i.rn \in RegNo, i.up \in BOOLEAN,
           i.list \in SUBSET RegNo
    PROVE  WriteBack(k, i) \in FullMachine
<1> DEFINE by == 4 * Cardinality(Listed(i))
           base == arm_read_register(k, i.rn)
<1>1. by \in Int
  BY ListedFinite
<1>2. base \in Word
  BY FullRegisters, ReadWord
<1> HIDE DEF by, base
<1>3. Moved(base, i.up, by) \in Word
  BY <1>1, <1>2, MovedWord
<1> DEFINE v == Moved(base, i.up, by)
<1> HIDE DEF v
<1>4. arm_write_register(k, i.rn, v) \in FullMachine
  BY <1>3, WriteFull DEF v
<1> QED
  BY <1>4 DEF WriteBack, v, by, base

\* A set of numbers below a bound has a greatest one.
LEMMA GreatestNumber ==
    ASSUME NEW p \in Nat, NEW T \in SUBSET (0 .. p), T # {}
    PROVE  Max(T) \in T /\ \A y \in T : Max(T) >= y
<1> DEFINE D == {n \in 0 .. p : p - n \in T}
<1>1. PICK d \in D : \A e \in D : d <= e
  <2>1. D \in SUBSET Nat
    OBVIOUS
  <2>2. D # {}
    <3>1. PICK x \in T : TRUE
      OBVIOUS
    <3>2. p - x \in 0 .. p /\ p - (p - x) = x
      OBVIOUS
    <3> QED
      BY <3>1, <3>2
  <2> HIDE DEF D
  <2> QED
    BY <2>1, <2>2, LeastNumber
<1>2. p - d \in T
  OBVIOUS
<1>3. ASSUME NEW y \in T PROVE p - d >= y
  <2>1. p - y \in 0 .. p /\ p - (p - y) = y
    OBVIOUS
  <2>2. p - y \in D
    BY <2>1
  <2>3. d <= p - y
    BY <1>1, <2>2
  <2>4. d \in Nat /\ y \in Nat
    OBVIOUS
  <2> QED
    BY <2>3, <2>4
<1>4. \E x \in T : \A y \in T : x >= y
  BY <1>2, <1>3
<1> QED
  BY <1>4 DEF Max

LEMMA ValueWord ==
    ASSUME NEW k \in FullMachine, NEW start \in Word, NEW p \in Nat
    PROVE  ValueAt(k, start, p) \in Word
<1> DEFINE read == {q \in 0 .. p : Accepted(Wrap(start + 4 * q), 4)}
<1>1. CASE read = {}
  BY <1>1, WordConstants DEF ValueAt
<1>2. CASE read # {}
  <2> DEFINE q == Max(read)
             a == Wrap(start + 4 * q)
  <2>1. q \in read
    <3>1. read \in SUBSET (0 .. p)
      OBVIOUS
    <3> HIDE DEF read
    <3> QED
      BY <1>2, <3>1, GreatestNumber
  <2>2. q \in 0 .. p /\ Accepted(a, 4)
    BY <2>1
  <2>3. ValueAt(k, start, p) = Loaded(k, a, 4)
    BY <1>2 DEF ValueAt
  <2> HIDE DEF q
  <2>4. start + 4 * q \in Int
    BY <2>2, WordInt
  <2>5. a \in Word
    BY <2>4, WrapWord
  <2> HIDE DEF a
  <2>6. a \in Nat /\ 4 \in Width4
    BY <2>5, WordInt DEF Width4
  <2> QED
    BY <2>2, <2>3, <2>6, FullRegisters, LoadedWord
<1> QED
  BY <1>1, <1>2

LEMMA LoadMultipleFull ==
    ASSUME NEW k \in FullMachine, NEW i, i.list \in SUBSET RegNo, NEW start \in Word
    PROVE  LoadMultiple(k, i, start) \in FullMachine
<1> DEFINE reg == [r \in RegNo |-> IF r \in Listed(i) THEN ValueAt(k, start, Position(i, r))
                                                      ELSE k.reg[r]]
           low == [k EXCEPT !.reg = reg]
           last == ValueAt(k, start, Cardinality(Listed(i)))
<1>1. reg \in Registers
  <2>1. \A r \in RegNo : ValueAt(k, start, Position(i, r)) \in Word /\ k.reg[r] \in Word
    BY ListedFinite, ValueWord, FullRegisters DEF Registers
  <2> QED
    BY <2>1 DEF Registers
<1>2. last \in Word
  BY ListedFinite, ValueWord
<1>3. LoadMultiple(k, i, start) =
        IF PC \in i.list THEN LoadPc(low, Bit(last # 0), last) ELSE low
  BY DEF LoadMultiple
<1> HIDE DEF reg, last
<1>4. low \in FullMachine
  BY <1>1 DEF FullMachine, Registers
<1> HIDE DEF low
<1>5. Bit(last # 0) \in Word
  BY WordConstants DEF Bit
<1> DEFINE pc == Bit(last # 0)
<1> HIDE DEF pc
<1>6. LoadPc(low, pc, last) \in FullMachine
  BY <1>2, <1>4, <1>5, LoadPcFull DEF pc
<1> QED
  BY <1>3, <1>4, <1>6 DEF pc

LEMMA StoreMultipleFull ==
    ASSUME NEW k \in FullMachine, NEW i, i.list \in SUBSET RegNo, NEW start
    PROVE  /\ StoreMultiple(k, i, start) \in FullMachine
           /\ StoreMultiple(k, i, start).reg = k.reg
<1> DEFINE Holds(r, x) == LET a == Wrap(start + 4 * Position(i, r))
                          IN  Accepted(a, 4) /\ x \in a .. a + 3
           mem == [x \in Address |->
                     IF \E r \in Listed(i) : Holds(r, x)
                     THEN ByteOf(arm_read_register(k, CHOOSE r \in Listed(i) : Holds(r, x)), x % 4)
                     ELSE k.mem[x]]
<1>1. StoreMultiple(k, i, start) = [k EXCEPT !.mem = mem]
  BY DEF StoreMultiple
<1> HIDE DEF Holds
<1>2. ASSUME NEW x \in Address PROVE mem[x] \in Byte
  <2>1. k.mem[x] \in Byte
    BY FullRegisters
  <2>2. CASE \E r \in Listed(i) : Holds(r, x)
    <3> DEFINE r == CHOOSE r \in Listed(i) : Holds(r, x)
    <3>1. r \in Listed(i)
      BY <2>2
    <3> HIDE DEF r
    <3>2. r \in RegNo
      BY <3>1, ListedFinite
    <3>3. arm_read_register(k, r) \in Word
      BY <3>2, FullRegisters, ReadWord
    <3>4. x % 4 \in 0 .. 3
      BY LoadStoreAssumption DEF Address
    <3> DEFINE j == x % 4
    <3> HIDE DEF j
    <3>5. ByteOf(arm_read_register(k, r), j) \in Byte
      BY <3>3, <3>4, ByteOfByte DEF j
    <3> QED
      BY <2>2, <3>5 DEF r, j
  <2> QED
    BY <2>1, <2>2
<1>3. mem \in [Address -> Byte]
  <2>1. mem = [x \in Address |-> mem[x]]
    OBVIOUS
  <2> HIDE DEF mem
  <2> QED
    BY <1>2, <2>1
<1> HIDE DEF mem
<1>4. [k EXCEPT !.mem = mem] \in FullMachine /\ [k EXCEPT !.mem = mem].reg = k.reg
  BY <1>3 DEF FullMachine
<1> QED
  BY <1>1, <1>4

LEMMA MultipleFull ==
    ASSUME NEW k \in FullMachine, NEW i \in MultipleTransfer,
           NEW l \in arm_load_store_multiple(k, i)
    PROVE  l \in FullMachine
<1> DEFINE start == StartAddress(arm_read_register(k, i.rn), i)
           w == WriteBack(k, i)
<1>1. i.rn \in RegNo /\ i.up \in BOOLEAN /\ i.list \in SUBSET RegNo
  BY DEF MultipleTransfer
<1>2. arm_read_register(k, i.rn) \in Word
  BY <1>1, FullRegisters, ReadWord
<1>3. start \in Word
  BY <1>1, <1>2, StartWord
<1>4. w \in FullMachine
  BY <1>1, WriteBackFull
<1>5. arm_load_store_multiple(k, i) =
        IF ~ConditionPassed(k, i.cond) THEN {k}
        ELSE IF i.load THEN {LoadMultiple(w, i, start)} ELSE {StoreMultiple(w, i, start)}
  BY DEF arm_load_store_multiple
<1> HIDE DEF start, w
<1>6. LoadMultiple(w, i, start) \in FullMachine
  BY <1>1, <1>3, <1>4, LoadMultipleFull
<1>7. StoreMultiple(w, i, start) \in FullMachine
  BY <1>1, <1>4, StoreMultipleFull
<1> QED
  BY <1>5, <1>6, <1>7

FullTyped == m \in FullMachine

\* Whatever loads and stores a program makes, and wherever they miss memory,
\* registers hold words and memory bytes.
THEOREM FullTypes == LoadStoreSpec => []FullTyped
<1>1. Prepared => FullTyped
  BY LoadStoreAssumption DEF Prepared, FullTyped
<1>2. ASSUME FullTyped, [Perform]_<<m, steps>> PROVE FullTyped'
  <2>1. CASE Perform
    <3> DEFINE k == arm_fetch(m)
    <3>1. PICK i \in Transfers : m' \in Execute(k, i)
      BY <2>1 DEF Perform
    <3>2. k \in FullMachine
      BY <1>2, FetchFull DEF FullTyped
    <3> HIDE DEF k
    <3>3. CASE i.class = "single" /\ i \in SingleTransfer
      BY <3>1, <3>2, <3>3, SingleFull DEF Execute, FullTyped
    <3>4. CASE i.class = "multiple" /\ i \in MultipleTransfer
      BY <3>1, <3>2, <3>4, MultipleFull DEF Execute, FullTyped
    <3>5. CASE i.class = "half" /\ i \in HalfTransfer
      BY <3>1, <3>2, <3>5, HalfFull DEF Execute, FullTyped
    <3> QED
      BY <3>3, <3>4, <3>5, Classes
  <2>2. CASE UNCHANGED <<m, steps>>
    BY <1>2, <2>2 DEF FullTyped
  <2> QED
    BY <1>2, <2>1, <2>2
<1> QED
  BY <1>1, <1>2, PTL DEF LoadStoreSpec

-----------------------------------------------------------------------------
(***************************************************************************)
(* What is pushed is what is popped                                        *)
(***************************************************************************)
\* Moving the base back undoes the move, across the end of the address space
\* too.
LEMMA MovedBack ==
    ASSUME NEW base \in Word, NEW up \in BOOLEAN, NEW by \in Int
    PROVE  Moved(Moved(base, up, by), ~up, by) = base
<1>1. base \in Int /\ base + by \in Int /\ base - by \in Int /\ Wrap(base) = base
  BY WordInt, WrapWord
<1>2. CASE up
  <2> DEFINE z == base + by
             y == -by
  <2>1. z \in Int /\ y \in Int /\ z + y = base
    BY <1>1
  <2>2. Moved(base, up, by) = Wrap(z) /\ Wrap(z) \in Int
    BY <1>2, <2>1, WrapWord, WordInt DEF Moved
  <2>3. Moved(Wrap(z), ~up, by) = Wrap(Wrap(z) + y)
    <3>1. Moved(Wrap(z), ~up, by) = Wrap(Wrap(z) - by)
      BY <1>2 DEF Moved
    <3> DEFINE x == Wrap(z)
    <3>2. x \in Int
      BY <2>2
    <3> HIDE DEF x, z
    <3>3. x - by = x + y
      BY <3>2
    <3> QED
      BY <3>1, <3>3 DEF x
  <2> HIDE DEF z, y
  <2>4. Wrap(Wrap(z) + y) = Wrap(z + y)
    BY <2>1, WrapTwice
  <2> QED
    BY <1>1, <2>1, <2>2, <2>3, <2>4
<1>3. CASE ~up
  <2> DEFINE z == base - by
  <2>1. z \in Int /\ z + by = base
    BY <1>1
  <2>2. Moved(base, up, by) = Wrap(z)
    BY <1>3 DEF Moved
  <2>3. Moved(Wrap(z), ~up, by) = Wrap(Wrap(z) + by)
    BY <1>3 DEF Moved
  <2> HIDE DEF z
  <2>4. Wrap(Wrap(z) + by) = Wrap(z + by)
    BY <2>1, WrapTwice
  <2> QED
    BY <1>1, <2>1, <2>2, <2>3, <2>4
<1> QED
  BY <1>2, <1>3

\* The address of a transfer of one register and the base after it.
AddressOf(base, before, up, o) == IF before THEN Moved(base, up, o) ELSE base

Based(k, up, o) == arm_write_register(k, 0, Moved(k.reg[0], up, o))

LEMMA SingleOutcome ==
    ASSUME NEW k \in FullMachine, NEW before \in BOOLEAN, NEW up \in BOOLEAN, NEW o \in Nat,
           NEW load \in BOOLEAN
    PROVE  LET a == AddressOf(k.reg[0], before, up, o)
               w == Based(k, up, o)
           IN  /\ Transfer(k, Single(load, before, up, o), o).address = a
               /\ arm_load_store(k, Single(load, before, up, o)) =
                    IF load THEN {arm_write_register(w, 1, Read(w, a, 4, 0))}
                            ELSE {Write(w, a, 4, w.reg[1])}
<1> DEFINE i == Single(load, before, up, o)
           a == AddressOf(k.reg[0], before, up, o)
           w == Based(k, up, o)
           t == Transfer(k, i, o)
<1>1. /\ i.cond = "AL" /\ i.load = load /\ i.byte = FALSE /\ i.before = before
      /\ i.up = up /\ i.write = before /\ i.rn = 0 /\ i.rd = 1
      /\ i.offset.kind = "immediate" /\ i.offset.value = o
  BY DEF Single
<1> HIDE DEF i
<1>2. ConditionPassed(k, i.cond)
  BY <1>1 DEF ConditionPassed
<1>3. Index(k, i.offset) = {o}
  BY <1>1 DEF Index
<1>4. arm_read_register(k, 0) = k.reg[0] /\ arm_read_register(w, 1) = w.reg[1]
  BY RegisterNumbers DEF arm_read_register
<1>5. t = [address |-> a, machine |-> w]
  BY <1>1, <1>4 DEF Transfer, AddressOf, Based
<1>6. Access(i, t) = IF load THEN arm_write_register(w, 1, Read(w, a, 4, 0))
                             ELSE Write(w, a, 4, w.reg[1])
  <2>1. t.address = a /\ t.machine = w
    BY <1>5
  <2> HIDE DEF t, a, w
  <2> QED
    BY <1>1, <1>4, <2>1, RegisterNumbers DEF Access
<1>7. arm_load_store(k, i) = {Access(i, t)}
  BY <1>2, <1>3 DEF arm_load_store
<1> QED
  BY <1>5, <1>6, <1>7 DEF i

\* The machine after the store and after the load of register 1.
StoredOne(w, a) == Write(w, a, 4, w.reg[1])

LoadedOne(w, a) == arm_write_register(w, 1, Read(w, a, 4, 0))

LEMMA StoreOutcome ==
    ASSUME NEW k \in FullMachine, NEW before \in BOOLEAN, NEW up \in BOOLEAN, NEW o \in Nat
    PROVE  /\ \A l \in arm_load_store(k, Single(FALSE, before, up, o)) :
                l = StoredOne(Based(k, up, o), AddressOf(k.reg[0], before, up, o))
           /\ \A l \in arm_load_store(k, Single(TRUE, before, up, o)) :
                l = LoadedOne(Based(k, up, o), AddressOf(k.reg[0], before, up, o))
           /\ Transfer(k, Single(FALSE, before, up, o), o).address =
                AddressOf(k.reg[0], before, up, o)
<1> DEFINE a == AddressOf(k.reg[0], before, up, o)
           w == Based(k, up, o)
<1>1. ASSUME NEW load \in BOOLEAN
      PROVE  /\ arm_load_store(k, Single(load, before, up, o)) =
                   IF load THEN {arm_write_register(w, 1, Read(w, a, 4, 0))}
                           ELSE {Write(w, a, 4, w.reg[1])}
             /\ Transfer(k, Single(load, before, up, o), o).address = a
  BY SingleOutcome
<1> HIDE DEF a, w
<1>2. TRUE \in BOOLEAN /\ FALSE \in BOOLEAN
  OBVIOUS
<1>3. /\ arm_load_store(k, Single(TRUE, before, up, o)) =
           {arm_write_register(w, 1, Read(w, a, 4, 0))}
      /\ arm_load_store(k, Single(FALSE, before, up, o)) = {Write(w, a, 4, w.reg[1])}
      /\ Transfer(k, Single(FALSE, before, up, o), o).address = a
  BY <1>1, <1>2, Zenon
<1>4. /\ \A l \in arm_load_store(k, Single(FALSE, before, up, o)) : l = StoredOne(w, a)
      /\ \A l \in arm_load_store(k, Single(TRUE, before, up, o)) : l = LoadedOne(w, a)
  BY <1>3, Zenon DEF StoredOne, LoadedOne
<1> QED
  BY <1>3, <1>4, Zenon DEF a, w

\* What one register pushed and popped should leave.
OneRestored(h, before, up, o) ==
    \A k \in arm_load_store(h, Single(FALSE, before, up, o)) :
    \A r \in arm_load_store(Scratched(k, {1}), Single(TRUE, ~before, ~up, o)) : r.reg = h.reg

LEMMA ScratchedFull ==
    ASSUME NEW k \in FullMachine, NEW list
    PROVE  /\ Scratched(k, list) \in FullMachine
           /\ Scratched(k, list).mem = k.mem
           /\ \A r \in RegNo \ list : Scratched(k, list).reg[r] = k.reg[r]
<1> DEFINE reg == [r \in RegNo |-> IF r \in list THEN Wrap(k.reg[r] + 1) ELSE k.reg[r]]
<1>1. ASSUME NEW r \in RegNo PROVE k.reg[r] \in Word /\ Wrap(k.reg[r] + 1) \in Word
  <2>1. k.reg[r] \in Word
    BY FullRegisters DEF Registers
  <2>2. k.reg[r] + 1 \in Int
    BY <2>1, WordInt
  <2> QED
    BY <2>1, <2>2, WrapWord
<1>2. reg \in [RegNo -> Word]
  BY <1>1
<1>3. Scratched(k, list) = [k EXCEPT !.reg = reg]
  BY DEF Scratched
<1>4. \A r \in RegNo \ list : reg[r] = k.reg[r]
  OBVIOUS
<1> HIDE DEF reg
<1>5. /\ [k EXCEPT !.reg = reg] \in FullMachine /\ [k EXCEPT !.reg = reg].mem = k.mem
      /\ [k EXCEPT !.reg = reg].reg = reg
  BY <1>2 DEF FullMachine
<1> QED
  BY <1>3, <1>4, <1>5

LEMMA WriteBytes4 ==
    ASSUME NEW k \in FullMachine, NEW a \in Word, NEW v \in Word, Accepted(a, 4)
    PROVE  /\ Write(k, a, 4, v) \in FullMachine
           /\ Write(k, a, 4, v).reg = k.reg
           /\ \A j \in 0 .. 3 : Write(k, a, 4, v).mem[a + j] = ByteOf(v, j)
<1> DEFINE n == 4
<1>1. n \in Width4 /\ 0 .. n - 1 = 0 .. 3
  BY DEF Width4
<1> HIDE DEF n
<1>2. /\ Write(k, a, n, v) \in FullMachine
      /\ Write(k, a, n, v).reg = k.reg
      /\ Accepted(a, n) => \A j \in 0 .. n - 1 : Write(k, a, n, v).mem[a + j] = ByteOf(v, j)
  BY <1>1, WriteBytes
<1> QED
  BY <1>1, <1>2 DEF n

LEMMA PoppedOne ==
    ASSUME NEW h \in FullMachine, NEW before \in BOOLEAN, NEW up \in BOOLEAN, NEW o \in Nat,
           Accepted(AddressOf(h.reg[0], before, up, o), 4)
    PROVE  OneRestored(h, before, up, o)
<1> SUFFICES ASSUME NEW k \in arm_load_store(h, Single(FALSE, before, up, o)),
                    NEW r \in arm_load_store(Scratched(k, {1}), Single(TRUE, ~before, ~up, o))
             PROVE  r.reg = h.reg
  BY DEF OneRestored
<1> DEFINE base == h.reg[0]
           moved == Moved(base, up, o)
           a == AddressOf(base, before, up, o)
           w == Based(h, up, o)
           v == h.reg[1]
           s == Scratched(k, {1})
           x == Based(s, ~up, o)
<1>0. (~up) \in BOOLEAN /\ (~before) \in BOOLEAN /\ FALSE \in BOOLEAN /\ TRUE \in BOOLEAN
  OBVIOUS
<1>1. /\ 0 \in RegNo /\ 1 \in RegNo /\ o \in Int /\ 4 \in Width4 /\ (~up) \in BOOLEAN
      /\ (~before) \in BOOLEAN /\ FALSE \in BOOLEAN /\ TRUE \in BOOLEAN
  <2>1. 0 \in RegNo /\ 1 \in RegNo /\ o \in Int /\ 4 \in Width4
    BY RegisterNumbers DEF Width4
  <2> QED
    BY <1>0, <2>1, Zenon
<1>2. base \in Word /\ v \in Word
  BY <1>1, FullRegisters DEF Registers
<1>3. moved \in Word /\ Moved(moved, ~up, o) = base
  BY <1>1, <1>2, MovedWord, MovedBack
<1>4. a \in Word /\ a \in Nat /\ Accepted(a, 4)
  BY <1>2, <1>3, WordInt DEF AddressOf
<1>5. /\ w \in FullMachine /\ w.reg[0] = moved /\ w.reg[1] = v
      /\ \A q \in RegNo \ {0} : w.reg[q] = h.reg[q]
  BY <1>1, <1>3, WriteFull DEF Based
<1>6. k = Write(w, a, 4, v)
  <2>0. k = StoredOne(w, a)
    BY StoreOutcome
  <2>1. k = Write(w, a, 4, w.reg[1])
    BY <2>0 DEF StoredOne
  <2> QED
    BY <1>5, <2>1
<1> HIDE DEF w, v
<1>7. /\ k \in FullMachine /\ k.reg = w.reg
      /\ \A j \in 0 .. 3 : k.mem[a + j] = ByteOf(v, j)
  BY <1>2, <1>4, <1>5, <1>6, WriteBytes4
<1>8. /\ s \in FullMachine /\ s.mem = k.mem /\ s.reg[0] = moved
      /\ \A q \in RegNo \ {0, 1} : s.reg[q] = h.reg[q]
  BY <1>1, <1>5, <1>7, ScratchedFull
<1> HIDE DEF s
<1>9. AddressOf(s.reg[0], ~before, ~up, o) = a
  BY <1>3, <1>8 DEF AddressOf
<1>10. /\ x \in FullMachine /\ x.mem = k.mem /\ x.reg[0] = base
       /\ \A q \in RegNo \ {0, 1} : x.reg[q] = h.reg[q]
  BY <1>1, <1>2, <1>3, <1>8, WriteFull DEF Based
<1>11. r = arm_write_register(x, 1, Read(x, a, 4, 0))
  <2>1. r \in arm_load_store(s, Single(TRUE, ~before, ~up, o))
    BY DEF s
  <2> DEFINE nb == ~before
             nu == ~up
  <2>2. nb \in BOOLEAN /\ nu \in BOOLEAN
    BY <1>1
  <2>3. x = Based(s, nu, o) /\ AddressOf(s.reg[0], nb, nu, o) = a
        /\ r \in arm_load_store(s, Single(TRUE, nb, nu, o))
    BY <1>9, <2>1
  <2> HIDE DEF nb, nu, x, a
  <2> QED
    <3>1. r = LoadedOne(x, a)
      BY <1>8, <2>2, <2>3, StoreOutcome
    <3> QED
      BY <3>1 DEF LoadedOne
<1> HIDE DEF x, a
<1>12. Read(x, a, 4, 0) = v
  <2>1. \A j \in 0 .. 3 : x.mem[a + j] = ByteOf(v, j)
    BY <1>7, <1>10
  <2>2. Loaded(x, a, 4) = v
    BY <1>2, <2>1, StoredWord
  <2> QED
    BY <1>4, <2>2 DEF Read
<1>13. /\ r \in FullMachine /\ r.reg[1] = v
       /\ \A q \in RegNo \ {1} : r.reg[q] = x.reg[q]
  BY <1>1, <1>2, <1>10, <1>11, <1>12, WriteFull
<1>14. \A q \in RegNo : r.reg[q] = h.reg[q]
  BY <1>1, <1>10, <1>13 DEF v
<1>15. r.reg \in [RegNo -> Word] /\ h.reg \in [RegNo -> Word]
  BY <1>13, FullRegisters DEF Registers
<1> QED
  BY <1>14, <1>15

LEMMA PushedOne == FullTyped => PushPopOne
<1> SUFFICES ASSUME m \in FullMachine, NEW before \in BOOLEAN, NEW up \in BOOLEAN,
                    NEW o \in {4, 8},
                    Accepted(Transfer(m, Single(FALSE, before, up, o), o).address, 4)
             PROVE  OneRestored(m, before, up, o)
  BY Zenon DEF FullTyped, PushPopOne, OneRestored
<1>1. o \in Nat
  OBVIOUS
<1>2. Accepted(AddressOf(m.reg[0], before, up, o), 4)
  BY <1>1, StoreOutcome
<1> QED
  BY <1>1, <1>2, PoppedOne

\* STR rd, [rn, -o]! then LDR rd, [rn], +o restores register and base, and so
\* do the other three directions, wherever the program left the base
\* (arm_load_store.c:29-127).
THEOREM OneRegisterPopped == LoadStoreSpec => []PushPopOne
  BY FullTypes, PushedOne, PTL

-----------------------------------------------------------------------------
\* The registers of a list have different positions, below their number.
Before(list, r) == {q \in list : q < r}

LEMMA Positions ==
    ASSUME NEW list \in SUBSET RegNo
    PROVE  /\ IsFiniteSet(list) /\ Cardinality(list) \in Nat
           /\ \A r \in list : /\ Cardinality(Before(list, r)) \in Nat
                              /\ Cardinality(Before(list, r)) < Cardinality(list)
           /\ \A q, r \in list : q # r =>
                Cardinality(Before(list, q)) # Cardinality(Before(list, r))
<1>1. IsFiniteSet(RegNo) /\ \A r \in RegNo : r \in Nat
  BY InstructionAssumption, FS_Interval DEF RegNo
<1>2. ASSUME NEW S \in SUBSET RegNo PROVE IsFiniteSet(S) /\ Cardinality(S) \in Nat
  <2>1. IsFiniteSet(S)
    BY <1>1, FS_Subset
  <2> QED
    BY <2>1, FS_CardinalityType
<1>3. ASSUME NEW S \in SUBSET RegNo, NEW T \in SUBSET S, NEW x \in S, x \notin T
      PROVE  Cardinality(T) < Cardinality(S)
  <2>1. IsFiniteSet(S) /\ Cardinality(S) \in Nat /\ T \in SUBSET RegNo /\ T # S
    BY <1>2, <1>3
  <2>2. Cardinality(T) \in Nat
    BY <1>2, <2>1
  <2>3. Cardinality(T) <= Cardinality(S) /\ Cardinality(T) # Cardinality(S)
    BY <2>1, FS_Subset
  <2> QED
    BY <2>1, <2>2, <2>3
<1>4. ASSUME NEW r \in list
      PROVE  /\ Before(list, r) \in SUBSET list /\ Before(list, r) \in SUBSET RegNo
             /\ r \notin Before(list, r)
  <2>1. r \in Nat /\ ~(r < r)
    BY <1>1
  <2>2. Before(list, r) \subseteq list /\ r \notin Before(list, r)
    BY <2>1 DEF Before
  <2> QED
    BY <2>2
<1>5. ASSUME NEW r \in list
      PROVE  Cardinality(Before(list, r)) \in Nat
             /\ Cardinality(Before(list, r)) < Cardinality(list)
  BY <1>2, <1>3, <1>4
<1>6. ASSUME NEW q \in list, NEW r \in list, q < r
      PROVE  Cardinality(Before(list, q)) < Cardinality(Before(list, r))
  <2> DEFINE T == Before(list, q)
             S == Before(list, r)
  <2>1. q \in S
    BY <1>6 DEF Before
  <2>2. T \in SUBSET S
    <3>1. ASSUME NEW x \in T PROVE x \in S
      <4>1. x \in list /\ x < q
        BY DEF Before
      <4>2. x \in Nat /\ q \in Nat /\ r \in Nat
        BY <1>1, <4>1
      <4>3. x < r
        BY <1>6, <4>1, <4>2
      <4> QED
        BY <4>1, <4>3 DEF Before
    <3> QED
      BY <3>1
  <2>3. q \notin T /\ S \in SUBSET RegNo
    BY <1>4
  <2> HIDE DEF T, S
  <2>4. Cardinality(T) < Cardinality(S)
    BY <1>3, <2>1, <2>2, <2>3
  <2> QED
    BY <2>4 DEF T, S
<1>7. ASSUME NEW q \in list, NEW r \in list, q # r
      PROVE  Cardinality(Before(list, q)) # Cardinality(Before(list, r))
  <2> DEFINE x == Cardinality(Before(list, q))
             y == Cardinality(Before(list, r))
  <2>1. q \in Nat /\ r \in Nat /\ x \in Nat /\ y \in Nat
    BY <1>1, <1>5
  <2>2. (q < r => x < y) /\ (r < q => y < x)
    BY <1>6
  <2> HIDE DEF x, y
  <2>3. x # y
    BY <1>7, <2>1, <2>2
  <2> QED
    BY <2>3 DEF x, y
<1> QED
  BY <1>2, <1>5, <1>7

\* The opposite transfer starts at the same address.
LEMMA SameStart ==
    ASSUME NEW base \in Word, NEW before \in BOOLEAN, NEW up \in BOOLEAN, NEW i, NEW j,
           i.before = before, i.up = up, j.before = ~before, j.up = ~up,
           Cardinality(Listed(i)) \in Nat, Cardinality(Listed(j)) = Cardinality(Listed(i))
    PROVE  StartAddress(Moved(base, up, 4 * Cardinality(Listed(i))), j) =
               StartAddress(base, i)
<1> DEFINE bytes == 4 * Cardinality(Listed(i))
<1>1. bytes \in Int /\ base \in Int /\ 4 * Cardinality(Listed(j)) = bytes
  BY WordInt
<1>2. \A b : /\ StartAddress(b, i) =
                  Wrap(b + (IF up THEN (IF before THEN 4 ELSE 0)
                                  ELSE (IF before THEN -bytes ELSE 4 - bytes)))
             /\ StartAddress(b, j) =
                  Wrap(b + (IF up THEN (IF before THEN 4 - bytes ELSE -bytes)
                                  ELSE (IF before THEN 0 ELSE 4)))
  BY <1>1 DEF StartAddress
<1> HIDE DEF bytes
<1>3. ASSUME NEW z \in Int, NEW y \in Int, NEW x \in Int, z + y = x
      PROVE  Wrap(Wrap(z) + y) = Wrap(x)
  BY <1>3, WrapTwice
<1>4. CASE up
  <2> DEFINE z == base + bytes
  <2>1. z \in Int /\ Moved(base, up, bytes) = Wrap(z)
    BY <1>1, <1>4 DEF Moved
  <2>2. z + (4 - bytes) = base + 4 /\ z + (-bytes) = base + 0 /\ 4 - bytes \in Int
        /\ -bytes \in Int /\ base + 4 \in Int /\ base + 0 \in Int
    BY <1>1
  <2> HIDE DEF z
  <2>3. Wrap(Wrap(z) + (4 - bytes)) = Wrap(base + 4) /\ Wrap(Wrap(z) + (-bytes)) = Wrap(base + 0)
    BY <1>3, <2>1, <2>2
  <2>4. CASE before
    BY <1>2, <1>4, <2>1, <2>3, <2>4 DEF bytes
  <2>5. CASE ~before
    BY <1>2, <1>4, <2>1, <2>3, <2>5 DEF bytes
  <2> QED
    BY <2>4, <2>5
<1>5. CASE ~up
  <2> DEFINE z == base - bytes
  <2>1. z \in Int /\ Moved(base, up, bytes) = Wrap(z)
    BY <1>1, <1>5 DEF Moved
  <2>2. z + 4 = base + (4 - bytes) /\ z + 0 = base + (-bytes) /\ base + (4 - bytes) \in Int
        /\ base + (-bytes) \in Int
    BY <1>1
  <2> HIDE DEF z
  <2>3. Wrap(Wrap(z) + 4) = Wrap(base + (4 - bytes)) /\ Wrap(Wrap(z) + 0) = Wrap(base + (-bytes))
    BY <1>3, <2>1, <2>2
  <2>4. CASE before
    BY <1>2, <1>5, <2>1, <2>3, <2>4 DEF bytes
  <2>5. CASE ~before
    BY <1>2, <1>5, <2>1, <2>3, <2>5 DEF bytes
  <2> QED
    BY <2>4, <2>5
<1> QED
  BY <1>4, <1>5

\* A stack of n words that lies in memory.
InMemory(start, n) == start \in Nat /\ n \in Nat /\ start % 4 = 0 /\ start + 4 * n <= Size

LEMMA Slots ==
    ASSUME NEW start, NEW n, InMemory(start, n), NEW p \in Nat, p < n
    PROVE  /\ start + 4 * p \in Nat /\ Wrap(start + 4 * p) = start + 4 * p
           /\ Accepted(start + 4 * p, 4) /\ start + 4 * p \in Word
<1> DEFINE a == start + 4 * p
<1>1. /\ start \in Nat /\ n \in Nat /\ start % 4 = 0 /\ start + 4 * n <= Size /\ Size \in Nat
      /\ Size < Pow2[Bits] /\ Pow2[Bits] \in Nat
  BY LoadStoreAssumption, Width DEF InMemory
<1>2. a \in Nat /\ a < Size /\ a % 4 = 0
  BY <1>1
<1> HIDE DEF a
<1>3. a \in Word /\ a \in Int
  BY <1>1, <1>2 DEF Word
<1>4. Wrap(a) = a
  BY <1>3, WrapWord
<1> QED
  BY <1>2, <1>3, <1>4 DEF Accepted, a

LEMMA LoadedSlot ==
    ASSUME NEW k, NEW start, NEW n, InMemory(start, n), NEW p \in Nat, p < n
    PROVE  ValueAt(k, start, p) = Loaded(k, start + 4 * p, 4)
<1> DEFINE read == {q \in 0 .. p : Accepted(Wrap(start + 4 * q), 4)}
<1>1. p \in 0 .. p
  OBVIOUS
<1>2. p \in read
  BY <1>1, Slots
<1>3. read \in SUBSET (0 .. p) /\ read # {}
  BY <1>2
<1>4. ValueAt(k, start, p) = Loaded(k, Wrap(start + 4 * Max(read)), 4)
  BY <1>3 DEF ValueAt
<1> HIDE DEF read
<1>5. Max(read) \in read /\ Max(read) >= p
  BY <1>2, <1>3, GreatestNumber
<1>6. Max(read) = p
  <2> DEFINE x == Max(read)
  <2>1. x \in 0 .. p /\ x >= p
    BY <1>3, <1>5
  <2> HIDE DEF x
  <2>2. x = p
    BY <2>1
  <2> QED
    BY <2>2 DEF x
<1> QED
  BY <1>4, <1>6, Slots

\* Every register is stored in the word of its position, and nothing else is.
LEMMA StoredSlot ==
    ASSUME NEW k \in FullMachine, NEW i, i.list \in SUBSET RegNo, NEW start,
           InMemory(start, Cardinality(Listed(i))), NEW q \in Listed(i), NEW j \in 0 .. 3
    PROVE  StoreMultiple(k, i, start).mem[(start + 4 * Position(i, q)) + j] =
               ByteOf(arm_read_register(k, q), j)
<1> DEFINE n == Cardinality(Listed(i))
           P(r) == Position(i, r)
           Holds(r, x) == LET a == Wrap(start + 4 * Position(i, r))
                          IN  Accepted(a, 4) /\ x \in a .. a + 3
           mem == [x \in Address |->
                     IF \E r \in Listed(i) : Holds(r, x)
                     THEN ByteOf(arm_read_register(k, CHOOSE r \in Listed(i) : Holds(r, x)), x % 4)
                     ELSE k.mem[x]]
           y == (start + 4 * P(q)) + j
<1>1. StoreMultiple(k, i, start).mem = mem
  BY DEF StoreMultiple, FullMachine
<1>2. ASSUME NEW r \in Listed(i)
      PROVE  /\ P(r) \in Nat /\ P(r) < n /\ (r # q => P(r) # P(q))
             /\ Wrap(start + 4 * P(r)) = start + 4 * P(r) /\ Accepted(start + 4 * P(r), 4)
  <2>1. Listed(i) \in SUBSET RegNo
    BY ListedFinite
  <2>2. \A x : P(x) = Cardinality(Before(Listed(i), x))
    BY DEF Position, Before
  <2>3. P(r) \in Nat /\ P(r) < n /\ (r # q => P(r) # P(q))
    BY <2>1, <2>2, Positions
  <2> HIDE DEF P
  <2> QED
    BY <2>3, Slots
<1>3. start \in Nat /\ start % 4 = 0
  BY DEF InMemory
<1>4. y \in Address
  <2> DEFINE a == start + 4 * P(q)
  <2>1. a \in Nat /\ Accepted(a, 4) /\ 4 \in Width4
    BY <1>2, <1>3 DEF Width4
  <2> HIDE DEF a
  <2>2. \A l \in 0 .. 4 - 1 : a + l \in Address
    BY <2>1, AccessedBytes
  <2>3. a + j \in Address
    BY <2>2
  <2> QED
    BY <2>3 DEF a
<1>5. ASSUME NEW r \in Listed(i) PROVE Holds(r, y) <=> r = q
  <2> DEFINE s == P(r)
             t == P(q)
  <2>1. s \in Nat /\ t \in Nat /\ (r # q => s # t)
    BY <1>2
  <2>2. Holds(r, y) <=> y \in (start + 4 * s) .. (start + 4 * s) + 3
    BY <1>2
  <2>3. y = (start + 4 * t) + j
    OBVIOUS
  <2> HIDE DEF y, Holds
  <2>4. r = q => s = t
    OBVIOUS
  <2> HIDE DEF s, t
  <2>5. y \in (start + 4 * s) .. (start + 4 * s) + 3 <=> s = t
    BY <1>3, <2>1, <2>3
  <2> QED
    BY <2>1, <2>2, <2>4, <2>5
<1>6. y % 4 = j
  <2> DEFINE t == P(q)
  <2>1. t \in Nat /\ y = (start + 4 * t) + j
    BY <1>2
  <2> HIDE DEF t, y
  <2> QED
    BY <1>3, <2>1
<1> HIDE DEF Holds, y
<1>7. (\E r \in Listed(i) : Holds(r, y)) /\ (CHOOSE r \in Listed(i) : Holds(r, y)) = q
  BY <1>5
<1>8. mem[y] = ByteOf(arm_read_register(k, q), j)
  BY <1>4, <1>6, <1>7
<1> HIDE DEF mem
<1> QED
  BY <1>1, <1>8 DEF y

\* The base after a transfer of the list.
ListBased(k, up, list) == arm_write_register(k, 0, Moved(k.reg[0], up, 4 * Cardinality(list)))

Lists == SUBSET (RegNo \ {0, PC})

\* The fields of a push or a pop.
StackTransfer(i, before, up, list) ==
    /\ i.cond = "AL" /\ i.before = before /\ i.up = up /\ i.write = TRUE /\ i.rn = 0
    /\ i.list = list /\ Listed(i) = list /\ PC \notin i.list /\ i.list \in SUBSET RegNo

LEMMA MultipleFields ==
    ASSUME NEW load, NEW before, NEW up, NEW list \in Lists
    PROVE  /\ StackTransfer(Multiple(load, before, up, list), before, up, list)
           /\ Multiple(load, before, up, list).load = load
<1> DEFINE i == Multiple(load, before, up, list)
<1>1. /\ i.cond = "AL" /\ i.before = before /\ i.up = up /\ i.write = TRUE /\ i.rn = 0
      /\ i.list = list /\ i.load = load
  BY DEF Multiple
<1> HIDE DEF i
<1>2. Listed(i) = list /\ PC \notin i.list /\ i.list \in SUBSET RegNo
  BY <1>1 DEF Listed, Lists
<1>3. StackTransfer(i, before, up, list) /\ i.load = load
  BY <1>1, <1>2, Zenon DEF StackTransfer
<1> QED
  BY <1>3 DEF i

LEMMA MultipleOutcome ==
    ASSUME NEW k \in FullMachine, NEW before, NEW up, NEW list \in Lists, NEW i,
           StackTransfer(i, before, up, list)
    PROVE  LET w == ListBased(k, up, list)
               start == StartAddress(k.reg[0], i)
           IN  /\ i.load = FALSE => \A l \in arm_load_store_multiple(k, i) :
                                        l = StoreMultiple(w, i, start)
               /\ i.load = TRUE => \A l \in arm_load_store_multiple(k, i) :
                                        l = LoadMultiple(w, i, start)
<1> DEFINE w == ListBased(k, up, list)
           start == StartAddress(k.reg[0], i)
<1>1. i.cond = "AL" /\ i.up = up /\ i.write = TRUE /\ i.rn = 0 /\ Listed(i) = list
  BY Zenon DEF StackTransfer
<1>2. ConditionPassed(k, i.cond)
  BY <1>1 DEF ConditionPassed
<1>3. arm_read_register(k, 0) = k.reg[0]
  BY RegisterNumbers DEF arm_read_register
<1>4. WriteBack(k, i) = w
  BY <1>1, <1>3 DEF WriteBack, ListBased
<1>5. arm_load_store_multiple(k, i) =
        IF i.load THEN {LoadMultiple(w, i, start)} ELSE {StoreMultiple(w, i, start)}
  BY <1>1, <1>2, <1>3, <1>4 DEF arm_load_store_multiple
<1> HIDE DEF w, start
<1>6. /\ i.load = FALSE => \A l \in arm_load_store_multiple(k, i) : l = StoreMultiple(w, i, start)
      /\ i.load = TRUE => \A l \in arm_load_store_multiple(k, i) : l = LoadMultiple(w, i, start)
  BY <1>5
<1> QED
  BY <1>6 DEF w, start

\* What a list of registers pushed and popped should leave.
ListRestored(h, before, up, list) ==
    \A k \in arm_load_store_multiple(h, Multiple(FALSE, before, up, list)) :
    \A r \in arm_load_store_multiple(Scratched(k, list), Multiple(TRUE, ~before, ~up, list)) :
        r.reg = h.reg

LEMMA PoppedList ==
    ASSUME NEW h \in FullMachine, NEW before \in BOOLEAN, NEW up \in BOOLEAN,
           NEW list \in Lists,
           InMemory(StartAddress(h.reg[0], Multiple(FALSE, before, up, list)), Cardinality(list))
    PROVE  ListRestored(h, before, up, list)
<1> DEFINE i == Multiple(FALSE, before, up, list)
           nb == ~before
           nu == ~up
           j == Multiple(TRUE, nb, nu, list)
<1> SUFFICES ASSUME NEW k \in arm_load_store_multiple(h, i),
                    NEW r \in arm_load_store_multiple(Scratched(k, list), j)
             PROVE  r.reg = h.reg
  BY DEF ListRestored
<1>1. nb \in BOOLEAN /\ nu \in BOOLEAN
  OBVIOUS
<1>2. StackTransfer(i, before, up, list) /\ i.load = FALSE
  BY MultipleFields, Zenon
<1>3. StackTransfer(j, nb, nu, list) /\ j.load = TRUE
  BY MultipleFields, Zenon
<1>4. nb = ~before /\ nu = ~up
  OBVIOUS
<1> DEFINE n == Cardinality(list)
           base == h.reg[0]
           moved == Moved(base, up, 4 * n)
           start == StartAddress(base, i)
           w == ListBased(h, up, list)
           s == Scratched(k, list)
           x == ListBased(s, nu, list)
<1>5. InMemory(start, n)
  OBVIOUS
<1> HIDE DEF i, j, nb, nu
<1>6. /\ i.before = before /\ i.up = up /\ Listed(i) = list /\ i.list \in SUBSET RegNo
      /\ j.before = nb /\ j.up = nu /\ Listed(j) = list /\ j.list \in SUBSET RegNo
      /\ PC \notin j.list
  BY <1>2, <1>3, Zenon DEF StackTransfer
<1>7. 0 \in RegNo /\ 0 \notin list /\ PC \notin list /\ list \in SUBSET RegNo /\ 0 # PC
  BY RegisterNumbers DEF Lists
<1>8. n \in Nat /\ 4 * n \in Int
  BY <1>7, Positions
<1>9. base \in Word
  BY <1>7, FullRegisters DEF Registers
<1>10. moved \in Word /\ Moved(moved, nu, 4 * n) = base
  <2> DEFINE by == 4 * n
  <2>1. by \in Int
    BY <1>8
  <2> HIDE DEF by
  <2>2. Moved(base, up, by) \in Word /\ Moved(Moved(base, up, by), ~up, by) = base
    BY <1>9, <2>1, MovedWord, MovedBack
  <2> QED
    BY <1>4, <2>2 DEF by
<1>11. StartAddress(moved, j) = start
  BY <1>4, <1>6, <1>8, <1>9, SameStart
<1>12. k = StoreMultiple(w, i, start)
  <2>1. i.load = FALSE => \A l \in arm_load_store_multiple(h, i) : l = StoreMultiple(w, i, start)
    <3> HIDE DEF w, start, base
    <3>1. w = ListBased(h, up, list) /\ start = StartAddress(h.reg[0], i)
      BY DEF w, start, base
    <3> QED
      BY <1>2, <3>1, MultipleOutcome
  <2> QED
    BY <1>2, <2>1
<1>13. /\ w \in FullMachine /\ w.reg[0] = moved
       /\ \A q \in RegNo \ {0} : w.reg[q] = h.reg[q]
  <2> HIDE DEF moved
  <2>1. w = arm_write_register(h, 0, moved)
    BY DEF ListBased, moved
  <2> HIDE DEF w
  <2> QED
    BY <1>7, <1>10, <2>1, WriteFull
<1> HIDE DEF w
<1>14. k \in FullMachine /\ k.reg = w.reg
  BY <1>6, <1>12, <1>13, StoreMultipleFull
<1>15. /\ s \in FullMachine /\ s.mem = k.mem /\ s.reg[0] = moved
       /\ \A q \in RegNo \ (list \cup {0}) : s.reg[q] = h.reg[q]
  <2>1. /\ s \in FullMachine /\ s.mem = k.mem
        /\ \A q \in RegNo \ list : s.reg[q] = k.reg[q]
    BY <1>14, ScratchedFull
  <2> HIDE DEF s, moved
  <2> QED
    BY <1>7, <1>13, <1>14, <2>1
<1>16. r = LoadMultiple(x, j, start)
  <2>1. r \in arm_load_store_multiple(s, j)
    OBVIOUS
  <2> HIDE DEF s, start, moved
  <2>2. StartAddress(s.reg[0], j) = start
    BY <1>11, <1>15
  <2> QED
    BY <1>3, <1>15, <2>1, <2>2, MultipleOutcome
<1> HIDE DEF s
<1>17. /\ x \in FullMachine /\ x.mem = k.mem /\ x.reg[0] = base
       /\ \A q \in RegNo \ (list \cup {0}) : x.reg[q] = h.reg[q]
  <2>1. x = arm_write_register(s, 0, base)
    BY <1>10, <1>15 DEF ListBased
  <2> HIDE DEF x, base, moved
  <2> QED
    BY <1>7, <1>9, <1>15, <2>1, WriteFull
<1> HIDE DEF x, moved, start, n
<1>18. ASSUME NEW q \in list PROVE ValueAt(x, start, Position(j, q)) = h.reg[q]
  <2> DEFINE p == Position(j, q)
             v == h.reg[q]
             a == start + 4 * p
  <2>1. p = Cardinality(Before(list, q)) /\ Position(i, q) = p
    BY <1>6 DEF Position, Before
  <2>2. p \in Nat /\ p < n
    BY <1>7, <2>1, Positions DEF n
  <2> HIDE DEF p
  <2>3. ValueAt(x, start, p) = Loaded(x, a, 4)
    BY <1>5, <2>2, LoadedSlot
  <2>4. arm_read_register(w, q) = v /\ v \in Word
    <3>1. q # PC /\ q # 0 /\ q \in RegNo
      BY <1>7
    <3> QED
      BY <1>13, <3>1, FullRegisters DEF arm_read_register, Registers
  <2>5. ASSUME NEW l \in 0 .. 3 PROVE x.mem[a + l] = ByteOf(v, l)
    <3>1. q \in Listed(i) /\ InMemory(start, Cardinality(Listed(i)))
      BY <1>5, <1>6 DEF n
    <3>2. StoreMultiple(w, i, start).mem[(start + 4 * Position(i, q)) + l] =
            ByteOf(arm_read_register(w, q), l)
      BY <1>6, <1>13, <3>1, StoredSlot
    <3> QED
      BY <1>12, <1>17, <2>1, <2>4, <3>2
  <2> HIDE DEF a, v
  <2>6. Loaded(x, a, 4) = v
    BY <2>4, <2>5, StoredWord
  <2> QED
    BY <2>3, <2>6 DEF p, v
<1>19. r.reg = [q \in RegNo |-> IF q \in list THEN ValueAt(x, start, Position(j, q))
                                              ELSE x.reg[q]]
  BY <1>6, <1>16, <1>17 DEF LoadMultiple, FullMachine
<1>20. \A q \in RegNo : r.reg[q] = h.reg[q]
  BY <1>17, <1>18, <1>19
<1>21. h.reg = [q \in RegNo |-> h.reg[q]]
  BY FullRegisters DEF Registers
<1>22. r.reg = [q \in RegNo |-> r.reg[q]]
  BY <1>19
<1> QED
  BY <1>20, <1>21, <1>22

LEMMA PushedList == FullTyped => StackDiscipline
<1> SUFFICES ASSUME m \in FullMachine, NEW list \in SUBSET (RegNo \ {0, PC}),
                    NEW before \in BOOLEAN, NEW up \in BOOLEAN,
                    LET start == StartAddress(m.reg[0], Multiple(FALSE, before, up, list))
                    IN  list # {} /\ start % 4 = 0 /\ start + 4 * Cardinality(list) <= Size
             PROVE  ListRestored(m, before, up, list)
  BY Zenon DEF FullTyped, StackDiscipline, ListRestored
<1> DEFINE i == Multiple(FALSE, before, up, list)
           start == StartAddress(m.reg[0], i)
<1>1. list \in Lists /\ list \in SUBSET RegNo
  BY DEF Lists
<1>2. i.list \in SUBSET RegNo
  BY <1>1, MultipleFields DEF StackTransfer
<1>3. m.reg[0] \in Word
  BY FullRegisters, RegisterNumbers DEF Registers
<1>4. start % 4 = 0 /\ start + 4 * Cardinality(list) <= Size
  OBVIOUS
<1> HIDE DEF i
<1>5. start \in Word
  BY <1>2, <1>3, StartWord
<1>6. start \in Nat
  BY <1>5, WordInt
<1>7. Cardinality(list) \in Nat
  BY <1>1, Positions
<1> HIDE DEF start
<1>8. InMemory(start, Cardinality(list))
  BY <1>4, <1>6, <1>7 DEF InMemory
<1> QED
  BY <1>1, <1>8, PoppedList DEF start, i

\* Every way of pushing registers on a stack is undone by the opposite way of
\* popping them, whatever the list, wherever the program left the base: the
\* registers are stored in different words and every word gives back the
\* register stored there (arm_load_store.c:129-196).
THEOREM ListPopped == LoadStoreSpec => []StackDiscipline
  BY FullTypes, PushedList, PTL
=============================================================================
