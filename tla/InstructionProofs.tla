-------------------------- MODULE InstructionProofs ---------------------------
(***************************************************************************)
(* The data processing and branch instructions, for every width of words,  *)
(* bytes and offsets and every number of registers: words and their bits   *)
(* first, then the instructions and the program of Branch.                 *)
(***************************************************************************)
EXTENDS Branch, WellFoundedInduction, TLAPS

\* A set of numbers that is not empty has a least one.
LEMMA LeastNumber ==
    ASSUME NEW T \in SUBSET Nat, T # {}
    PROVE  \E k \in T : \A l \in T : k <= l
<1>1. IsWellFoundedOn(OpToRel(<, Nat), Nat)
  BY NatLessThanWellFounded
<1>2. PICK k \in T : \A l \in T : ~(<<l, k>> \in OpToRel(<, Nat))
  BY <1>1, WFMin
<1>3. \A l \in T : ~(l < k)
  BY <1>2 DEF OpToRel
<1> QED
  BY <1>3

-----------------------------------------------------------------------------
(***************************************************************************)
(* Powers of two                                                           *)
(***************************************************************************)
Doubled(f, n) == IF n = 0 THEN 1 ELSE 2 * f[n - 1]

\* The recursion that defines Pow2 has a solution.
LEMMA Pow2Equation ==
    Pow2 = [n \in 0 .. 2 * Bits |-> Doubled(Pow2, n)]
<1> DEFINE Top == 2 * Bits
           Solves(f, h) == f = [n \in 0 .. h |-> Doubled(f, n)]
           Unsolved == {h \in 0 .. Top : ~\E f : Solves(f, h)}
<1>1. Top \in Nat
  BY UtilAssumption
<1>2. Pow2 = CHOOSE f : f = [n \in 0 .. Top |-> Doubled(f, n)]
  BY DEF Pow2, Doubled
<1> HIDE DEF Top
<1>3. Unsolved = {}
  <2> SUFFICES ASSUME Unsolved # {} PROVE FALSE
    OBVIOUS
  <2>1. PICK h \in Unsolved : \A k \in Unsolved : h <= k
    <3>1. Unsolved \in SUBSET Nat
      BY <1>1
    <3> HIDE DEF Unsolved
    <3> QED
      BY <3>1, LeastNumber
  <2>2. h \in 0 .. Top /\ ~\E f : Solves(f, h)
    BY <2>1
  <2> HIDE DEF Unsolved
  <2>3. CASE h = 0
    <3> DEFINE f == [n \in 0 .. 0 |-> 1]
    <3>1. \A n \in 0 .. 0 : Doubled(f, n) = 1
      BY DEF Doubled
    <3>2. Solves(f, 0)
      BY <3>1
    <3> QED
      BY <2>2, <2>3, <3>2
  <2>4. CASE h # 0
    <3>1. h \in Nat /\ h - 1 \in 0 .. Top /\ h - 1 < h
      BY <1>1, <2>2, <2>4
    <3>2. h - 1 \notin Unsolved
      BY <1>1, <2>1, <2>2, <3>1
    <3>3. PICK f : Solves(f, h - 1)
      <4> HIDE DEF Solves
      <4> QED
        BY <3>1, <3>2 DEF Unsolved
    <3> DEFINE g == [n \in 0 .. h |-> IF n = h THEN Doubled(f, n) ELSE f[n]]
    <3>4. \A n \in 0 .. h - 1 : g[n] = f[n]
      BY <3>1
    <3>5. ASSUME NEW n \in 0 .. h PROVE g[n] = Doubled(g, n)
      <4>1. Doubled(g, n) = Doubled(f, n)
        <5> HIDE DEF g
        <5>1. n # 0 => n - 1 \in 0 .. h - 1
          BY <3>1
        <5> QED
          BY <3>4, <5>1 DEF Doubled
      <4>2. CASE n = h
        BY <4>1, <4>2
      <4>3. CASE n # h
        <5>1. n \in 0 .. h - 1
          BY <3>1, <4>3
        <5>2. f[n] = Doubled(f, n)
          BY <3>3, <5>1
        <5> QED
          BY <3>4, <4>1, <5>1, <5>2
      <4> QED
        BY <4>2, <4>3
    <3>6. g = [n \in 0 .. h |-> g[n]]
      OBVIOUS
    <3>7. Solves(g, h)
      <4> HIDE DEF g
      <4> QED
        BY <3>5, <3>6
    <3> QED
      BY <2>2, <3>7
  <2> QED
    BY <2>3, <2>4
<1>4. \E f : f = [n \in 0 .. Top |-> Doubled(f, n)]
  <2>1. Top \in 0 .. Top
    BY <1>1
  <2>2. \E f : Solves(f, Top)
    <3> HIDE DEF Solves
    <3> QED
      BY <1>3, <2>1
  <2> QED
    BY <2>2
<1>5. Pow2 = [n \in 0 .. Top |-> Doubled(Pow2, n)]
  BY <1>2, <1>4
<1> QED
  BY <1>5 DEF Top

\* The exponents.
Exponent == 0 .. 2 * Bits

LEMMA Pow2Values ==
    /\ Pow2[0] = 1 /\ Pow2[1] = 2
    /\ \A n \in Exponent \ {0} : Pow2[n] = 2 * Pow2[n - 1]
    /\ \A n \in Exponent : Pow2[n] \in Nat \ {0}
<1>1. 0 \in Exponent /\ 1 \in Exponent /\ Bits \in Nat /\ 1 # 0 /\ 1 - 1 = 0
  BY UtilAssumption DEF Exponent
<1>2. \A n \in Exponent : Pow2[n] = Doubled(Pow2, n)
  BY Pow2Equation DEF Exponent
<1>3. Pow2[0] = 1
  BY <1>1, <1>2 DEF Doubled
<1>4. \A n \in Exponent \ {0} : Pow2[n] = 2 * Pow2[n - 1]
  BY <1>2 DEF Doubled
<1>5. Pow2[1] = 2
  BY <1>1, <1>3, <1>4
<1> DEFINE Wrong == {n \in Exponent : Pow2[n] \notin Nat \ {0}}
<1>6. Wrong = {}
  <2> SUFFICES ASSUME Wrong # {} PROVE FALSE
    OBVIOUS
  <2>1. PICK n \in Wrong : \A k \in Wrong : n <= k
    <3>1. Wrong \in SUBSET Nat
      BY <1>1 DEF Exponent
    <3> HIDE DEF Wrong
    <3> QED
      BY <3>1, LeastNumber
  <2>2. n \in Exponent /\ Pow2[n] \notin Nat \ {0} /\ n # 0
    BY <1>3, <2>1
  <2>3. n - 1 \in Exponent /\ n - 1 < n /\ n \in Nat
    BY <1>1, <2>2 DEF Exponent
  <2>4. n - 1 \notin Wrong
    <3> HIDE DEF Wrong
    <3> QED
      BY <2>1, <2>3
  <2>5. Pow2[n - 1] \in Nat \ {0}
    BY <2>3, <2>4
  <2> QED
    BY <1>4, <2>2, <2>5
<1> QED
  BY <1>3, <1>4, <1>5, <1>6

\* Exponents add up.
LEMMA Pow2Sum ==
    ASSUME NEW p \in Exponent, NEW q \in Exponent, p + q \in Exponent
    PROVE  Pow2[p + q] = Pow2[p] * Pow2[q]
<1> DEFINE Wrong == {n \in Exponent : p + n \in Exponent /\ Pow2[p + n] # Pow2[p] * Pow2[n]}
<1>1. p \in Nat /\ q \in Nat /\ Exponent \subseteq Nat
  BY UtilAssumption DEF Exponent
<1>2. Wrong = {}
  <2> SUFFICES ASSUME Wrong # {} PROVE FALSE
    OBVIOUS
  <2>1. PICK n \in Wrong : \A k \in Wrong : n <= k
    <3>1. Wrong \in SUBSET Nat
      BY <1>1
    <3> HIDE DEF Wrong
    <3> QED
      BY <3>1, LeastNumber
  <2>2. n \in Exponent /\ n \in Nat /\ p + n \in Exponent /\ Pow2[p + n] # Pow2[p] * Pow2[n]
    BY <1>1, <2>1
  <2>3. Pow2[p] \in Nat
    BY Pow2Values
  <2>4. n # 0
    <3> SUFFICES ASSUME n = 0 PROVE FALSE
      OBVIOUS
    <3>1. p + n = p /\ Pow2[n] = 1
      BY <1>1, Pow2Values
    <3> QED
      BY <2>2, <2>3, <3>1
  <2>5. /\ n - 1 \in Exponent /\ n - 1 < n /\ p + n # 0 /\ (p + n) - 1 = p + (n - 1)
        /\ p + (n - 1) \in Exponent
    BY <1>1, <2>2, <2>4, UtilAssumption DEF Exponent
  <2>6. n - 1 \notin Wrong
    <3>1. n - 1 \in Nat
      BY <1>1, <2>5
    <3> HIDE DEF Wrong
    <3> QED
      BY <2>1, <2>2, <2>5, <3>1
  <2>7. Pow2[p + (n - 1)] = Pow2[p] * Pow2[n - 1]
    BY <2>5, <2>6
  <2>8. Pow2[p + n] = 2 * Pow2[p + (n - 1)] /\ Pow2[n] = 2 * Pow2[n - 1] /\ Pow2[n - 1] \in Nat
    <3>1. Pow2[p + n] = 2 * Pow2[(p + n) - 1]
      BY <2>2, <2>5, Pow2Values
    <3>2. Pow2[n] = 2 * Pow2[n - 1] /\ Pow2[n - 1] \in Nat
      BY <2>2, <2>4, <2>5, Pow2Values
    <3> QED
      BY <2>5, <3>1, <3>2
  <2> DEFINE a == Pow2[p]
             b == Pow2[n - 1]
  <2>9. 2 * (a * b) = a * (2 * b)
    <3>1. a \in Nat /\ b \in Nat
      BY <2>3, <2>8
    <3> HIDE DEF a, b
    <3> QED
      BY <3>1
  <2> QED
    BY <2>2, <2>7, <2>8, <2>9
<1> QED
  BY <1>2

-----------------------------------------------------------------------------
(***************************************************************************)
(* Words                                                                   *)
(***************************************************************************)
LEMMA Modulo ==
    ASSUME NEW M \in Nat \ {0}, NEW x \in Int
    PROVE  /\ x % M \in 0 .. M - 1
           /\ x \in 0 .. M - 1 => x % M = x
           /\ x \in M .. 2 * M - 1 => x % M = x - M
           /\ x \in -M .. -1 => x % M = x + M
<1>1. x % M \in 0 .. M - 1
  OBVIOUS
<1>2. ASSUME x \in 0 .. M - 1 PROVE x % M = x
  BY <1>2
<1>3. ASSUME x \in M .. 2 * M - 1 PROVE x % M = x - M
  BY <1>3
<1>4. ASSUME x \in -M .. -1 PROVE x % M = x + M
  BY <1>4
<1> QED
  BY <1>1, <1>2, <1>3, <1>4

\* The width of a word.
LEMMA Width ==
    /\ Bits \in Nat /\ Bits \in Exponent /\ Bits - 1 \in Exponent /\ ByteBits \in Exponent
    /\ Pow2[Bits] \in Nat \ {0} /\ Pow2[Bits - 1] \in Nat \ {0}
    /\ Pow2[Bits] = 2 * Pow2[Bits - 1] /\ Pow2[Bits] >= 8
    /\ Pow2[ByteBits] \in Nat \ {0} /\ Pow2[ByteBits] <= Pow2[Bits]
<1>1. /\ Bits \in Nat /\ Bits \in Exponent \ {0} /\ Bits - 1 \in Exponent \ {0}
      /\ Bits - 2 \in Exponent \ {0} /\ Bits - 3 \in Exponent
      /\ Bits - 1 - 1 = Bits - 2 /\ Bits - 2 - 1 = Bits - 3
      /\ ByteBits \in Exponent /\ Bits - ByteBits \in Exponent
      /\ ByteBits + (Bits - ByteBits) = Bits
  BY UtilAssumption DEF Exponent
<1>2. /\ Pow2[Bits] = 2 * Pow2[Bits - 1] /\ Pow2[Bits - 1] = 2 * Pow2[Bits - 2]
      /\ Pow2[Bits - 2] = 2 * Pow2[Bits - 3]
      /\ Pow2[Bits] \in Nat \ {0} /\ Pow2[Bits - 1] \in Nat \ {0}
      /\ Pow2[Bits - 2] \in Nat \ {0} /\ Pow2[Bits - 3] \in Nat \ {0}
      /\ Pow2[ByteBits] \in Nat \ {0} /\ Pow2[Bits - ByteBits] \in Nat \ {0}
  BY <1>1, Pow2Values
<1>3. Pow2[Bits] = Pow2[ByteBits] * Pow2[Bits - ByteBits]
  BY <1>1, Pow2Sum
<1>4. Pow2[ByteBits] <= Pow2[Bits]
  <2> DEFINE a == Pow2[ByteBits]
             b == Pow2[Bits - ByteBits]
  <2>1. a \in Nat \ {0} /\ b \in Nat \ {0} /\ Pow2[Bits] = a * b
    BY <1>2, <1>3
  <2> HIDE DEF a, b
  <2>2. a <= a * b
    BY <2>1
  <2> QED
    BY <2>1, <2>2 DEF a
<1>5. Pow2[Bits] >= 8
  BY <1>2
<1> QED
  BY <1>1, <1>2, <1>4, <1>5

\* What a register holds after a computation on words.
LEMMA WrapWord ==
    ASSUME NEW x \in Int
    PROVE  /\ Wrap(x) \in Word
           /\ x \in Word => Wrap(x) = x
           /\ x \in Pow2[Bits] .. 2 * Pow2[Bits] - 1 => Wrap(x) = x - Pow2[Bits]
           /\ x \in -Pow2[Bits] .. -1 => Wrap(x) = x + Pow2[Bits]
  BY Width, Modulo DEF Wrap, Word

LEMMA WordInt == ASSUME NEW x \in Word PROVE x \in Nat /\ x < Pow2[Bits] /\ x <= MaxWord
  BY Width DEF Word, MaxWord

LEMMA WordConstants == 0 \in Word /\ 1 \in Word /\ MaxWord \in Word
  BY Width DEF Word, MaxWord

LEMMA InvertedWord == ASSUME NEW x \in Word PROVE Inverted(x) \in Word
  BY Width DEF Word, MaxWord, Inverted

\* A division leaves a word.
LEMMA DivWord ==
    ASSUME NEW x \in Word, NEW n \in Exponent
    PROVE  x \div Pow2[n] \in Word
<1> DEFINE d == Pow2[n]
<1>1. x \in Nat /\ x < Pow2[Bits] /\ d \in Nat \ {0}
  BY WordInt, Pow2Values
<1> HIDE DEF d
<1>2. x \div d \in Nat /\ x \div d <= x
  BY <1>1
<1>3. x \div d \in Word
  BY <1>1, <1>2, Width DEF Word
<1> QED
  BY <1>3 DEF d

\* The bits of a number.
LEMMA BitType ==
    ASSUME NEW x \in Nat, NEW n \in Exponent
    PROVE  get_bit(x, n) \in {0, 1}
<1>1. Pow2[n] \in Nat \ {0}
  BY Pow2Values
<1> DEFINE d == Pow2[n]
<1> HIDE DEF d
<1>2. x \div d \in Nat
  BY <1>1 DEF d
<1>3. (x \div d) % 2 \in {0, 1}
  BY <1>2
<1> QED
  BY <1>3 DEF get_bit, d

LEMMA SignType == ASSUME NEW x \in Word PROVE Sign(x) \in {0, 1}
  BY WordInt, BitType, Width DEF Sign

-----------------------------------------------------------------------------
(***************************************************************************)
(* Sums of terms and of bits                                               *)
(***************************************************************************)
Added(f, term, n) == IF n = 0 THEN 0 ELSE f[n - 1] + term[n - 1]

\* The partial sums of the terms below N.
Sums(term, N) == CHOOSE f : f = [n \in 0 .. N |-> Added(f, term, n)]

\* The recursion that defines a sum has a solution.
LEMMA SumsEquation ==
    ASSUME NEW term, NEW N \in Nat
    PROVE  /\ Total(term, N) = Sums(term, N)[N]
           /\ Sums(term, N) = [n \in 0 .. N |-> Added(Sums(term, N), term, n)]
<1> DEFINE Solves(f, h) == f = [n \in 0 .. h |-> Added(f, term, n)]
           Unsolved == {h \in 0 .. N : ~\E f : Solves(f, h)}
<1>1. Total(term, N) = Sums(term, N)[N]
  BY DEF Total, Sums, Added
<1>2. Unsolved = {}
  <2> SUFFICES ASSUME Unsolved # {} PROVE FALSE
    OBVIOUS
  <2>1. PICK h \in Unsolved : \A k \in Unsolved : h <= k
    <3>1. Unsolved \in SUBSET Nat
      OBVIOUS
    <3> HIDE DEF Unsolved
    <3> QED
      BY <3>1, LeastNumber
  <2>2. h \in 0 .. N /\ ~\E f : Solves(f, h)
    BY <2>1
  <2> HIDE DEF Unsolved
  <2>3. CASE h = 0
    <3> DEFINE f == [n \in 0 .. 0 |-> 0]
    <3>1. \A n \in 0 .. 0 : Added(f, term, n) = 0
      BY DEF Added
    <3>2. Solves(f, 0)
      BY <3>1
    <3> QED
      BY <2>2, <2>3, <3>2
  <2>4. CASE h # 0
    <3>1. h \in Nat /\ h - 1 \in 0 .. N /\ h - 1 < h
      BY <2>2, <2>4
    <3>2. h - 1 \notin Unsolved
      BY <2>1, <2>2, <3>1
    <3>3. PICK f : Solves(f, h - 1)
      <4> HIDE DEF Solves
      <4> QED
        BY <3>1, <3>2 DEF Unsolved
    <3> DEFINE g == [n \in 0 .. h |-> IF n = h THEN Added(f, term, n) ELSE f[n]]
    <3>4. \A n \in 0 .. h - 1 : g[n] = f[n]
      BY <3>1
    <3>5. ASSUME NEW n \in 0 .. h PROVE g[n] = Added(g, term, n)
      <4>1. Added(g, term, n) = Added(f, term, n)
        <5> HIDE DEF g
        <5>1. n # 0 => n - 1 \in 0 .. h - 1
          BY <3>1
        <5> QED
          BY <3>4, <5>1 DEF Added
      <4>2. CASE n = h
        BY <4>1, <4>2
      <4>3. CASE n # h
        <5>1. n \in 0 .. h - 1
          BY <3>1, <4>3
        <5>2. f[n] = Added(f, term, n)
          BY <3>3, <5>1
        <5> QED
          BY <3>4, <4>1, <5>1, <5>2
      <4> QED
        BY <4>2, <4>3
    <3>6. g = [n \in 0 .. h |-> g[n]]
      OBVIOUS
    <3>7. Solves(g, h)
      <4> HIDE DEF g
      <4> QED
        BY <3>5, <3>6
    <3> QED
      BY <2>2, <3>7
  <2> QED
    BY <2>3, <2>4
<1>3. \E f : f = [n \in 0 .. N |-> Added(f, term, n)]
  <2>1. N \in 0 .. N
    OBVIOUS
  <2>2. \E f : Solves(f, N)
    <3> HIDE DEF Solves
    <3> QED
      BY <1>2, <2>1
  <2> QED
    BY <2>2
<1>4. Sums(term, N) = [n \in 0 .. N |-> Added(Sums(term, N), term, n)]
  BY <1>3 DEF Sums
<1> QED
  BY <1>1, <1>4

\* A function of n that grows by the terms is their sum.
LEMMA SumsValue ==
    ASSUME NEW N \in Nat, NEW term, NEW value, value[0] = 0,
           \A n \in 0 .. N - 1 : value[n + 1] = value[n] + term[n]
    PROVE  Total(term, N) = value[N]
<1> DEFINE f == Sums(term, N)
           Wrong == {n \in 0 .. N : f[n] # value[n]}
<1>1. Total(term, N) = f[N] /\ \A n \in 0 .. N : f[n] = Added(f, term, n)
  BY SumsEquation
<1> HIDE DEF f
<1>2. Wrong = {}
  <2> SUFFICES ASSUME Wrong # {} PROVE FALSE
    OBVIOUS
  <2>1. PICK n \in Wrong : \A k \in Wrong : n <= k
    <3>1. Wrong \in SUBSET Nat
      OBVIOUS
    <3> HIDE DEF Wrong
    <3> QED
      BY <3>1, LeastNumber
  <2>2. n \in 0 .. N /\ f[n] # value[n] /\ n \in Nat
    BY <2>1
  <2>3. CASE n = 0
    BY <1>1, <2>2, <2>3 DEF Added
  <2>4. CASE n # 0
    <3>1. n - 1 \in 0 .. N - 1 /\ n - 1 \in 0 .. N /\ n - 1 < n /\ (n - 1) + 1 = n
      BY <2>2, <2>4
    <3>2. n - 1 \notin Wrong
      <4>1. n - 1 \in Nat
        BY <3>1
      <4> HIDE DEF Wrong
      <4> QED
        BY <2>1, <2>2, <3>1, <4>1
    <3>3. f[n - 1] = value[n - 1]
      BY <3>1, <3>2
    <3>4. f[n] = f[n - 1] + term[n - 1]
      BY <1>1, <2>2, <2>4 DEF Added
    <3>5. value[(n - 1) + 1] = value[n - 1] + term[n - 1]
      BY <3>1
    <3> QED
      BY <2>2, <3>1, <3>3, <3>4, <3>5
  <2> QED
    BY <2>3, <2>4
<1>3. N \in 0 .. N
  OBVIOUS
<1> QED
  BY <1>1, <1>2, <1>3

\* The sum of n digits below base is below base ^ n.
LEMMA DigitsBound ==
    ASSUME NEW N \in Nat, NEW base \in Nat \ {0}, NEW power \in [0 .. N -> Nat \ {0}],
           power[0] = 1, \A n \in 0 .. N - 1 : power[n + 1] = base * power[n],
           NEW digit \in [0 .. N - 1 -> 0 .. base - 1]
    PROVE  /\ Total([n \in 0 .. N - 1 |-> digit[n] * power[n]], N) \in Nat
           /\ Total([n \in 0 .. N - 1 |-> digit[n] * power[n]], N) < power[N]
<1> DEFINE term == [n \in 0 .. N - 1 |-> digit[n] * power[n]]
           f == Sums(term, N)
           Wrong == {n \in 0 .. N : ~(f[n] \in Nat /\ f[n] < power[n])}
<1>1. \A n \in 0 .. N - 1 : term[n] = digit[n] * power[n]
  OBVIOUS
<1> HIDE DEF term
<1>2. Total(term, N) = f[N] /\ \A n \in 0 .. N : f[n] = Added(f, term, n)
  BY SumsEquation
<1> HIDE DEF f
<1>3. Wrong = {}
  <2> SUFFICES ASSUME Wrong # {} PROVE FALSE
    OBVIOUS
  <2>1. PICK n \in Wrong : \A k \in Wrong : n <= k
    <3>1. Wrong \in SUBSET Nat
      OBVIOUS
    <3> HIDE DEF Wrong
    <3> QED
      BY <3>1, LeastNumber
  <2>2. n \in 0 .. N /\ ~(f[n] \in Nat /\ f[n] < power[n]) /\ n \in Nat
    BY <2>1
  <2>3. CASE n = 0
    BY <1>2, <2>2, <2>3 DEF Added
  <2>4. CASE n # 0
    <3>1. n - 1 \in 0 .. N - 1 /\ n - 1 \in 0 .. N /\ n - 1 < n /\ (n - 1) + 1 = n
      BY <2>2, <2>4
    <3>2. n - 1 \notin Wrong
      <4>1. n - 1 \in Nat
        BY <3>1
      <4> HIDE DEF Wrong
      <4> QED
        BY <2>1, <2>2, <3>1, <4>1
    <3> DEFINE p == power[n - 1]
               d == digit[n - 1]
               s == f[n - 1]
    <3>3. s \in Nat /\ s < p /\ p \in Nat \ {0} /\ d \in 0 .. base - 1
      BY <3>1, <3>2
    <3>4. f[n] = s + d * p
      BY <1>1, <1>2, <2>2, <2>4, <3>1 DEF Added
    <3>5. power[n] = base * p
      <4>1. power[(n - 1) + 1] = base * power[n - 1]
        BY <3>1
      <4> QED
        BY <3>1, <4>1
    <3> HIDE DEF p, d, s
    <3>6. d * p \in Nat /\ d * p <= (base - 1) * p
      BY <3>3
    <3>7. (base - 1) * p = base * p - p /\ base * p \in Nat
      BY <3>3
    <3> DEFINE q == d * p
               w == base * p
    <3>8. q \in Nat /\ w \in Nat /\ q <= w - p /\ f[n] = s + q /\ power[n] = w
      BY <3>4, <3>5, <3>6, <3>7
    <3> HIDE DEF q, w
    <3>9. f[n] \in Nat /\ f[n] < power[n]
      BY <3>3, <3>8
    <3> QED
      BY <2>2, <3>9
  <2> QED
    BY <2>3, <2>4
<1>4. N \in 0 .. N
  OBVIOUS
<1>5. Total(term, N) \in Nat /\ Total(term, N) < power[N]
  BY <1>2, <1>3, <1>4
<1> QED
  BY <1>5 DEF term

LEMMA FromBitsWord ==
    ASSUME NEW bit \in [Place -> {0, 1}]
    PROVE  FromBits(bit) \in Word
<1> DEFINE power == [n \in 0 .. Bits |-> Pow2[n]]
<1>1. Bits \in Nat /\ 2 \in Nat \ {0} /\ Bits \in 0 .. Bits /\ 0 \in 0 .. Bits
  BY UtilAssumption
<1>2. \A n \in 0 .. Bits : n \in Exponent
  BY UtilAssumption DEF Exponent
<1>3. power \in [0 .. Bits -> Nat \ {0}] /\ power[0] = 1 /\ power[Bits] = Pow2[Bits]
  BY <1>1, <1>2, Pow2Values
<1>4. ASSUME NEW n \in 0 .. Bits - 1 PROVE power[n + 1] = 2 * power[n]
  <2>1. n + 1 \in 0 .. Bits /\ n \in 0 .. Bits /\ n + 1 # 0 /\ (n + 1) - 1 = n
    BY <1>1
  <2>2. Pow2[n + 1] = 2 * Pow2[n]
    BY <1>2, <2>1, Pow2Values
  <2> QED
    BY <2>1, <2>2
<1>5. bit \in [0 .. Bits - 1 -> 0 .. 2 - 1]
  BY DEF Place
<1>6. \A i \in Place : power[i] = Pow2[i]
  BY <1>1 DEF Place
<1> HIDE DEF power
<1>7. [i \in Place |-> bit[i] * Pow2[i]] = [n \in 0 .. Bits - 1 |-> bit[n] * power[n]]
  <2>1. [i \in Place |-> bit[i] * Pow2[i]] = [n \in Place |-> bit[n] * power[n]]
    BY <1>6
  <2> QED
    BY <2>1 DEF Place
<1>8. /\ Total([n \in 0 .. Bits - 1 |-> bit[n] * power[n]], Bits) \in Nat
      /\ Total([n \in 0 .. Bits - 1 |-> bit[n] * power[n]], Bits) < power[Bits]
  BY <1>1, <1>3, <1>4, <1>5, DigitsBound
<1>9. FromBits(bit) \in Nat /\ FromBits(bit) < Pow2[Bits]
  BY <1>3, <1>7, <1>8 DEF FromBits
<1> QED
  BY <1>9, Width DEF Word

\* Bit operations give words.
LEMMA BitwiseWord ==
    ASSUME NEW x, NEW y
    PROVE  x & y \in Word /\ x | y \in Word /\ x ^^ y \in Word
<1>1. [i \in Place |-> Bit(get_bit(x, i) = 1 /\ get_bit(y, i) = 1)] \in [Place -> {0, 1}]
  BY DEF Bit
<1>2. [i \in Place |-> Bit(get_bit(x, i) = 1 \/ get_bit(y, i) = 1)] \in [Place -> {0, 1}]
  BY DEF Bit
<1>3. [i \in Place |-> Bit(get_bit(x, i) # get_bit(y, i))] \in [Place -> {0, 1}]
  BY DEF Bit
<1> QED
  BY <1>1, <1>2, <1>3, FromBitsWord DEF &, |, ^^

\* Shifts give words, whatever the count.
LEMMA ShiftWord ==
    ASSUME NEW x \in Word, NEW n \in Int
    PROVE  ShiftLeft(x, n) \subseteq Word /\ ShiftRight(x, n) \subseteq Word
<1>1. n % Bits \in Exponent /\ (n \in 0 .. Bits - 1 => n \in Exponent)
  BY UtilAssumption DEF Exponent
<1>2. ASSUME NEW e \in Exponent
      PROVE  Wrap(x * Pow2[e]) \in Word /\ x \div Pow2[e] \in Word
  <2>1. x \in Int /\ Pow2[e] \in Int
    BY WordInt, Pow2Values
  <2>2. x * Pow2[e] \in Int
    BY <2>1
  <2> QED
    BY <2>2, WrapWord, DivWord
<1>3. 0 \in Word
  BY WordConstants
<1>4. ShiftLeft(x, n) \subseteq Word
  BY <1>1, <1>2, <1>3 DEF ShiftLeft
<1>5. ShiftRight(x, n) \subseteq Word
  BY <1>1, <1>2, <1>3 DEF ShiftRight
<1> QED
  BY <1>4, <1>5

LEMMA EitherWord == ASSUME NEW S, NEW R PROVE Either(S, R) \subseteq Word
  BY BitwiseWord DEF Either

-----------------------------------------------------------------------------
(***************************************************************************)
(* Registers and flags                                                     *)
(***************************************************************************)
Registers == [RegNo -> Word]

LEMMA RegisterNumbers ==
    /\ PC \in RegNo /\ PC \in Nat /\ 0 \in RegNo /\ 1 \in RegNo /\ 0 # PC /\ 1 # PC
    /\ RegNo \subseteq Nat
  BY InstructionAssumption DEF RegNo

\* A number without its bit 1.
LEMMA Bit1Cleared ==
    ASSUME NEW v \in Word
    PROVE  v - 2 * get_bit(v, 1) \in Word /\ get_bit(v, 1) \in {0, 1}
<1>1. v \in Nat /\ v < Pow2[Bits] /\ Pow2[1] = 2 /\ 1 \in Exponent
  BY WordInt, Pow2Values, Width, UtilAssumption DEF Exponent
<1>2. get_bit(v, 1) = (v \div 2) % 2
  BY <1>1 DEF get_bit
<1>3. get_bit(v, 1) \in {0, 1}
  BY <1>1, BitType
<1>4. get_bit(v, 1) = 1 => v >= 2
  BY <1>1, <1>2
<1>5. v - 2 * get_bit(v, 1) \in Word
  BY <1>1, <1>3, <1>4, Width DEF Word
<1> QED
  BY <1>3, <1>5

LEMMA ReadWord ==
    ASSUME NEW k, k.reg \in Registers, NEW r \in RegNo
    PROVE  arm_read_register(k, r) \in Word
<1>1. k.reg[r] \in Word /\ k.reg[PC] \in Word
  BY RegisterNumbers DEF Registers
<1>2. k.reg[PC] + 4 \in Int
  BY <1>1, WordInt
<1>3. Wrap(k.reg[PC] + 4) \in Word
  BY <1>2, WrapWord
<1> QED
  BY <1>1, <1>3, Bit1Cleared DEF arm_read_register

LEMMA WriteMachine ==
    ASSUME NEW k \in Machine, NEW r, NEW v \in Word
    PROVE  /\ arm_write_register(k, r, v) \in Machine
           /\ \A q \in RegNo \ {r} : arm_write_register(k, r, v).reg[q] = k.reg[q]
           /\ r \in RegNo => arm_write_register(k, r, v).reg[r] = v
           /\ arm_write_register(k, r, v).N = k.N /\ arm_write_register(k, r, v).Z = k.Z
           /\ arm_write_register(k, r, v).C = k.C /\ arm_write_register(k, r, v).V = k.V
  BY DEF arm_write_register, Machine

LEMMA FetchMachine ==
    ASSUME NEW k \in Machine
    PROVE  arm_fetch(k) \in Machine
<1>1. k.reg \in Registers
  BY DEF Machine, Registers
<1>2. arm_read_register(k, PC) \in Word
  BY <1>1, ReadWord, RegisterNumbers
<1> QED
  BY <1>2, RegisterNumbers DEF arm_fetch, Machine

LEMMA FlagsMachine ==
    ASSUME NEW k \in Machine
    PROVE  /\ \A r \in Word : updateZN(k, r) \in Machine /\ updateZN(k, r).reg = k.reg
           /\ \A carry \in BOOLEAN, c \in {0, 1} :
                UpdateC(k, carry, c) \in Machine /\ UpdateC(k, carry, c).reg = k.reg
           /\ \A a, b, r \in Word :
                UpdateV(k, a, b, r) \in Machine /\ UpdateV(k, a, b, r).reg = k.reg
<1>1. \A r \in Word : updateZN(k, r) \in Machine /\ updateZN(k, r).reg = k.reg
  BY SignType DEF updateZN, Machine, Bit
<1>2. ASSUME NEW carry \in BOOLEAN, NEW c \in {0, 1}
      PROVE  UpdateC(k, carry, c) \in Machine /\ UpdateC(k, carry, c).reg = k.reg
  BY DEF UpdateC, Machine
<1>3. ASSUME NEW a \in Word, NEW b \in Word, NEW r \in Word
      PROVE  UpdateV(k, a, b, r) \in Machine /\ UpdateV(k, a, b, r).reg = k.reg
  BY DEF UpdateV, Machine, Bit
<1> QED
  BY <1>1, <1>2, <1>3

-----------------------------------------------------------------------------
(***************************************************************************)
(* The data processing handlers                                            *)
(***************************************************************************)
\* Arithmetic on words, as numbers.
LEMMA WordSums ==
    ASSUME NEW a \in Word, NEW b \in Word, NEW c \in {0, 1}
    PROVE  /\ a - b \in Int /\ a + b \in Int /\ -b \in Int /\ a + b + c \in Int
           /\ a - b - (1 - c) \in Int /\ b + 1 + c \in Int /\ b + c \in Int
           /\ MaxWord - a \in Int
  BY WordInt, WordConstants, Width DEF MaxWord

\* A comparison sets flags.
LEMMA CompareMachine ==
    ASSUME NEW k \in Machine, NEW a \in Word, NEW b \in Word, NEW c \in {0, 1}
    PROVE  /\ arm_tst(k, a, b) \in Machine /\ arm_tst(k, a, b).reg = k.reg
           /\ arm_teq(k, a, b) \in Machine /\ arm_teq(k, a, b).reg = k.reg
           /\ arm_cmp(k, a, b, c) \in Machine /\ arm_cmp(k, a, b, c).reg = k.reg
           /\ arm_cmn(k, a, b, c) \in Machine /\ arm_cmn(k, a, b, c).reg = k.reg
<1>1. ASSUME NEW r \in Word
      PROVE  /\ [updateZN(k, r) EXCEPT !.C = 0] \in Machine
             /\ [updateZN(k, r) EXCEPT !.C = 0].reg = k.reg
  <2>1. updateZN(k, r) \in Machine /\ updateZN(k, r).reg = k.reg
    BY FlagsMachine
  <2> HIDE DEF updateZN
  <2> QED
    BY <2>1 DEF Machine
<1>2. ASSUME NEW r \in Word, NEW carry \in BOOLEAN
      PROVE  /\ UpdateC(UpdateV(updateZN(k, r), a, b, r), carry, c) \in Machine
             /\ UpdateC(UpdateV(updateZN(k, r), a, b, r), carry, c).reg = k.reg
  <2>1. updateZN(k, r) \in Machine /\ updateZN(k, r).reg = k.reg
    BY FlagsMachine
  <2>2. /\ UpdateV(updateZN(k, r), a, b, r) \in Machine
        /\ UpdateV(updateZN(k, r), a, b, r).reg = k.reg
    BY <2>1, FlagsMachine
  <2> QED
    BY <2>2, FlagsMachine
<1>3. a & b \in Word /\ a ^^ b \in Word
  BY BitwiseWord
<1>4. Wrap(a - b) \in Word /\ Wrap(a + b) \in Word
  BY WordSums, WrapWord
<1>5. arm_tst(k, a, b) \in Machine /\ arm_tst(k, a, b).reg = k.reg
  BY <1>1, <1>3 DEF arm_tst
<1>6. arm_teq(k, a, b) \in Machine /\ arm_teq(k, a, b).reg = k.reg
  BY <1>1, <1>3 DEF arm_teq
<1>7. arm_cmp(k, a, b, c) \in Machine /\ arm_cmp(k, a, b, c).reg = k.reg
  <2> DEFINE carry == MaxWord - a < Wrap(-b)
             r == Wrap(a - b)
  <2>1. carry \in BOOLEAN
    OBVIOUS
  <2>2. arm_cmp(k, a, b, c) = UpdateC(UpdateV(updateZN(k, r), a, b, r), carry, c)
    BY DEF arm_cmp
  <2>3. r \in Word
    BY <1>4
  <2> HIDE DEF carry, r
  <2> QED
    BY <1>2, <2>1, <2>2, <2>3
<1>8. arm_cmn(k, a, b, c) \in Machine /\ arm_cmn(k, a, b, c).reg = k.reg
  <2> DEFINE carry == MaxWord - a < b
             r == Wrap(a + b)
  <2>1. carry \in BOOLEAN
    OBVIOUS
  <2>2. arm_cmn(k, a, b, c) = UpdateC(UpdateV(updateZN(k, r), a, b, r), carry, c)
    BY DEF arm_cmn
  <2>3. r \in Word
    BY <1>4
  <2> HIDE DEF carry, r
  <2> QED
    BY <1>2, <2>1, <2>2, <2>3
<1> QED
  BY <1>5, <1>6, <1>7, <1>8

LEMMA CmnMachine ==
    ASSUME NEW k \in Machine
    PROVE  /\ arm_cmn(k, k.reg[0], k.reg[1], k.C) \in Machine
           /\ arm_cmn(k, k.reg[0], k.reg[1], k.C).reg = k.reg
<1> DEFINE a == k.reg[0]
           b == k.reg[1]
           c == k.C
<1>1. a \in Word /\ b \in Word /\ c \in {0, 1}
  BY RegisterNumbers DEF Machine
<1> HIDE DEF a, b, c
<1>2. arm_cmn(k, a, b, c) \in Machine /\ arm_cmn(k, a, b, c).reg = k.reg
  BY <1>1, CompareMachine
<1> QED
  BY <1>2 DEF a, b, c

SameFlags(l, k) == l.N = k.N /\ l.Z = k.Z /\ l.C = k.C /\ l.V = k.V

\* l differs from k in register r and, if s, in the flags.
Differs(l, k, r, s) ==
    /\ l \in Machine
    /\ \A q \in RegNo \ {r} : l.reg[q] = k.reg[q]
    /\ ~s => SameFlags(l, k)

LEMMA WriteDiffers ==
    ASSUME NEW k \in Machine, NEW r, NEW v \in Word, NEW s \in BOOLEAN
    PROVE  Differs(arm_write_register(k, r, v), k, r, s)
  BY WriteMachine DEF Differs, SameFlags

LEMMA ReverseDiffers ==
    ASSUME NEW k \in Machine, NEW rd \in RegNo, NEW a \in Word, NEW b \in Word,
           NEW s \in BOOLEAN, NEW c \in {0, 1}
    PROVE  /\ Differs(arm_rsb(k, rd, a, b, s, c), k, rd, s)
           /\ s = FALSE => arm_rsb(k, rd, a, b, s, c) =
                               arm_write_register(k, rd, Wrap(a - b))
<1> DEFINE r == Wrap(a - b)
           w == arm_write_register(k, rd, r)
           carry == MaxWord - b < Wrap(-a)
           C1 == UpdateC(updateZN(w, r), carry, c)
<1>1. r \in Word /\ carry \in BOOLEAN
  BY WordSums, WrapWord
<1> HIDE DEF r, carry
<1>2. Differs(w, k, rd, s) /\ w \in Machine
  BY <1>1, WriteDiffers DEF Differs
<1> HIDE DEF w
<1>3. updateZN(w, r) \in Machine /\ updateZN(w, r).reg = w.reg
  BY <1>1, <1>2, FlagsMachine
<1>4. C1 \in Machine /\ C1.reg = w.reg
  BY <1>1, <1>3, FlagsMachine
<1> HIDE DEF C1
<1>5. UpdateV(C1, a, b, r) \in Machine /\ UpdateV(C1, a, b, r).reg = w.reg
  BY <1>1, <1>4, FlagsMachine
<1>6. arm_rsb(k, rd, a, b, s, c) = IF s THEN UpdateV(C1, a, b, r) ELSE w
  BY DEF arm_rsb, C1, w, r, carry
<1> QED
  BY <1>2, <1>5, <1>6 DEF Differs, w, r

LEMMA MovDiffers ==
    ASSUME NEW k \in Machine, NEW rd \in RegNo, NEW v \in Word, NEW s \in BOOLEAN
    PROVE  Differs(arm_mov(k, rd, v, s), k, rd, s)
<1> DEFINE w == arm_write_register(k, rd, v)
<1>1. Differs(w, k, rd, s) /\ w \in Machine
  BY WriteDiffers DEF Differs
<1> HIDE DEF w
<1>2. w.reg \in Registers
  BY <1>1 DEF Machine, Registers
<1>3. arm_read_register(w, rd) \in Word
  BY <1>2, ReadWord
<1>4. /\ updateZN(w, arm_read_register(w, rd)) \in Machine
      /\ updateZN(w, arm_read_register(w, rd)).reg = w.reg
  BY <1>1, <1>3, FlagsMachine
<1>5. arm_mov(k, rd, v, s) = IF s THEN updateZN(w, arm_read_register(w, rd)) ELSE w
  BY DEF arm_mov, w
<1> QED
  BY <1>1, <1>4, <1>5 DEF Differs

\* RSC, whatever register number it is given.
LEMMA RscMachine ==
    ASSUME NEW k \in Machine, NEW rd, NEW a \in Nat, NEW b \in Word,
           NEW s \in BOOLEAN, NEW c \in {0, 1}
    PROVE  arm_rsc(k, rd, a, b, s, c) \in Machine
<1> DEFINE r == Wrap(b - a - (1 - c))
           w == arm_write_register(k, rd, r)
           carry == Wrap(MaxWord - b - c) < Wrap(1 - a)
           u == UpdateC(updateZN(w, r), carry, c)
<1>1. r \in Word /\ carry \in BOOLEAN
  <2>1. b - a - (1 - c) \in Int
    BY WordInt
  <2> QED
    BY <2>1, WrapWord
<1> HIDE DEF r, carry
<1>2. w \in Machine
  BY <1>1, WriteMachine
<1> HIDE DEF w
<1>3. updateZN(w, r) \in Machine
  BY <1>1, <1>2, FlagsMachine
<1>4. u \in Machine
  BY <1>1, <1>3, FlagsMachine
<1> HIDE DEF u
<1>5. arm_rsc(k, rd, a, b, s, c) = IF s THEN [u EXCEPT !.V = 0] ELSE w
  BY DEF arm_rsc, u, w, r, carry
<1>6. [u EXCEPT !.V = 0] \in Machine
  BY <1>4 DEF Machine
<1> QED
  BY <1>2, <1>5, <1>6

\* The operations whose result the dispatcher writes.
Written == {"AND", "EOR", "SUB", "ADD", "ADC", "SBC", "ORR", "BIC"}

LEMMA ResultWord ==
    ASSUME NEW i, i.op \in Written, NEW a \in Word, NEW b \in Word, NEW c \in {0, 1}
    PROVE  ResultOf(i, a, b, c) \in Word
<1>1. a & b \in Word /\ a ^^ b \in Word /\ a | b \in Word /\ a & Inverted(b) \in Word
  BY BitwiseWord
<1>2. /\ Wrap(a - b) \in Word /\ Wrap(a + b) \in Word /\ Wrap(a + b + c) \in Word
      /\ Wrap(a - b - (1 - c)) \in Word
  BY WordSums, WrapWord
<1> QED
  BY <1>1, <1>2 DEF ResultOf, Written

LEMMA FlagsOfMachine ==
    ASSUME NEW k \in Machine, NEW i, i.op \in Written, NEW a \in Word, NEW b \in Word,
           NEW c \in {0, 1}
    PROVE  FlagsOf(k, i, a, b, c) \in Machine /\ FlagsOf(k, i, a, b, c).reg = k.reg
<1>1. Wrap(b + c) \in Word /\ Wrap(b + 1 + c) \in Word /\ Inverted(b) \in Word /\ a | b \in Word
  BY WordSums, WrapWord, InvertedWord, BitwiseWord
<1>2. CASE i.op \in {"AND", "EOR"}
  BY <1>2, CompareMachine DEF FlagsOf
<1>3. CASE i.op \in {"SUB", "ADD"}
  BY <1>3, CompareMachine DEF FlagsOf
<1>4. CASE i.op = "ADC"
  <2> DEFINE d == Wrap(b + c)
  <2>1. FlagsOf(k, i, a, b, c) = arm_cmn(k, a, d, c) /\ d \in Word
    BY <1>1, <1>4 DEF FlagsOf
  <2>2. \A y \in Word : arm_cmn(k, a, y, c) \in Machine /\ arm_cmn(k, a, y, c).reg = k.reg
    BY CompareMachine
  <2> HIDE DEF d
  <2> QED
    BY <2>1, <2>2
<1>5. CASE i.op = "SBC"
  <2> DEFINE d == Wrap(b + 1 + c)
  <2>1. FlagsOf(k, i, a, b, c) = arm_cmp(k, a, d, c) /\ d \in Word
    BY <1>1, <1>5 DEF FlagsOf
  <2>2. \A y \in Word : arm_cmp(k, a, y, c) \in Machine /\ arm_cmp(k, a, y, c).reg = k.reg
    BY CompareMachine
  <2> HIDE DEF d
  <2> QED
    BY <2>1, <2>2
<1>6. CASE i.op = "ORR"
  BY <1>1, <1>6, FlagsMachine DEF FlagsOf
<1>7. CASE i.op = "BIC"
  BY <1>1, <1>7, CompareMachine DEF FlagsOf
<1> QED
  BY <1>2, <1>3, <1>4, <1>5, <1>6, <1>7 DEF Written

-----------------------------------------------------------------------------
(***************************************************************************)
(* An instruction                                                          *)
(***************************************************************************)
LEMMA OperandWord ==
    ASSUME NEW k \in Machine, NEW o \in Operand
    PROVE  decode_operand(k, o) \subseteq Word
<1>1. k.reg \in Registers
  BY DEF Machine, Registers
<1>2. ASSUME NEW x \in Word, NEW type, NEW n \in Int
      PROVE  Shifted(x, type, n) \subseteq Word
  BY <1>2, ShiftWord, EitherWord DEF Shifted, asr
<1>3. CASE o.kind = "immediate"
  <2>1. /\ o.imm \in 0 .. Pow2[ByteBits] - 1
        /\ o.rot \in {n \in 0 .. Bits : 2 * n < Bits}
    BY <1>3 DEF Operand
  <2>2. o.imm \in Word
    BY <2>1, Width DEF Word
  <2>3. apply_rotation_imm(o.imm, o.rot) \subseteq Word
    BY <2>2, EitherWord DEF apply_rotation_imm
  <2> QED
    BY <1>3, <2>3 DEF decode_operand
<1>4. CASE o.kind = "shift"
  <2>1. o.rm \in RegNo /\ o.count \in Int
    BY <1>4, UtilAssumption DEF Operand, Place
  <2>2. arm_read_register(k, o.rm) \in Word
    BY <1>1, <2>1, ReadWord
  <2> QED
    BY <1>2, <1>4, <2>1, <2>2 DEF decode_operand
<1>5. CASE o.kind = "register"
  <2>1. o.rm \in RegNo /\ o.rs \in RegNo
    BY <1>5 DEF Operand
  <2>2. arm_read_register(k, o.rm) \in Word /\ arm_read_register(k, o.rs) \in Word
    BY <1>1, <2>1, ReadWord
  <2>3. arm_read_register(k, o.rs) % Pow2[ByteBits] \in Int
    BY <2>2, WordInt, Width
  <2> QED
    BY <1>2, <1>5, <2>2, <2>3 DEF decode_operand
<1>6. CASE o.kind = "other"
  BY <1>6 DEF decode_operand
<1>7. o.kind \in {"immediate", "shift", "register", "other"}
  BY DEF Operand
<1> QED
  BY <1>3, <1>4, <1>5, <1>6, <1>7

\* What the handler of an instruction changes.
LEMMA OperateDiffers ==
    ASSUME NEW k \in Machine, NEW i \in Instruction, NEW a \in Word, NEW b \in Word
    PROVE  /\ Operate(k, i, a, b) \in Machine
           /\ i.op \in Compares => Operate(k, i, a, b).reg = k.reg
           /\ i.op \notin Compares \cup {"RSC"} => Differs(Operate(k, i, a, b), k, i.rd, i.s)
<1>1. k.C \in {0, 1} /\ i.rd \in RegNo /\ i.rd \in Nat /\ i.s \in BOOLEAN /\ i.op \in Opcodes
  BY RegisterNumbers DEF Machine, Instruction
<1>2. CASE i.op \in Compares
  <2>1. Operate(k, i, a, b) \in {arm_tst(k, a, b), arm_teq(k, a, b), arm_cmp(k, a, b, k.C),
                                 arm_cmn(k, a, b, k.C)}
    BY <1>2 DEF Operate, Compares
  <2>2. /\ arm_tst(k, a, b) \in Machine /\ arm_tst(k, a, b).reg = k.reg
        /\ arm_teq(k, a, b) \in Machine /\ arm_teq(k, a, b).reg = k.reg
        /\ arm_cmp(k, a, b, k.C) \in Machine /\ arm_cmp(k, a, b, k.C).reg = k.reg
        /\ arm_cmn(k, a, b, k.C) \in Machine /\ arm_cmn(k, a, b, k.C).reg = k.reg
    BY <1>1, CompareMachine
  <2> QED
    BY <1>2, <2>1, <2>2
<1>3. CASE i.op = "RSB"
  <2>1. Operate(k, i, a, b) = arm_rsb(k, i.rd, a, b, i.s, k.C)
    BY <1>3 DEF Operate
  <2>2. Differs(arm_rsb(k, i.rd, a, b, i.s, k.C), k, i.rd, i.s)
    BY <1>1, ReverseDiffers
  <2> QED
    BY <1>3, <2>1, <2>2 DEF Compares, Differs
<1>4. CASE i.op = "RSC"
  <2>1. Operate(k, i, a, b) = arm_rsc(k, a % Pow2[ByteBits], i.rd, b, i.s, k.C)
    BY <1>4 DEF Operate
  <2> DEFINE r == a % Pow2[ByteBits]
  <2> HIDE DEF r
  <2>2. arm_rsc(k, r, i.rd, b, i.s, k.C) \in Machine
    BY <1>1, RscMachine
  <2> QED
    BY <1>4, <2>1, <2>2 DEF Compares, r
<1>5. CASE i.op = "MOV"
  BY <1>1, <1>5, MovDiffers DEF Operate, Compares, Differs
<1>6. CASE i.op = "MVN"
  <2> DEFINE v == Inverted(b)
  <2>1. Operate(k, i, a, b) = arm_mov(k, i.rd, v, i.s) /\ v \in Word
    BY <1>6, InvertedWord DEF Operate
  <2> HIDE DEF v
  <2>2. Differs(arm_mov(k, i.rd, v, i.s), k, i.rd, i.s)
    BY <1>1, <2>1, MovDiffers
  <2> QED
    BY <1>6, <2>1, <2>2 DEF Compares, Differs
<1>7. CASE i.op \in Written
  <2> DEFINE f == IF i.s THEN FlagsOf(k, i, a, b, k.C) ELSE k
             v == ResultOf(i, a, b, k.C)
  <2>1. Operate(k, i, a, b) = arm_write_register(f, i.rd, v)
    BY <1>7 DEF Operate, Written
  <2>2. v \in Word
    BY <1>1, <1>7, ResultWord
  <2>3. f \in Machine /\ f.reg = k.reg /\ (~i.s => f = k)
    <3>1. /\ FlagsOf(k, i, a, b, k.C) \in Machine
          /\ FlagsOf(k, i, a, b, k.C).reg = k.reg
      BY <1>1, <1>7, FlagsOfMachine
    <3> QED
      BY <3>1
  <2> HIDE DEF f, v
  <2>4. Differs(arm_write_register(f, i.rd, v), f, i.rd, i.s)
    BY <1>1, <2>2, <2>3, WriteDiffers
  <2>5. Differs(arm_write_register(f, i.rd, v), k, i.rd, i.s)
    BY <2>3, <2>4 DEF Differs
  <2> QED
    BY <1>7, <2>1, <2>5 DEF Compares, Written, Differs
<1>8. i.op \in Compares \cup {"RSB", "RSC", "MOV", "MVN"} \cup Written
  BY <1>1 DEF Opcodes, Compares, Written
<1> QED
  BY <1>2, <1>3, <1>4, <1>5, <1>6, <1>7, <1>8

\* An instruction leaves a machine; if its condition fails, the same one.
LEMMA ExecuteDiffers ==
    ASSUME NEW k \in Machine, NEW i \in Instruction,
           NEW l \in arm_data_processing_shift(k, i)
    PROVE  /\ l \in Machine
           /\ i.op \in Compares => l.reg = k.reg
           /\ i.op \notin Compares \cup {"RSC"} => Differs(l, k, i.rd, i.s)
           /\ ~ConditionPassed(k, i.cond) => l = k
<1>1. i.rn \in RegNo /\ i.operand \in Operand
  BY DEF Instruction
<1>2. k.reg \in Registers
  BY DEF Machine, Registers
<1>3. arm_read_register(k, i.rn) \in Word
  BY <1>1, <1>2, ReadWord
<1>4. CASE ConditionPassed(k, i.cond) /\ decode_operand(k, i.operand) # {}
  <2>1. PICK b \in decode_operand(k, i.operand) :
            l = Operate(k, i, arm_read_register(k, i.rn), b)
    BY <1>4 DEF arm_data_processing_shift
  <2>2. b \in Word
    BY <1>1, OperandWord
  <2> QED
    BY <1>3, <1>4, <2>1, <2>2, OperateDiffers
<1>5. CASE ~(ConditionPassed(k, i.cond) /\ decode_operand(k, i.operand) # {})
  <2>1. l = k
    BY <1>5 DEF arm_data_processing_shift
  <2> QED
    BY <1>5, <2>1 DEF Differs, SameFlags
<1> QED
  BY <1>4, <1>5

Typed == m \in Machine

\* Registers hold words and flags are bits, whatever is executed.
THEOREM MachineTypes == Spec => []Typed
<1>1. Init => Typed
  BY DEF Init, Typed
<1>2. ASSUME Typed, [Next]_m PROVE Typed'
  <2>1. CASE Next
    <3>1. PICK i \in Instructions : m' \in arm_data_processing_shift(arm_fetch(m), i)
      BY <2>1 DEF Next
    <3>2. i \in Instruction
      BY InstructionAssumption
    <3>3. arm_fetch(m) \in Machine
      BY <1>2, FetchMachine DEF Typed
    <3> QED
      BY <3>1, <3>2, <3>3, ExecuteDiffers DEF Typed
  <2>2. CASE UNCHANGED m
    BY <1>2, <2>2 DEF Typed
  <2> QED
    BY <1>2, <2>1, <2>2
<1> QED
  BY <1>1, <1>2, PTL DEF Spec

LEMMA Destination == Typed => OnlyDestination
<1> SUFFICES ASSUME Typed,
                    NEW i \in {j \in Instructions : j.op # "RSC"},
                    NEW k \in arm_data_processing_shift(arm_fetch(m), i)
             PROVE  LET before == arm_fetch(m)
                    IN  /\ \A r \in RegNo \ {i.rd} : k.reg[r] = before.reg[r]
                        /\ i.op \in Compares => k.reg = before.reg
                        /\ ~i.s /\ i.op \notin Compares =>
                                [k EXCEPT !.reg = 0] = [before EXCEPT !.reg = 0]
                        /\ ~ConditionPassed(before, i.cond) => k = before
  BY DEF OnlyDestination
<1> DEFINE before == arm_fetch(m)
<1>1. before \in Machine /\ i \in Instruction /\ i.op # "RSC"
  BY FetchMachine, InstructionAssumption DEF Typed
<1> HIDE DEF before
<1>2. /\ k \in Machine
      /\ i.op \in Compares => k.reg = before.reg
      /\ i.op \notin Compares \cup {"RSC"} => Differs(k, before, i.rd, i.s)
      /\ ~ConditionPassed(before, i.cond) => k = before
  BY <1>1, ExecuteDiffers DEF before
<1>3. \A r \in RegNo \ {i.rd} : k.reg[r] = before.reg[r]
  BY <1>1, <1>2 DEF Differs
<1>4. ASSUME ~i.s, i.op \notin Compares
      PROVE  [k EXCEPT !.reg = 0] = [before EXCEPT !.reg = 0]
  <2>1. SameFlags(k, before)
    BY <1>1, <1>2, <1>4 DEF Differs
  <2> QED
    BY <1>1, <1>2, <2>1 DEF SameFlags, Machine
<1> QED
  BY <1>2, <1>3, <1>4 DEF before

\* An instruction changes its destination and nothing else, for every width of
\* words and every set of instructions (arm_data_processing.c:345-411).
THEOREM DestinationOnly == Spec => []OnlyDestination
  BY MachineTypes, Destination, PTL

-----------------------------------------------------------------------------
(***************************************************************************)
(* Comparisons and arithmetic on two words                                 *)
(***************************************************************************)
\* r0 op r1 has one outcome.
LEMMA PlainOutcome ==
    ASSUME NEW k \in Machine, NEW op, NEW s
    PROVE  After(k, op, s) = {Operate(k, Plain(op, s), k.reg[0], k.reg[1])}
<1> DEFINE i == Plain(op, s)
<1>1. /\ i.cond = "AL" /\ i.rn = 0 /\ i.operand.kind = "shift" /\ i.operand.rm = 1
      /\ i.operand.type = 0 /\ i.operand.count = 0
  BY DEF Plain
<1> HIDE DEF i
<1>2. k.reg[0] \in Word /\ k.reg[1] \in Word
  BY RegisterNumbers DEF Machine
<1>3. arm_read_register(k, 0) = k.reg[0] /\ arm_read_register(k, 1) = k.reg[1]
  BY RegisterNumbers DEF arm_read_register
<1>4. decode_operand(k, i.operand) = {k.reg[1]}
  <2>1. decode_operand(k, i.operand) = Shifted(k.reg[1], 0, 0)
    BY <1>1, <1>3 DEF decode_operand
  <2>2. Shifted(k.reg[1], 0, 0) = {Wrap(k.reg[1] * Pow2[0])}
    BY UtilAssumption DEF Shifted, ShiftLeft
  <2>3. k.reg[1] * Pow2[0] = k.reg[1] /\ k.reg[1] \in Int
    BY <1>2, WordInt, Pow2Values
  <2>4. Wrap(k.reg[1]) = k.reg[1]
    BY <1>2, <2>3, WrapWord
  <2> QED
    BY <2>1, <2>2, <2>3, <2>4
<1>5. ConditionPassed(k, i.cond)
  BY <1>1 DEF ConditionPassed
<1>6. arm_data_processing_shift(k, i) = {Operate(k, i, k.reg[0], k.reg[1])}
  BY <1>1, <1>3, <1>4, <1>5 DEF arm_data_processing_shift
<1> QED
  BY <1>6 DEF After, i

\* The carry a handler computes is the one it leaves.
LEMMA CarrySet ==
    ASSUME NEW k \in Machine, NEW carry \in BOOLEAN
    PROVE  UpdateC(k, carry, k.C).C = Bit(carry) /\ UpdateC(k, carry, k.C).Z = k.Z
  BY DEF UpdateC, Machine, Bit

LEMMA FlagsKeepCarry ==
    ASSUME NEW k \in Machine, NEW a \in Word, NEW b \in Word, NEW r \in Word
    PROVE  /\ UpdateV(updateZN(k, r), a, b, r) \in Machine
           /\ UpdateV(updateZN(k, r), a, b, r).C = k.C
           /\ UpdateV(updateZN(k, r), a, b, r).Z = IF r = 0 THEN 1 ELSE 0
<1>1. updateZN(k, r) \in Machine
  BY FlagsMachine
<1>2. updateZN(k, r).C = k.C /\ updateZN(k, r).Z = IF r = 0 THEN 1 ELSE 0
  BY DEF updateZN, Machine, Bit
<1> DEFINE z == updateZN(k, r)
<1> HIDE DEF z
<1>3. UpdateV(z, a, b, r) \in Machine
  BY <1>1, FlagsMachine DEF z
<1>4. UpdateV(z, a, b, r).C = z.C /\ UpdateV(z, a, b, r).Z = z.Z
  BY <1>1 DEF UpdateV, Machine, z
<1> QED
  BY <1>2, <1>3, <1>4 DEF z

\* CMP: Z tells equality, C the order unless the second operand is zero.
LEMMA CmpFlags ==
    ASSUME NEW k \in Machine, NEW a \in Word, NEW b \in Word
    PROVE  /\ arm_cmp(k, a, b, k.C).Z = Bit(a = b)
           /\ b # 0 => arm_cmp(k, a, b, k.C).C = Bit(a >= b)
<1> DEFINE r == Wrap(a - b)
           carry == MaxWord - a < Wrap(-b)
           f == UpdateV(updateZN(k, r), a, b, r)
<1>1. arm_cmp(k, a, b, k.C) = UpdateC(f, carry, k.C)
  BY DEF arm_cmp
<1>2. a \in Nat /\ b \in Nat /\ a < Pow2[Bits] /\ b < Pow2[Bits] /\ Pow2[Bits] \in Nat
  BY WordInt, Width
<1>3. r \in Word /\ (r = 0 <=> a = b)
  <2>1. CASE a >= b
    <3>1. a - b \in Word
      BY <1>2, <2>1 DEF Word
    <3>2. r = a - b
      BY <1>2, <3>1, WrapWord
    <3> QED
      BY <1>2, <3>1, <3>2
  <2>2. CASE a < b
    <3>1. a - b \in -Pow2[Bits] .. -1
      BY <1>2, <2>2
    <3>2. r = a - b + Pow2[Bits] /\ r \in Word
      BY <1>2, <3>1, WrapWord
    <3> QED
      BY <1>2, <2>2, <3>2
  <2> QED
    BY <1>2, <2>1, <2>2
<1>4. b # 0 => (carry <=> a >= b)
  <2> SUFFICES ASSUME b # 0 PROVE carry <=> a >= b
    OBVIOUS
  <2>1. -b \in -Pow2[Bits] .. -1 /\ -b \in Int
    BY <1>2
  <2>2. Wrap(-b) = -b + Pow2[Bits]
    BY <2>1, WrapWord
  <2> QED
    BY <1>2, <2>2 DEF MaxWord
<1>5. carry \in BOOLEAN
  OBVIOUS
<1> HIDE DEF r, carry
<1>6. f \in Machine /\ f.C = k.C /\ f.Z = IF r = 0 THEN 1 ELSE 0
  <2>1. r \in Word
    BY <1>3
  <2> QED
    BY <2>1, FlagsKeepCarry
<1> HIDE DEF f
<1>7. UpdateC(f, carry, k.C).C = Bit(carry) /\ UpdateC(f, carry, k.C).Z = f.Z
  BY <1>5, <1>6, CarrySet
<1> QED
  BY <1>1, <1>3, <1>4, <1>6, <1>7 DEF Bit

\* CMN: C is the carry of the sum.
LEMMA CmnFlags ==
    ASSUME NEW k \in Machine, NEW a \in Word, NEW b \in Word
    PROVE  arm_cmn(k, a, b, k.C).C = Bit(a + b >= Pow2[Bits])
<1> DEFINE r == Wrap(a + b)
           carry == MaxWord - a < b
           f == UpdateV(updateZN(k, r), a, b, r)
<1>1. arm_cmn(k, a, b, k.C) = UpdateC(f, carry, k.C)
  BY DEF arm_cmn
<1>2. r \in Word /\ carry \in BOOLEAN /\ (carry <=> a + b >= Pow2[Bits])
  <2>1. a \in Nat /\ b \in Nat /\ Pow2[Bits] \in Nat /\ a + b \in Int
    BY WordInt, Width
  <2>2. r \in Word
    BY <2>1, WrapWord
  <2>3. carry <=> a + b >= Pow2[Bits]
    BY <2>1 DEF MaxWord
  <2> QED
    BY <2>2, <2>3
<1> HIDE DEF r, carry
<1>3. f \in Machine /\ f.C = k.C
  BY <1>2, FlagsKeepCarry
<1> HIDE DEF f
<1>4. UpdateC(f, carry, k.C).C = Bit(carry)
  BY <1>2, <1>3, CarrySet
<1> QED
  BY <1>1, <1>2, <1>4 DEF Bit

LEMMA Compared == Typed => UnsignedOrder
<1> SUFFICES ASSUME m \in Machine PROVE UnsignedOrder
  BY DEF Typed
<1> DEFINE a == m.reg[0]
           b == m.reg[1]
           k == arm_cmp(m, a, b, m.C)
<1>1. a \in Word /\ b \in Word
  BY RegisterNumbers DEF Machine
<1>2. Operate(m, Plain("CMP", TRUE), a, b) = k
  BY DEF Operate, Plain
<1>3. After(m, "CMP", TRUE) = {k}
  BY <1>2, PlainOutcome
<1>4. k.Z = Bit(a = b) /\ (b # 0 => k.C = Bit(a >= b))
  BY <1>1, CmpFlags
<1>5. a \in Nat /\ b \in Nat
  BY <1>1, WordInt
<1> HIDE DEF a, b, k
<1>6. /\ ConditionPassed(k, "EQ") <=> a = b
      /\ b # 0 => /\ ConditionPassed(k, "CS_HS") <=> a >= b
                  /\ ConditionPassed(k, "CC_LO") <=> a < b
                  /\ ConditionPassed(k, "HI") <=> a > b
                  /\ ConditionPassed(k, "LS") <=> a <= b
  <2>1. /\ ConditionPassed(k, "EQ") <=> k.Z = 1
        /\ ConditionPassed(k, "CS_HS") <=> k.C = 1
        /\ ConditionPassed(k, "CC_LO") <=> k.C = 0
        /\ ConditionPassed(k, "HI") <=> k.C = 1 /\ k.Z = 0
        /\ ConditionPassed(k, "LS") <=> k.C = 0 \/ k.Z = 1
    BY DEF ConditionPassed
  <2> QED
    BY <1>4, <1>5, <2>1 DEF Bit
<1> QED
  BY <1>3, <1>6 DEF UnsignedOrder, a, b

\* After CMP the unsigned conditions decide the order of the operands, for
\* every width of words (arm_data_processing.c:176-202, util.c:44-95).
THEOREM UnsignedOrdered == Spec => []UnsignedOrder
  BY MachineTypes, Compared, PTL

\* The carry between two words: low and high words computed apart make the
\* number computed at once.
LEMMA DoubleWord ==
    ASSUME NEW hi \in Word, NEW lo \in Word, NEW z \in Int, NEW t \in {-1, 0, 1},
           z = Double(hi, lo) + t * (Pow2[Bits] * Pow2[Bits])
    PROVE  z % Pow2[2 * Bits] = Double(hi, lo)
<1> DEFINE M == Pow2[Bits]
           N == M * M
           d == hi * M + lo
<1>1. Pow2[2 * Bits] = N
  <2>1. Bits \in Exponent /\ Bits + Bits = 2 * Bits /\ 2 * Bits \in Exponent
    BY UtilAssumption DEF Exponent
  <2> QED
    BY <2>1, Pow2Sum
<1>2. M \in Nat \ {0} /\ hi \in 0 .. M - 1 /\ lo \in 0 .. M - 1
  BY Width DEF Word
<1>3. Double(hi, lo) = d
  BY DEF Double
<1> HIDE DEF M
<1>4. N \in Nat \ {0} /\ d \in 0 .. N - 1
  <2>1. N \in Nat \ {0} /\ hi * M \in Nat
    BY <1>2
  <2>2. hi * M <= (M - 1) * M
    BY <1>2
  <2>3. (M - 1) * M = N - M
    BY <1>2
  <2> QED
    BY <1>2, <2>1, <2>2, <2>3
<1>5. z = d + t * N
  BY <1>3 DEF M
<1> HIDE DEF N, d
<1>6. t * N \in {-N, 0, N}
  BY <1>4
<1>7. z % N = d
  <2>1. d \in Int /\ d + N \in Int /\ d - N \in Int
    BY <1>4
  <2>2. d % N = d /\ (d + N) % N = d /\ (d - N) % N = d
    <3>1. d % N = d
      BY <1>4, <2>1, Modulo
    <3>2. (d + N) % N = d + N - N
      <4> DEFINE u == d + N
      <4>1. u \in N .. 2 * N - 1 /\ u \in Int
        BY <1>4
      <4> HIDE DEF u
      <4>2. u % N = u - N
        BY <1>4, <4>1, Modulo
      <4> QED
        BY <1>4, <4>1, <4>2 DEF u
    <3>3. (d - N) % N = d - N + N
      <4>1. d - N \in -N .. -1
        BY <1>4
      <4> QED
        BY <1>4, <2>1, <4>1, Modulo
    <3> QED
      BY <1>4, <3>1, <3>2, <3>3
  <2>3. z \in {d, d + N, d - N}
    BY <1>4, <1>5, <1>6
  <2> QED
    BY <2>2, <2>3
<1> QED
  BY <1>1, <1>3, <1>7

\* A difference and a sum of two words, with what is carried.
LEMMA WordDifference ==
    ASSUME NEW x \in Word, NEW y \in Word, NEW c \in {0, 1}
    PROVE  /\ Wrap(x - y - c) \in Word
           /\ \E t \in {0, 1} : Wrap(x - y - c) = x - y - c + t * Pow2[Bits]
<1>1. x \in Nat /\ y \in Nat /\ x < Pow2[Bits] /\ y < Pow2[Bits] /\ Pow2[Bits] \in Nat
  BY WordInt, Width
<1> DEFINE d == x - y - c
<1>2. d \in Word \/ d \in -Pow2[Bits] .. -1
  BY <1>1 DEF Word
<1>3. d \in Int
  BY <1>1
<1> HIDE DEF d
<1>4. Wrap(d) \in Word /\ Wrap(d) \in {d, d + Pow2[Bits]}
  BY <1>2, <1>3, WrapWord
<1>5. \E t \in {0, 1} : Wrap(d) = d + t * Pow2[Bits]
  BY <1>1, <1>3, <1>4
<1> QED
  BY <1>4, <1>5 DEF d

LEMMA WordSum ==
    ASSUME NEW x \in Word, NEW y \in Word, NEW c \in {0, 1}
    PROVE  /\ Wrap(x + y + c) \in Word
           /\ \E t \in {0, 1} : Wrap(x + y + c) = x + y + c - t * Pow2[Bits]
<1>1. x \in Nat /\ y \in Nat /\ x < Pow2[Bits] /\ y < Pow2[Bits] /\ Pow2[Bits] \in Nat
  BY WordInt, Width
<1> DEFINE d == x + y + c
<1>2. d \in Word \/ d \in Pow2[Bits] .. 2 * Pow2[Bits] - 1
  BY <1>1 DEF Word
<1>3. d \in Int
  BY <1>1
<1> HIDE DEF d
<1>4. Wrap(d) \in Word /\ Wrap(d) \in {d, d - Pow2[Bits]}
  BY <1>2, <1>3, WrapWord
<1>5. \E t \in {0, 1} : Wrap(d) = d - t * Pow2[Bits]
  BY <1>1, <1>3, <1>4
<1>6. PICK t \in {0, 1} : Wrap(d) = d - t * Pow2[Bits]
  BY <1>5
<1>7. Wrap(x + y + c) = x + y + c - t * Pow2[Bits]
  BY <1>1, <1>6 DEF d
<1>8. Wrap(x + y + c) \in Word
  BY <1>4 DEF d
<1> QED
  BY <1>7, <1>8

\* The high words are loaded, the carry stays.
LEMMA HighMachine ==
    ASSUME NEW k \in Machine, NEW x \in Word, NEW y \in Word
    PROVE  /\ HighWords(k, x, y) \in Machine /\ HighWords(k, x, y).C = k.C
           /\ HighWords(k, x, y).reg[0] = x /\ HighWords(k, x, y).reg[1] = y
<1> DEFINE r == [k.reg EXCEPT ![0] = x]
           s == [r EXCEPT ![1] = y]
<1>1. k.reg \in Registers /\ 0 \in RegNo /\ 1 \in RegNo
  BY RegisterNumbers DEF Machine, Registers
<1>2. r \in Registers /\ r[0] = x
  BY <1>1 DEF Registers
<1> HIDE DEF r
<1>3. s \in Registers /\ s[0] = x /\ s[1] = y
  BY <1>1, <1>2 DEF Registers
<1> HIDE DEF s
<1>4. HighWords(k, x, y) = [k EXCEPT !.reg = s]
  <2>1. [k EXCEPT !.reg[0] = x] = [k EXCEPT !.reg = r]
    BY DEF r
  <2> DEFINE j == [k EXCEPT !.reg = r]
  <2>2. j \in Machine /\ j.reg = r
    BY <1>2 DEF Machine, Registers
  <2>3. HighWords(k, x, y) = [j EXCEPT !.reg[1] = y]
    BY <2>1 DEF HighWords
  <2>4. [j EXCEPT !.reg[1] = y] = [j EXCEPT !.reg = s]
    BY <2>2 DEF s
  <2>5. [j EXCEPT !.reg = s] = [k EXCEPT !.reg = s]
    BY DEF Machine
  <2> QED
    BY <2>3, <2>4, <2>5
<1>5. [k EXCEPT !.reg = s] \in Machine /\ [k EXCEPT !.reg = s].C = k.C
      /\ [k EXCEPT !.reg = s].reg = s
  BY <1>3 DEF Machine, Registers
<1> QED
  BY <1>3, <1>4, <1>5

\* SUB with S, SBC, ADD and ADC without.
LEMMA ArithmeticOutcome ==
    ASSUME NEW k \in Machine
    PROVE  LET a == k.reg[0]
               b == k.reg[1]
           IN  /\ After(k, "SUB", TRUE) =
                    {arm_write_register(arm_cmp(k, a, b, k.C), 0, Wrap(a - b))}
               /\ After(k, "SBC", FALSE) =
                    {arm_write_register(k, 0, Wrap(a - b - (1 - k.C)))}
               /\ After(k, "ADD", FALSE) = {arm_write_register(k, 0, Wrap(a + b))}
               /\ After(k, "ADC", FALSE) = {arm_write_register(k, 0, Wrap(a + b + k.C))}
               /\ After(k, "CMN", TRUE) = {arm_cmn(k, a, b, k.C)}
<1> DEFINE a == k.reg[0]
           b == k.reg[1]
<1>1. Operate(k, Plain("SUB", TRUE), a, b) =
        arm_write_register(arm_cmp(k, a, b, k.C), 0, Wrap(a - b))
  BY DEF Operate, Plain, FlagsOf, ResultOf
<1>2. Operate(k, Plain("SBC", FALSE), a, b) =
        arm_write_register(k, 0, Wrap(a - b - (1 - k.C)))
  BY DEF Operate, Plain, FlagsOf, ResultOf
<1>3. Operate(k, Plain("ADD", FALSE), a, b) = arm_write_register(k, 0, Wrap(a + b))
  BY DEF Operate, Plain, FlagsOf, ResultOf
<1>4. Operate(k, Plain("ADC", FALSE), a, b) = arm_write_register(k, 0, Wrap(a + b + k.C))
  BY DEF Operate, Plain, FlagsOf, ResultOf
<1>5. Operate(k, Plain("CMN", TRUE), a, b) = arm_cmn(k, a, b, k.C)
  BY DEF Operate, Plain
<1> QED
  BY <1>1, <1>2, <1>3, <1>4, <1>5, PlainOutcome

LEMMA Borrows == Typed => BorrowChain
<1> SUFFICES ASSUME m \in Machine, m.reg[1] # 0, NEW x \in Word, NEW y \in Word,
                    NEW lo \in After(m, "SUB", TRUE),
                    NEW hi \in After(HighWords(lo, x, y), "SBC", FALSE)
             PROVE  Double(hi.reg[0], lo.reg[0]) =
                        (Double(x, m.reg[0]) - Double(y, m.reg[1])) % Pow2[2 * Bits]
  BY DEF Typed, BorrowChain
<1> DEFINE a == m.reg[0]
           b == m.reg[1]
           M == Pow2[Bits]
           l == arm_cmp(m, a, b, m.C)
<1>1. a \in Word /\ b \in Word /\ b # 0 /\ m.C \in {0, 1} /\ 0 \in RegNo
  BY RegisterNumbers DEF Machine
<1>2. a \in Nat /\ b \in Nat /\ x \in Nat /\ y \in Nat /\ M \in Nat /\ a < M /\ b < M
  BY <1>1, WordInt, Width
<1> HIDE DEF a, b, M
<1>3. lo = arm_write_register(l, 0, Wrap(a - b))
  BY ArithmeticOutcome DEF a, b
<1>4. l \in Machine /\ l.C = Bit(a >= b)
  <2>1. arm_cmp(m, a, b, m.C) \in Machine
    BY <1>1, CompareMachine
  <2>2. arm_cmp(m, a, b, m.C).C = Bit(a >= b)
    BY <1>1, CmpFlags
  <2> QED
    BY <2>1, <2>2
<1>5. Wrap(a - b) \in Word /\ Wrap(a - b) = a - b + (1 - Bit(a >= b)) * M
  <2>1. CASE a >= b
    <3>1. a - b \in Word /\ a - b \in Int
      BY <1>2, <2>1 DEF Word, M
    <3>2. Wrap(a - b) = a - b
      BY <3>1, WrapWord
    <3>3. (1 - Bit(a >= b)) * M = 0
      BY <1>2, <2>1 DEF Bit
    <3> QED
      BY <1>2, <3>1, <3>2, <3>3
  <2>2. CASE a < b
    <3>1. a - b \in -Pow2[Bits] .. -1 /\ a - b \in Int
      BY <1>2, <2>2 DEF M
    <3>2. Wrap(a - b) = a - b + M /\ Wrap(a - b) \in Word
      BY <3>1, WrapWord DEF M
    <3>3. (1 - Bit(a >= b)) * M = M
      BY <1>2, <2>2 DEF Bit
    <3> QED
      BY <1>2, <3>2, <3>3
  <2> QED
    BY <1>2, <2>1, <2>2
<1> DEFINE c == Bit(a >= b)
           low == Wrap(a - b)
           h == HighWords(lo, x, y)
<1>6. c \in {0, 1}
  BY DEF Bit
<1> HIDE DEF l, c, low
<1>7. lo \in Machine /\ lo.C = c /\ lo.reg[0] = low
  BY <1>1, <1>3, <1>4, <1>5, WriteMachine DEF c, low
<1>8. h \in Machine /\ h.C = c /\ h.reg[0] = x /\ h.reg[1] = y
  BY <1>7, HighMachine
<1> HIDE DEF h
<1>9. hi = arm_write_register(h, 0, Wrap(x - y - (1 - c)))
  <2>1. hi \in {arm_write_register(h, 0, Wrap(h.reg[0] - h.reg[1] - (1 - h.C)))}
    BY <1>8, ArithmeticOutcome DEF h
  <2> QED
    BY <1>8, <2>1
<1> DEFINE e == 1 - c
<1>10. e \in {0, 1}
  BY <1>6
<1>11. low \in Word /\ low = a - b + e * M
  BY <1>5 DEF c, low
<1>12. hi = arm_write_register(h, 0, Wrap(x - y - e))
  BY <1>9
<1> HIDE DEF e
<1> DEFINE high == Wrap(x - y - e)
<1>13. high \in Word /\ \E t \in {0, 1} : high = x - y - e + t * M
  BY <1>10, WordDifference DEF M
<1> HIDE DEF high
<1>14. hi.reg[0] = high
  BY <1>1, <1>8, <1>12, <1>13, WriteMachine DEF high
<1>15. PICK t \in {0, 1} : high = x - y - e + t * M
  BY <1>13
<1>16. Double(x, a) - Double(y, b) = Double(high, low) + (-t) * (M * M)
  <2>1. Double(high, low) = (x - y - e + t * M) * M + (a - b + e * M)
    BY <1>11, <1>15 DEF Double, M
  <2>2. (x - y - e + t * M) * M = x * M - y * M - e * M + t * (M * M)
    BY <1>2, <1>10, <1>15
  <2>3. /\ x * M \in Int /\ y * M \in Int /\ e * M \in Int /\ t * (M * M) \in Int
        /\ (-t) * (M * M) = -(t * (M * M))
    BY <1>2, <1>10
  <2> QED
    BY <1>2, <2>1, <2>2, <2>3 DEF Double, M
<1>17. (Double(x, a) - Double(y, b)) % Pow2[2 * Bits] = Double(high, low)
  <2>1. -t \in {-1, 0, 1}
    OBVIOUS
  <2>2. Double(x, a) - Double(y, b) \in Int
    <3>1. x * M \in Int /\ y * M \in Int
      BY <1>2
    <3> QED
      BY <1>2, <3>1 DEF Double, M
  <2> DEFINE z == Double(x, a) - Double(y, b)
             u == -t
  <2>3. z = Double(high, low) + u * (Pow2[Bits] * Pow2[Bits])
    BY <1>16 DEF M
  <2> HIDE DEF z, u
  <2>4. z % Pow2[2 * Bits] = Double(high, low)
    BY <1>11, <1>13, <2>1, <2>2, <2>3, DoubleWord DEF z, u
  <2> QED
    BY <2>4 DEF z
<1> QED
  BY <1>7, <1>14, <1>17 DEF a, b

\* SUBS and SBC subtract numbers of two words, for every width of words
\* (arm_data_processing.c:68-75, 124-132).
THEOREM Subtraction == Spec => []BorrowChain
  BY MachineTypes, Borrows, PTL

LEMMA Carries == Typed => CarryChain
<1> SUFFICES ASSUME m \in Machine, NEW x \in Word, NEW y \in Word,
                    NEW s \in After(m, "CMN", TRUE), NEW lo \in After(s, "ADD", FALSE),
                    NEW hi \in After(HighWords(lo, x, y), "ADC", FALSE)
             PROVE  Double(hi.reg[0], lo.reg[0]) =
                        (Double(x, m.reg[0]) + Double(y, m.reg[1])) % Pow2[2 * Bits]
  BY DEF Typed, CarryChain
<1> DEFINE a == m.reg[0]
           b == m.reg[1]
           M == Pow2[Bits]
<1>1. a \in Word /\ b \in Word /\ m.C \in {0, 1} /\ 0 \in RegNo
  BY RegisterNumbers DEF Machine
<1>2. a \in Nat /\ b \in Nat /\ x \in Nat /\ y \in Nat /\ M \in Nat /\ a < M /\ b < M
  BY <1>1, WordInt, Width
<1> HIDE DEF a, b, M
<1>3. s = arm_cmn(m, a, b, m.C)
  BY ArithmeticOutcome DEF a, b
<1>4. s \in Machine /\ s.reg = m.reg /\ s.C = Bit(a + b >= M)
  <2>1. arm_cmn(m, a, b, m.C) \in Machine /\ arm_cmn(m, a, b, m.C).reg = m.reg
    BY CmnMachine DEF a, b
  <2>2. arm_cmn(m, a, b, m.C).C = Bit(a + b >= M)
    BY <1>1, CmnFlags DEF M
  <2> QED
    BY <1>3, <2>1, <2>2
<1> DEFINE c == Bit(a + b >= M)
           low == Wrap(a + b)
           h == HighWords(lo, x, y)
<1>5. lo = arm_write_register(s, 0, low)
  <2>1. lo \in {arm_write_register(s, 0, Wrap(s.reg[0] + s.reg[1]))}
    BY <1>4, ArithmeticOutcome
  <2> QED
    BY <1>4, <2>1 DEF a, b
<1>6. low \in Word /\ low = a + b - c * M /\ c \in {0, 1}
  <2>1. CASE a + b >= M
    <3>1. a + b \in Pow2[Bits] .. 2 * Pow2[Bits] - 1 /\ a + b \in Int
      BY <1>2, <2>1 DEF M
    <3> DEFINE u == a + b
    <3> HIDE DEF u
    <3>5. Wrap(u) = u - M /\ Wrap(u) \in Word
      BY <3>1, WrapWord DEF M, u
    <3>2. low = a + b - M /\ low \in Word
      BY <1>2, <3>5 DEF u
    <3>3. c = 1 /\ c * M = M
      BY <1>2, <2>1 DEF Bit
    <3> QED
      BY <1>2, <3>2, <3>3
  <2>2. CASE a + b < M
    <3>1. a + b \in Word /\ a + b \in Int
      BY <1>2, <2>2 DEF Word, M
    <3>2. low = a + b
      BY <3>1, WrapWord
    <3>3. c = 0 /\ c * M = 0
      BY <1>2, <2>2 DEF Bit
    <3> QED
      BY <1>2, <3>1, <3>2, <3>3
  <2> QED
    BY <1>2, <2>1, <2>2
<1>7. s.C = c
  BY <1>4
<1> HIDE DEF c, low
<1>8. lo \in Machine /\ lo.C = c /\ lo.reg[0] = low
  BY <1>1, <1>4, <1>5, <1>6, <1>7, WriteMachine
<1>9. h \in Machine /\ h.C = c /\ h.reg[0] = x /\ h.reg[1] = y
  BY <1>8, HighMachine
<1> HIDE DEF h
<1>10. hi = arm_write_register(h, 0, Wrap(x + y + c))
  <2>1. hi \in {arm_write_register(h, 0, Wrap(h.reg[0] + h.reg[1] + h.C))}
    BY <1>9, ArithmeticOutcome DEF h
  <2> QED
    BY <1>9, <2>1
<1> DEFINE high == Wrap(x + y + c)
<1>11. high \in Word /\ \E t \in {0, 1} : high = x + y + c - t * M
  BY <1>6, WordSum DEF M
<1> HIDE DEF high
<1>12. hi.reg[0] = high
  BY <1>1, <1>9, <1>10, <1>11, WriteMachine DEF high
<1>13. PICK t \in {0, 1} : high = x + y + c - t * M
  BY <1>11
<1>14. Double(x, a) + Double(y, b) = Double(high, low) + t * (M * M)
  <2>1. Double(high, low) = (x + y + c - t * M) * M + (a + b - c * M)
    BY <1>6, <1>13 DEF Double, M
  <2>2. (x + y + c - t * M) * M = x * M + y * M + c * M - t * (M * M)
    BY <1>2, <1>6, <1>13
  <2>3. x * M \in Int /\ y * M \in Int /\ c * M \in Int /\ t * (M * M) \in Int
    BY <1>2, <1>6
  <2> QED
    BY <1>2, <2>1, <2>2, <2>3 DEF Double, M
<1>15. (Double(x, a) + Double(y, b)) % Pow2[2 * Bits] = Double(high, low)
  <2>1. t \in {-1, 0, 1}
    OBVIOUS
  <2>2. Double(x, a) + Double(y, b) \in Int
    <3>1. x * M \in Int /\ y * M \in Int
      BY <1>2
    <3> QED
      BY <1>2, <3>1 DEF Double, M
  <2> DEFINE z == Double(x, a) + Double(y, b)
  <2>3. z = Double(high, low) + t * (Pow2[Bits] * Pow2[Bits])
    BY <1>14 DEF M
  <2> HIDE DEF z
  <2>4. z % Pow2[2 * Bits] = Double(high, low)
    BY <1>6, <1>11, <2>1, <2>2, <2>3, DoubleWord DEF z
  <2> QED
    BY <2>4 DEF z
<1> QED
  BY <1>8, <1>12, <1>15 DEF a, b

\* CMN, ADD and ADC add numbers of two words, for every width of words
\* (arm_data_processing.c:134-145, 204-232).
THEOREM Addition == Spec => []CarryChain
  BY MachineTypes, Carries, PTL


-----------------------------------------------------------------------------
(***************************************************************************)
(* Division                                                                *)
(***************************************************************************)
\* Quotient and remainder are unique.
LEMMA Division ==
    ASSUME NEW d \in Nat \ {0}, NEW q \in Int, NEW r \in 0 .. d - 1, NEW x \in Int,
           x = q * d + r
    PROVE  x \div d = q /\ x % d = r
<1> DEFINE p == x \div d
           s == x % d
<1>1. p \in Int /\ s \in 0 .. d - 1 /\ x = d * p + s
  OBVIOUS
<1> HIDE DEF p, s
<1>2. (q - p) * d = s - r
  BY <1>1
<1>3. q - p = 0
  <2> DEFINE e == q - p
  <2>1. e \in Int /\ e * d = s - r
    BY <1>1, <1>2
  <2> HIDE DEF e
  <2>2. s - r < d /\ s - r > -d
    BY <1>1
  <2>3. ~(e >= 1)
    <3> SUFFICES ASSUME e >= 1 PROVE FALSE
      OBVIOUS
    <3>1. e * d >= d
      BY <2>1
    <3> QED
      BY <1>1, <2>1, <2>2, <3>1
  <2>4. ~(e <= -1)
    <3> SUFFICES ASSUME e <= -1 PROVE FALSE
      OBVIOUS
    <3> DEFINE g == -e
    <3>1. g \in Int /\ g >= 1 /\ g * d = -(e * d)
      BY <2>1
    <3> HIDE DEF g
    <3>2. g * d >= d
      BY <3>1
    <3> QED
      BY <1>1, <2>1, <2>2, <3>1, <3>2
  <2>5. e = 0
    BY <2>1, <2>3, <2>4
  <2> QED
    BY <2>5 DEF e
<1>4. p = q /\ s = r
  BY <1>1, <1>2, <1>3
<1> QED
  BY <1>4 DEF p, s

\* Every number has a quotient and a remainder.
LEMMA Quotient ==
    ASSUME NEW d \in Nat \ {0}, NEW x \in Int
    PROVE  x \div d \in Int /\ x % d \in 0 .. d - 1 /\ x = (x \div d) * d + (x % d)
<1> DEFINE p == x \div d
           s == x % d
<1>1. p \in Int /\ s \in 0 .. d - 1 /\ x = d * p + s
  OBVIOUS
<1> HIDE DEF p, s
<1>2. x = p * d + s
  BY <1>1
<1> QED
  BY <1>1, <1>2 DEF p, s

\* One more digit: x modulo d * base from x modulo d and the digit above.
LEMMA NextDigit ==
    ASSUME NEW d \in Nat \ {0}, NEW base \in Nat \ {0}, NEW x \in Nat
    PROVE  x % (base * d) = (x % d) + ((x \div d) % base) * d
<1> DEFINE q == x \div d
           r == x % d
           h == q \div base
           b == q % base
<1>1. q \in Int /\ r \in 0 .. d - 1 /\ x = q * d + r
  BY Quotient
<1> HIDE DEF q, r
<1>2. h \in Int /\ b \in 0 .. base - 1 /\ q = h * base + b
  BY <1>1, Quotient
<1> HIDE DEF h, b
<1> DEFINE e == base * d
           s == r + b * d
<1>3. x = h * e + s
  <2>1. q * d = (h * base + b) * d
    BY <1>2
  <2>2. (h * base + b) * d = h * (base * d) + b * d
    BY <1>2
  <2>3. h * (base * d) \in Int /\ b * d \in Int
    BY <1>2
  <2> QED
    BY <1>1, <2>1, <2>2, <2>3
<1>4. e \in Nat \ {0} /\ s \in 0 .. e - 1
  <2>1. b * d \in Nat /\ b * d <= (base - 1) * d /\ (base - 1) * d = base * d - d
        /\ base * d \in Nat \ {0}
    BY <1>2
  <2> DEFINE u == b * d
             v == base * d
  <2>2. u \in Nat /\ u <= v - d /\ v \in Nat \ {0} /\ e = v /\ s = r + u
    BY <2>1
  <2> HIDE DEF u, v, e, s
  <2> QED
    BY <1>1, <2>2
<1> HIDE DEF e, s
<1>5. x % e = s
  BY <1>2, <1>3, <1>4, Division
<1> QED
  BY <1>5 DEF e, s, r, b, q

\* Multiples of the modulus do not count.
LEMMA DropMultiple ==
    ASSUME NEW d \in Nat \ {0}, NEW x \in Int, NEW t \in Int
    PROVE  (x + t * d) % d = x % d
<1> DEFINE q == x \div d
           r == x % d
<1>1. q \in Int /\ r \in 0 .. d - 1 /\ x = q * d + r
  BY Quotient
<1> HIDE DEF q, r
<1> DEFINE y == x + t * d
           u == q + t
<1>2. y = u * d + r /\ y \in Int /\ u \in Int
  BY <1>1
<1> HIDE DEF y, u
<1>3. y % d = r
  BY <1>1, <1>2, Division
<1> QED
  BY <1>3 DEF y, r

\* A word kept on the way does not change a result.
LEMMA WrapTwice ==
    ASSUME NEW x \in Int, NEW y \in Int
    PROVE  Wrap(Wrap(x) + y) = Wrap(x + y)
<1> DEFINE M == Pow2[Bits]
           q == x \div M
           r == x % M
           t == -q
           z == x + y
<1>1. M \in Nat \ {0}
  BY Width
<1> HIDE DEF M
<1>2. q \in Int /\ r \in 0 .. M - 1 /\ x = q * M + r
  BY <1>1, Quotient
<1>3. Wrap(x) = r
  BY DEF Wrap, M
<1> HIDE DEF q, r
<1>4. t \in Int /\ z \in Int /\ r + y = z + t * M
  BY <1>1, <1>2
<1> HIDE DEF t, z
<1>5. (z + t * M) % M = z % M
  BY <1>1, <1>4, DropMultiple
<1>6. (r + y) % M = z % M
  BY <1>4, <1>5
<1> QED
  BY <1>3, <1>6 DEF Wrap, M, z

-----------------------------------------------------------------------------
(***************************************************************************)
(* Digits and bits of a number                                             *)
(***************************************************************************)
\* term[n] is the digit n of x, times its place value.
Digits(term, x, power, base, N) ==
    /\ power \in [0 .. N -> Nat \ {0}]
    /\ power[0] = 1
    /\ \A n \in 0 .. N - 1 : power[n + 1] = base * power[n]
    /\ \A n \in 0 .. N - 1 : term[n] = ((x \div power[n]) % base) * power[n]

\* The digits of a number, taken together again.
LEMMA DigitsValue ==
    ASSUME NEW N \in Nat, NEW base \in Nat \ {0}, NEW power, NEW x \in Nat, NEW term,
           Digits(term, x, power, base, N)
    PROVE  Total(term, N) = x % power[N]
<1> USE DEF Digits
<1> DEFINE value == [n \in 0 .. N |-> x % power[n]]
<1>1. value[0] = 0
  OBVIOUS
<1>2. ASSUME NEW n \in 0 .. N - 1 PROVE value[n + 1] = value[n] + term[n]
  <2> DEFINE p == power[n]
  <2>1. n \in 0 .. N /\ n + 1 \in 0 .. N /\ p \in Nat \ {0} /\ power[n + 1] = base * p
    OBVIOUS
  <2>2. value[n] = x % p /\ value[n + 1] = x % (base * p)
    BY <2>1
  <2>3. term[n] = ((x \div p) % base) * p
    OBVIOUS
  <2> HIDE DEF p, value
  <2>4. x % (base * p) = (x % p) + ((x \div p) % base) * p
    BY <2>1, NextDigit
  <2> QED
    BY <2>2, <2>3, <2>4
<1>3. value[N] = x % power[N]
  OBVIOUS
<1> HIDE DEF value
<1>4. Total(term, N) = value[N]
  BY <1>1, <1>2, SumsValue
<1> QED
  BY <1>3, <1>4

LEMMA Pow2Next ==
    ASSUME NEW n \in Place
    PROVE  /\ n \in Nat /\ n \in Exponent /\ n + 1 \in Exponent
           /\ Pow2[n] \in Nat \ {0} /\ Pow2[n + 1] = 2 * Pow2[n]
<1>1. n \in Nat /\ n \in Exponent /\ n + 1 \in Exponent \ {0} /\ (n + 1) - 1 = n
  BY UtilAssumption DEF Place, Exponent
<1> QED
  BY <1>1, Pow2Values

\* The bits of the word whose bits from e upwards are set.
LEMMA MaskBits ==
    ASSUME NEW e \in Place, NEW n \in Place
    PROVE  get_bit(Pow2[Bits] - Pow2[e], n) = IF n < e THEN 0 ELSE 1
<1> DEFINE mask == Pow2[Bits] - Pow2[e]
           d == Pow2[n]
<1>1. /\ n \in Nat /\ e \in Nat /\ Bits \in Nat /\ n < Bits /\ e < Bits
      /\ d \in Nat \ {0} /\ Pow2[e] \in Nat \ {0} /\ Pow2[Bits] \in Nat \ {0}
  BY Pow2Next, Width DEF Place
<1> DEFINE h == Pow2[Bits - n - 1]
<1>2. Pow2[Bits] = (2 * h) * d /\ h \in Nat \ {0}
  <2>1. /\ n \in Exponent /\ Bits - n \in Exponent \ {0} /\ Bits - n - 1 \in Exponent
        /\ n + (Bits - n) = Bits /\ Bits \in Exponent
    BY <1>1, UtilAssumption DEF Exponent
  <2>2. Pow2[n + (Bits - n)] = Pow2[n] * Pow2[Bits - n]
    BY <2>1, Pow2Sum
  <2>3. Pow2[Bits - n] = 2 * h /\ h \in Nat \ {0}
    BY <2>1, Pow2Values
  <2> HIDE DEF h, d
  <2> QED
    BY <1>1, <2>1, <2>2, <2>3 DEF d
<1>3. get_bit(mask, n) = (mask \div d) % 2
  BY DEF get_bit
<1>4. CASE n < e
  <2> DEFINE g == Pow2[e - n - 1]
  <2>1. Pow2[e] = (2 * g) * d /\ g \in Nat \ {0}
    <3>1. /\ n \in Exponent /\ e - n \in Exponent \ {0} /\ e - n - 1 \in Exponent
          /\ n + (e - n) = e /\ e \in Exponent
      BY <1>1, <1>4, UtilAssumption DEF Exponent
    <3>2. Pow2[n + (e - n)] = Pow2[n] * Pow2[e - n]
      BY <3>1, Pow2Sum
    <3>3. Pow2[e - n] = 2 * g /\ g \in Nat \ {0}
      BY <3>1, Pow2Values
    <3> HIDE DEF g, d
    <3> QED
      BY <1>1, <3>1, <3>2, <3>3 DEF d
  <2> DEFINE q == 2 * (h - g)
  <2>2. q \in Int /\ q % 2 = 0
    BY <1>2, <2>1
  <2>3. mask = q * d + 0 /\ mask \in Int /\ 0 \in 0 .. d - 1
    <3> HIDE DEF h, g, d
    <3> QED
      BY <1>1, <1>2, <2>1
  <2> HIDE DEF q, mask, d
  <2>4. mask \div d = q
    BY <1>1, <2>2, <2>3, Division
  <2> QED
    BY <1>3, <1>4, <2>2, <2>4 DEF mask
<1>5. CASE ~(n < e)
  <2> DEFINE g == Pow2[n - e]
             q == 2 * h - 1
             r == d - Pow2[e]
  <2>1. d = Pow2[e] * g /\ g \in Nat \ {0}
    <3>1. /\ e \in Exponent /\ n - e \in Exponent /\ e + (n - e) = n /\ n \in Exponent
      BY <1>1, <1>5, UtilAssumption DEF Exponent
    <3>2. Pow2[e + (n - e)] = Pow2[e] * Pow2[n - e]
      BY <3>1, Pow2Sum
    <3> QED
      BY <3>1, <3>2, Pow2Values
  <2>2. Pow2[e] <= d
    <3> DEFINE c == Pow2[e]
    <3> HIDE DEF g, d, c
    <3>1. c \in Nat \ {0} /\ d = c * g
      BY <1>1, <2>1 DEF c
    <3>2. c <= c * g
      BY <2>1, <3>1
    <3> QED
      BY <3>1, <3>2 DEF c
  <2>3. q \in Int /\ q % 2 = 1 /\ r \in 0 .. d - 1
    BY <1>1, <1>2, <2>2
  <2>4. mask = q * d + r /\ mask \in Int
    <3> HIDE DEF h, d
    <3> QED
      BY <1>1, <1>2
  <2> HIDE DEF q, r, mask, d
  <2>5. mask \div d = q
    BY <1>1, <2>3, <2>4, Division
  <2> QED
    BY <1>3, <1>5, <2>3, <2>5 DEF mask
<1> QED
  BY <1>4, <1>5

\* Setting the bits from e upwards keeps the ones below.
LEMMA OrMask ==
    ASSUME NEW x \in Nat, NEW e \in Place
    PROVE  x | (Pow2[Bits] - Pow2[e]) = (x % Pow2[e]) + (Pow2[Bits] - Pow2[e])
<1> DEFINE mask == Pow2[Bits] - Pow2[e]
           bit == [i \in Place |-> Bit(get_bit(x, i) = 1 \/ get_bit(mask, i) = 1)]
           term == [i \in Place |-> bit[i] * Pow2[i]]
           low == x % Pow2[e]
           value == [n \in 0 .. Bits |-> IF n <= e THEN x % Pow2[n]
                                                   ELSE low + Pow2[n] - Pow2[e]]
<1>1. /\ e \in Nat /\ e < Bits /\ Bits \in Nat /\ e \in Exponent /\ Pow2[e] \in Nat \ {0}
      /\ Pow2[Bits] \in Nat \ {0} /\ Pow2[0] = 1
  BY Pow2Next, Pow2Values, Width DEF Place
<1>2. low \in Nat
  BY <1>1
<1>3. x | mask = Total(term, Bits)
  BY DEF |, FromBits
<1>4. value[0] = 0
  <2>1. value[0] = x % 1
    BY <1>1
  <2> QED
    BY <2>1
<1>5. \A n \in 0 .. Bits : value[n] = IF n <= e THEN x % Pow2[n] ELSE low + Pow2[n] - Pow2[e]
  OBVIOUS
<1> HIDE DEF value, low
<1>6. ASSUME NEW n \in 0 .. Bits - 1 PROVE value[n + 1] = value[n] + term[n]
  <2>1. n \in Place /\ n \in 0 .. Bits /\ n + 1 \in 0 .. Bits /\ n \in Nat
    BY <1>1 DEF Place
  <2>2. Pow2[n] \in Nat \ {0} /\ Pow2[n + 1] = 2 * Pow2[n] /\ n \in Exponent
    BY <2>1, Pow2Next
  <2>3. term[n] = Bit(get_bit(x, n) = 1 \/ get_bit(mask, n) = 1) * Pow2[n]
    BY <2>1
  <2>4. get_bit(mask, n) = IF n < e THEN 0 ELSE 1
    BY <2>1, MaskBits
  <2>5. get_bit(x, n) \in {0, 1} /\ get_bit(x, n) = (x \div Pow2[n]) % 2
    BY <2>2, BitType DEF get_bit
  <2> HIDE DEF term, mask
  <2>6. CASE n < e
    <3>1. term[n] = get_bit(x, n) * Pow2[n]
      BY <2>3, <2>4, <2>5, <2>6 DEF Bit
    <3>2. x % (2 * Pow2[n]) = (x % Pow2[n]) + ((x \div Pow2[n]) % 2) * Pow2[n]
      <4>1. \A d \in Nat \ {0}, b \in Nat \ {0} :
                x % (b * d) = (x % d) + ((x \div d) % b) * d
        BY NextDigit
      <4>2. 2 \in Nat \ {0}
        OBVIOUS
      <4> QED
        BY <2>2, <4>1, <4>2, Zenon
    <3>3. value[n] = x % Pow2[n] /\ value[n + 1] = x % Pow2[n + 1]
      BY <1>1, <1>5, <2>1, <2>6
    <3> QED
      BY <2>2, <2>5, <3>1, <3>2, <3>3
  <2>7. CASE ~(n < e)
    <3>1. term[n] = Pow2[n]
      BY <2>2, <2>3, <2>4, <2>7 DEF Bit
    <3>2. value[n + 1] = low + Pow2[n + 1] - Pow2[e]
      BY <1>1, <1>5, <2>1, <2>7
    <3>3. value[n] = low + Pow2[n] - Pow2[e]
      <4>1. CASE n = e
        <5>1. value[n] = low
          BY <1>1, <1>5, <2>1, <4>1 DEF low
        <5> QED
          BY <1>1, <1>2, <4>1, <5>1
      <4>2. CASE n # e
        BY <1>1, <1>5, <2>1, <2>7, <4>2
      <4> QED
        BY <4>1, <4>2
    <3> QED
      BY <1>1, <1>2, <2>2, <3>1, <3>2, <3>3
  <2> QED
    BY <2>6, <2>7
<1>7. value[Bits] = low + Pow2[Bits] - Pow2[e]
  BY <1>1, <1>5
<1> HIDE DEF term, mask
<1>8. Total(term, Bits) = value[Bits]
  BY <1>1, <1>4, <1>6, SumsValue
<1>9. x | mask = low + mask
  BY <1>1, <1>2, <1>3, <1>7, <1>8 DEF mask
<1> QED
  BY <1>9 DEF mask, low

-----------------------------------------------------------------------------
(***************************************************************************)
(* The pc                                                                  *)
(***************************************************************************)
\* Bit 1 is clear.
Cleared(x) == x % 4 \in {0, 1}

\* Words are multiples of four bits or more, so that bits 0 and 1 survive.
LEMMA WrapLowBits == ASSUME NEW x \in Int PROVE Wrap(x) % 4 = x % 4
<1> DEFINE K == Pow2[Bits - 2]
           M == Pow2[Bits]
           q == x \div M
           r == x % M
<1>1. M \in Nat \ {0} /\ K \in Nat /\ M = 4 * K
  <2>1. /\ Bits \in Exponent \ {0} /\ Bits - 1 \in Exponent \ {0} /\ Bits - 2 \in Exponent
        /\ (Bits - 1) - 1 = Bits - 2
    BY UtilAssumption DEF Exponent
  <2>2. M = 2 * Pow2[Bits - 1] /\ Pow2[Bits - 1] = 2 * K /\ K \in Nat
    BY <2>1, Pow2Values
  <2> QED
    BY <2>2, Width
<1> HIDE DEF K, M
<1>2. q \in Int /\ r \in 0 .. M - 1 /\ x = q * M + r
  BY <1>1, Quotient
<1>3. Wrap(x) = r
  BY DEF Wrap, M
<1> HIDE DEF q, r
<1> DEFINE u == q * K
<1>4. u \in Int /\ x = 4 * u + r
  BY <1>1, <1>2
<1> HIDE DEF u
<1>5. x % 4 = r % 4
  BY <1>1, <1>2, <1>4
<1> QED
  BY <1>3, <1>5

LEMMA ClearedSteps ==
    ASSUME NEW x \in Int, NEW y \in Int
    PROVE  /\ Cleared(Wrap(x)) <=> Cleared(x)
           /\ Cleared(x + 4 * y) <=> Cleared(x)
<1>1. Cleared(Wrap(x)) <=> Cleared(x)
  BY WrapLowBits DEF Cleared
<1>2. (x + 4 * y) % 4 = x % 4
  OBVIOUS
<1> QED
  BY <1>1, <1>2 DEF Cleared

\* The pc reads as the address of the next instruction.
LEMMA ReadPc ==
    ASSUME NEW k, k.reg \in Registers
    PROVE  /\ Cleared(arm_read_register(k, PC))
           /\ Cleared(k.reg[PC]) => arm_read_register(k, PC) = Wrap(k.reg[PC] + 4)
<1> DEFINE x == k.reg[PC]
           v == Wrap(x + 4)
<1>1. x \in Word /\ x \in Int /\ x + 4 \in Int
  <2>1. x \in Word
    BY RegisterNumbers DEF Registers
  <2>2. x \in Nat
    BY <2>1, WordInt
  <2> QED
    BY <2>1, <2>2
<1>2. v \in Word /\ v \in Nat
  <2>1. v \in Word
    BY <1>1, WrapWord
  <2> QED
    BY <2>1, WordInt
<1>3. arm_read_register(k, PC) = v - 2 * get_bit(v, 1)
  BY DEF arm_read_register
<1>4. Cleared(v) <=> Cleared(x)
  <2>1. Cleared(v) <=> Cleared(x + 4)
    BY <1>1, ClearedSteps
  <2>2. (x + 4) % 4 = x % 4
    BY <1>1
  <2> QED
    BY <2>1, <2>2 DEF Cleared
<1> HIDE DEF v
<1>5. get_bit(v, 1) = (v \div 2) % 2
  BY Pow2Values DEF get_bit
<1>6. Cleared(v - 2 * get_bit(v, 1)) /\ (Cleared(v) => get_bit(v, 1) = 0)
  BY <1>2, <1>5 DEF Cleared
<1>7. Cleared(x) => arm_read_register(k, PC) = v
  BY <1>2, <1>3, <1>4, <1>6
<1> QED
  BY <1>3, <1>6, <1>7 DEF v

\* What FetchAddress is, of any machine.
Fetches(k) == Wrap(arm_read_register(k, PC) - 4)

LEMMA FetchesPc ==
    ASSUME NEW k, k.reg \in Registers, Cleared(k.reg[PC])
    PROVE  Fetches(k) = k.reg[PC]
<1> DEFINE x == k.reg[PC]
<1>1. x \in Word /\ x \in Int /\ x + 4 \in Int
  <2>1. x \in Word
    BY RegisterNumbers DEF Registers
  <2>2. x \in Nat
    BY <2>1, WordInt
  <2> QED
    BY <2>1, <2>2
<1>2. arm_read_register(k, PC) = Wrap(x + 4)
  BY ReadPc
<1> HIDE DEF x
<1>3. Wrap(Wrap(x + 4) + (-4)) = Wrap((x + 4) + (-4))
  BY <1>1, WrapTwice
<1>4. Wrap(x + 4) \in Int
  <2>1. Wrap(x + 4) \in Word
    BY <1>1, WrapWord
  <2> QED
    BY <2>1, WordInt
<1>5. Wrap(x + 4) + (-4) = Wrap(x + 4) - 4 /\ (x + 4) + (-4) = x
  BY <1>1, <1>4
<1>6. Wrap(x) = x
  BY <1>1, WrapWord
<1> QED
  BY <1>2, <1>3, <1>5, <1>6 DEF Fetches, x

\* An instruction is fetched from a word boundary or the byte after one.
LEMMA FetchedPc ==
    ASSUME NEW k \in Machine
    PROVE  /\ arm_fetch(k) \in Machine /\ Cleared(arm_fetch(k).reg[PC])
           /\ arm_fetch(k).reg[PC] = arm_read_register(k, PC)
           /\ \A r \in RegNo \ {PC} : arm_fetch(k).reg[r] = k.reg[r]
           /\ SameFlags(arm_fetch(k), k)
<1>1. k.reg \in Registers /\ PC \in RegNo
  BY RegisterNumbers DEF Machine, Registers
<1>2. arm_fetch(k) \in Machine
  BY FetchMachine
<1>3. /\ arm_fetch(k).reg[PC] = arm_read_register(k, PC)
      /\ \A r \in RegNo \ {PC} : arm_fetch(k).reg[r] = k.reg[r]
      /\ SameFlags(arm_fetch(k), k)
  BY <1>1 DEF arm_fetch, Machine, SameFlags
<1>4. Cleared(arm_read_register(k, PC))
  BY <1>1, ReadPc
<1> QED
  BY <1>2, <1>3, <1>4

-----------------------------------------------------------------------------
(***************************************************************************)
(* Branches                                                                *)
(***************************************************************************)
\* The offset field of an instruction.
LEMMA OffsetWidth ==
    /\ OffsetBits - 1 \in Place /\ OffsetBits \in Exponent
    /\ Pow2[OffsetBits - 1] \in Nat \ {0} /\ Pow2[OffsetBits] = 2 * Pow2[OffsetBits - 1]
    /\ Pow2[OffsetBits - 1] >= 8 /\ Pow2[Bits] >= 4096
<1>1. /\ OffsetBits - 1 \in Place /\ OffsetBits \in Exponent \ {0} /\ OffsetBits \in Nat
      /\ OffsetBits - 1 \in Exponent \ {0} /\ OffsetBits - 2 \in Exponent \ {0}
      /\ OffsetBits - 3 \in Exponent \ {0} /\ OffsetBits - 4 \in Exponent
      /\ (OffsetBits - 1) - 1 = OffsetBits - 2 /\ (OffsetBits - 2) - 1 = OffsetBits - 3
      /\ (OffsetBits - 3) - 1 = OffsetBits - 4
  BY UtilAssumption, BranchAssumption DEF Exponent, Place
<1>2. /\ Pow2[OffsetBits] = 2 * Pow2[OffsetBits - 1]
      /\ Pow2[OffsetBits - 1] = 2 * Pow2[OffsetBits - 2]
      /\ Pow2[OffsetBits - 2] = 2 * Pow2[OffsetBits - 3]
      /\ Pow2[OffsetBits - 3] = 2 * Pow2[OffsetBits - 4]
      /\ Pow2[OffsetBits - 1] \in Nat \ {0} /\ Pow2[OffsetBits - 2] \in Nat \ {0}
      /\ Pow2[OffsetBits - 3] \in Nat \ {0} /\ Pow2[OffsetBits - 4] \in Nat \ {0}
  BY <1>1, Pow2Values
<1>3. Pow2[8] = 256 /\ Pow2[Bits] = Pow2[OffsetBits] * Pow2[8]
  <2>1. /\ 1 \in Exponent /\ 2 \in Exponent /\ 3 \in Exponent /\ 4 \in Exponent
        /\ 8 \in Exponent /\ Bits \in Exponent /\ Bits = OffsetBits + 8
    BY UtilAssumption, BranchAssumption DEF Exponent
  <2>2. 1 + 1 = 2 /\ 2 + 2 = 4 /\ 4 + 4 = 8
    OBVIOUS
  <2>3. Pow2[1 + 1] = Pow2[1] * Pow2[1] /\ Pow2[1] = 2
    BY <2>1, <2>2, Pow2Sum, Pow2Values
  <2>4. Pow2[2 + 2] = Pow2[2] * Pow2[2]
    BY <2>1, <2>2, Pow2Sum
  <2>5. Pow2[4 + 4] = Pow2[4] * Pow2[4]
    BY <2>1, <2>2, Pow2Sum
  <2>6. Pow2[2] = 4
    BY <2>2, <2>3
  <2>7. Pow2[4] = 16
    BY <2>2, <2>4, <2>6
  <2>8. Pow2[8] = 256
    BY <2>2, <2>5, <2>7
  <2>9. Pow2[OffsetBits + 8] = Pow2[OffsetBits] * Pow2[8]
    BY <1>1, <2>1, Pow2Sum
  <2> QED
    BY <2>1, <2>8, <2>9
<1>4. Pow2[Bits] >= 4096
  <2> DEFINE P == Pow2[OffsetBits]
  <2>1. P \in Nat /\ P >= 16
    BY <1>2
  <2> HIDE DEF P
  <2>2. Pow2[Bits] = 256 * P
    BY <1>3, <2>1 DEF P
  <2> QED
    BY <2>1, <2>2
<1> QED
  BY <1>1, <1>2, <1>4

\* A negative offset has its top bit set and is its low bits below it.
LEMMA NegativeOffset ==
    ASSUME NEW h \in Nat, NEW o \in -Pow2[OffsetBits - 1] .. -1
    PROVE  LET ins == h * Pow2[OffsetBits] + Offset(o)
           IN  /\ ins \in Nat
               /\ get_bit(ins, OffsetBits - 1) = 1
               /\ ins % Pow2[OffsetBits - 1] = o + Pow2[OffsetBits - 1]
<1> DEFINE d == Pow2[OffsetBits - 1]
           P == Pow2[OffsetBits]
           ins == h * P + Offset(o)
<1>1. d \in Nat \ {0} /\ P = 2 * d /\ P \in Nat \ {0} /\ o \in -d .. -1 /\ o \in Int
  BY OffsetWidth
<1>2. Offset(o) = o + P
  <2>1. o \in -P .. -1
    BY <1>1
  <2> HIDE DEF P
  <2>2. o % P = o + P
    BY <1>1, <2>1, Modulo
  <2> QED
    BY <2>2 DEF Offset, P
<1> HIDE DEF d, P
<1> DEFINE q == 2 * h + 1
           r == o + d
<1>3. ins = q * d + r
  <2>1. h * P = (2 * h) * d /\ (2 * h) * d \in Nat
    BY <1>1
  <2>2. (2 * h + 1) * d = (2 * h) * d + d
    BY <1>1
  <2> QED
    BY <1>1, <1>2, <2>1, <2>2
<1>4. q \in Nat /\ q % 2 = 1 /\ r \in 0 .. d - 1 /\ q * d \in Nat
  BY <1>1
<1>5. ins \in Nat /\ ins \in Int
  BY <1>3, <1>4
<1> HIDE DEF ins, q, r
<1>6. ins \div d = q /\ ins % d = r
  BY <1>1, <1>3, <1>4, <1>5, Division
<1>7. get_bit(ins, OffsetBits - 1) = 1
  BY <1>4, <1>6 DEF get_bit, d
<1> QED
  BY <1>5, <1>6, <1>7 DEF ins, r, d, P

\* The mask ~0 << (OffsetBits - 1).
LEMMA Mask ==
    Wrap(MaxWord * Pow2[OffsetBits - 1]) = Pow2[Bits] - Pow2[OffsetBits - 1]
<1> DEFINE M == Pow2[Bits]
           d == Pow2[OffsetBits - 1]
           x == MaxWord * d
           q == d - 1
           r == M - d
<1>1. M \in Nat \ {0} /\ d \in Nat \ {0} /\ MaxWord = M - 1 /\ d <= M
  <2>1. OffsetBits - 1 \in Exponent /\ Bits - (OffsetBits - 1) \in Exponent
        /\ (OffsetBits - 1) + (Bits - (OffsetBits - 1)) = Bits /\ Bits \in Exponent
    BY UtilAssumption, BranchAssumption DEF Exponent
  <2> DEFINE g == Pow2[Bits - (OffsetBits - 1)]
  <2>2. M = d * g /\ g \in Nat \ {0}
    BY <2>1, Pow2Sum, Pow2Values
  <2>3. M \in Nat \ {0} /\ d \in Nat \ {0} /\ MaxWord = M - 1
    BY Width, OffsetWidth DEF MaxWord
  <2> HIDE DEF M, d, g
  <2>4. d <= d * g
    BY <2>2, <2>3
  <2> QED
    BY <2>2, <2>3, <2>4
<1> HIDE DEF M, d
<1>2. x = q * M + r /\ x \in Int /\ q \in Int /\ r \in 0 .. M - 1
  <2>1. (M - 1) * d = M * d - d /\ (d - 1) * M = M * d - M /\ M * d \in Int
    BY <1>1
  <2> QED
    BY <1>1, <2>1
<1> HIDE DEF x, q, r
<1>3. x % M = r
  BY <1>1, <1>2, Division
<1> QED
  BY <1>3 DEF Wrap, x, r, M, d

\* A branch backwards goes where its offset says, and links the instruction
\* after it.
LEMMA BackwardBranch ==
    ASSUME NEW k \in Machine, Cleared(k.reg[PC]), NEW i,
           i.cond \in {"AL", "NE"}, i.link \in BOOLEAN,
           i.offset \in -Pow2[OffsetBits - 1] .. -1
    PROVE  arm_branch(k, i) =
               IF ConditionPassed(k, i.cond)
               THEN arm_write_register(
                        IF i.link THEN arm_write_register(k, LR, k.reg[PC]) ELSE k,
                        PC, Wrap(k.reg[PC] + 4 + 4 * i.offset))
               ELSE k
<1> DEFINE M == Pow2[Bits]
           d == Pow2[OffsetBits - 1]
           o == i.offset
           v == k.reg[PC]
           pc == arm_read_register(k, PC)
           h == CondCode[i.cond] * 16 + 10 + Bit(i.link)
           ins == Encoded(i)
           val == ins | Wrap(MaxWord * Pow2[OffsetBits - 1])
<1>1. M \in Nat \ {0} /\ d \in Nat \ {0} /\ o \in Int /\ OffsetBits - 1 \in Place
  BY Width, OffsetWidth
<1>2. h \in Nat
  BY DEF CondCode, Bit
<1>3. /\ ins \in Nat /\ get_bit(ins, OffsetBits - 1) = 1 /\ ins % d = o + d
  <2>1. ins = h * Pow2[OffsetBits] + Offset(o)
    BY DEF Encoded
  <2> HIDE DEF h, ins, o, d
  <2>2. o \in -Pow2[OffsetBits - 1] .. -1
    BY DEF o
  <2>3. LET e == h * Pow2[OffsetBits] + Offset(o)
        IN  /\ e \in Nat
            /\ get_bit(e, OffsetBits - 1) = 1
            /\ e % Pow2[OffsetBits - 1] = o + Pow2[OffsetBits - 1]
    BY <1>2, <2>2, NegativeOffset
  <2> QED
    BY <2>1, <2>3 DEF d
<1>4. val = M + o
  <2>1. val = (ins % d) + (M - d)
    <3> HIDE DEF ins
    <3> QED
      BY <1>1, <1>3, Mask, OrMask
  <2> HIDE DEF val, ins, d, M, o
  <2> QED
    BY <1>1, <1>3, <2>1
<1>5. v \in Word /\ v \in Int /\ k.reg \in Registers
  <2>1. v \in Word /\ k.reg \in Registers
    BY RegisterNumbers DEF Machine, Registers
  <2> QED
    BY <2>1, WordInt
<1>6. pc = Wrap(v + 4)
  BY <1>5, ReadPc
<1>7. Wrap(pc - 4) = v
  <2>1. Fetches(k) = v
    BY <1>5, FetchesPc
  <2> QED
    BY <2>1 DEF Fetches
<1>8. Wrap(pc + Wrap(4 * val)) = Wrap(v + 4 + 4 * o)
  <2> HIDE DEF val, pc, v, o, M
  <2> DEFINE x == 4 * o
             y == v + 4
             w == Wrap(x)
  <2>1. x \in Int /\ y \in Int /\ 4 * val = x + 4 * M
    BY <1>1, <1>4, <1>5
  <2>2. Wrap(4 * val) = w
    <3> HIDE DEF x
    <3>1. (x + 4 * M) % M = x % M
      <4>1. \A e \in Nat \ {0}, z \in Int, t \in Int : (z + t * e) % e = z % e
        BY DropMultiple
      <4>2. 4 \in Int
        OBVIOUS
      <4> QED
        BY <1>1, <2>1, <4>1, <4>2, Zenon
    <3> QED
      BY <2>1, <3>1 DEF Wrap, M
  <2>3. w \in Int /\ Wrap(y) \in Int
    <3> HIDE DEF x, y
    <3>1. w \in Word /\ Wrap(y) \in Word
      BY <2>1, WrapWord
    <3> QED
      BY <3>1, WordInt
  <2>4. Wrap(Wrap(y) + w) = Wrap(y + w) /\ Wrap(Wrap(x) + y) = Wrap(x + y)
    <3> HIDE DEF x, y, w
    <3>1. Wrap(Wrap(y) + w) = Wrap(y + w)
      BY <2>1, <2>3, WrapTwice
    <3>2. Wrap(Wrap(x) + y) = Wrap(x + y)
      BY <2>1, WrapTwice
    <3> QED
      BY <3>1, <3>2
  <2>5. pc = Wrap(y)
    BY <1>6
  <2> HIDE DEF w
  <2>6. y + w = w + y /\ x + y = v + 4 + 4 * o
    BY <1>1, <1>5, <2>1, <2>3
  <2> HIDE DEF x, y
  <2> QED
    BY <2>2, <2>4, <2>5, <2>6 DEF w
<1>9. arm_branch(k, i) =
        LET linked == IF i.link THEN arm_write_register(k, LR, Wrap(pc - 4)) ELSE k
        IN  IF ConditionPassed(k, i.cond)
            THEN arm_write_register(linked, PC, Wrap(pc + Wrap(4 * val))) ELSE k
  <2> HIDE DEF ins, d
  <2> QED
    BY <1>3 DEF arm_branch, ins
<1> HIDE DEF val, pc
<1> QED
  BY <1>7, <1>8, <1>9

-----------------------------------------------------------------------------
(***************************************************************************)
(* A call and its return                                                   *)
(***************************************************************************)
LEMMA Link == LR \in RegNo /\ LR # PC /\ LR # 0 /\ LR \in Nat
  BY InstructionAssumption DEF LR, RegNo

\* An instruction whose operand has one value has one outcome.
LEMMA OneOutcome ==
    ASSUME NEW k \in Machine, NEW i, NEW b, i.cond = "AL", i.rn = 0,
           decode_operand(k, i.operand) = {b}
    PROVE  arm_data_processing_shift(k, i) = {Operate(k, i, k.reg[0], b)}
<1>1. arm_read_register(k, 0) = k.reg[0]
  BY RegisterNumbers DEF arm_read_register
<1>2. ConditionPassed(k, "AL")
  BY DEF ConditionPassed
<1> QED
  BY <1>1, <1>2 DEF arm_data_processing_shift

\* MOV pc, lr.
LEMMA ReturnOutcome ==
    ASSUME NEW k \in Machine
    PROVE  arm_data_processing_shift(k, MovPcLr) = {arm_write_register(k, PC, k.reg[LR])}
<1> DEFINE i == MovPcLr
           b == k.reg[LR]
<1>1. /\ i.cond = "AL" /\ i.op = "MOV" /\ i.s = FALSE /\ i.rn = 0 /\ i.rd = PC
      /\ i.operand.kind = "shift" /\ i.operand.rm = LR
      /\ i.operand.type = 0 /\ i.operand.count = 0
  BY DEF MovPcLr, Data
<1> HIDE DEF i
<1>2. b \in Word /\ b \in Int
  <2>1. b \in Word
    BY Link DEF Machine
  <2> QED
    BY <2>1, WordInt
<1>3. arm_read_register(k, LR) = b
  BY Link DEF arm_read_register
<1> HIDE DEF b
<1>4. decode_operand(k, i.operand) = {b}
  <2>1. decode_operand(k, i.operand) = Shifted(b, 0, 0)
    BY <1>1, <1>3 DEF decode_operand
  <2>2. Shifted(b, 0, 0) = {Wrap(b * Pow2[0])}
    BY UtilAssumption DEF Shifted, ShiftLeft
  <2>3. b * Pow2[0] = b
    BY <1>2, Pow2Values
  <2>4. Wrap(b) = b
    BY <1>2, WrapWord
  <2> QED
    BY <2>1, <2>2, <2>3, <2>4
<1>5. arm_data_processing_shift(k, i) = {Operate(k, i, k.reg[0], b)}
  BY <1>1, <1>4, OneOutcome
<1>6. Operate(k, i, k.reg[0], b) = arm_write_register(k, PC, b)
  BY <1>1 DEF Operate, arm_mov
<1> QED
  BY <1>5, <1>6 DEF i, b

LEMMA MachineRegisters == ASSUME NEW k \in Machine PROVE k.reg \in Registers
  BY DEF Machine, Registers

LEMMA Returns == Typed => CallReturns
<1> SUFFICES ASSUME m \in Machine, NEW o \in -(Pow2[OffsetBits - 1]) .. -1
             PROVE  LET called == arm_branch(arm_fetch(m),
                                             [cond |-> "AL", link |-> TRUE, offset |-> o])
                        a == FetchAddress
                    IN  /\ Fetches(called) = Wrap(a + 8 + 4 * o)
                        /\ \A k \in arm_data_processing_shift(arm_fetch(called), MovPcLr) :
                                Fetches(k) = Wrap(a + 4)
  BY DEF Typed, CallReturns, Fetches
<1> DEFINE f == arm_fetch(m)
           i == [cond |-> "AL", link |-> TRUE, offset |-> o]
           v == f.reg[PC]
           called == arm_branch(f, i)
           a == FetchAddress
           t == Wrap(v + 4 + 4 * o)
           l == arm_write_register(f, LR, v)
<1>1. f \in Machine /\ Cleared(v) /\ v = arm_read_register(m, PC)
  BY FetchedPc
<1>2. a = Wrap(v - 4)
  BY <1>1 DEF FetchAddress
<1>3. v \in Word /\ v \in Int /\ o \in Int
  <2>1. v \in Word
    BY <1>1, RegisterNumbers DEF Machine
  <2> QED
    BY <2>1, WordInt, OffsetWidth
<1> HIDE DEF f, a
<1>4. called = arm_write_register(l, PC, t)
  <2>1. /\ i.cond \in {"AL", "NE"} /\ i.link \in BOOLEAN
        /\ i.offset \in -Pow2[OffsetBits - 1] .. -1
    OBVIOUS
  <2>2. i.cond = "AL" /\ i.link = TRUE /\ i.offset = o
    OBVIOUS
  <2>3. ConditionPassed(f, "AL")
    BY DEF ConditionPassed
  <2> HIDE DEF i
  <2>4. arm_branch(f, i) =
            IF ConditionPassed(f, i.cond)
            THEN arm_write_register(IF i.link THEN arm_write_register(f, LR, f.reg[PC]) ELSE f,
                                    PC, Wrap(f.reg[PC] + 4 + 4 * i.offset))
            ELSE f
    BY <1>1, <2>1, BackwardBranch
  <2> QED
    BY <2>3, <2>4, <2>2
<1>5. t \in Word /\ Cleared(t)
  <2> DEFINE y == 1 + o
             z == v + 4 * y
  <2>1. v + 4 + 4 * o = z /\ z \in Int /\ y \in Int
    BY <1>3
  <2>2. Cleared(z)
    <3> HIDE DEF y
    <3> QED
      BY <1>1, <1>3, <2>1, ClearedSteps
  <2> HIDE DEF z
  <2> QED
    BY <2>1, <2>2, WrapWord, ClearedSteps
<1>6. Wrap(a + 8 + 4 * o) = t
  <2> DEFINE x == v - 4
             y == 8 + 4 * o
  <2>1. x \in Int /\ y \in Int /\ x + y = v + 4 + 4 * o
    BY <1>3
  <2>2. Wrap(Wrap(x) + y) = Wrap(x + y) /\ Wrap(x) \in Int
    <3> HIDE DEF x, y
    <3>1. Wrap(x) \in Word
      BY <2>1, WrapWord
    <3> QED
      BY <2>1, <3>1, WrapTwice, WordInt
  <2>3. a = Wrap(x) /\ a \in Int
    BY <1>2, <2>2
  <2>4. a + 8 + 4 * o = a + y
    BY <1>3, <2>3
  <2> HIDE DEF x, y
  <2> QED
    BY <2>1, <2>2, <2>3, <2>4
<1>7. Wrap(a + 4) = v
  <2> DEFINE x == v - 4
  <2>1. x \in Int /\ x + 4 = v
    BY <1>3
  <2> HIDE DEF x
  <2>2. Wrap(Wrap(x) + 4) = Wrap(x + 4)
    BY <2>1, WrapTwice
  <2>3. Wrap(v) = v
    BY <1>3, WrapWord
  <2> QED
    BY <1>2, <2>1, <2>2, <2>3 DEF x
<1> HIDE DEF t, v, l
<1>8. l \in Machine /\ l.reg[LR] = v
  BY <1>1, <1>3, Link, WriteMachine DEF l
<1>9. called \in Machine /\ called.reg[PC] = t /\ called.reg[LR] = v
  <2>1. /\ arm_write_register(l, PC, t) \in Machine
        /\ arm_write_register(l, PC, t).reg[PC] = t
        /\ arm_write_register(l, PC, t).reg[LR] = l.reg[LR]
    BY <1>5, <1>8, RegisterNumbers, Link, WriteMachine
  <2> QED
    BY <1>4, <1>8, <2>1
<1> HIDE DEF called
<1>10. Fetches(called) = t
  BY <1>5, <1>9, MachineRegisters, FetchesPc
<1>11. ASSUME NEW k \in arm_data_processing_shift(arm_fetch(called), MovPcLr)
       PROVE  Fetches(k) = v
  <2> DEFINE g == arm_fetch(called)
  <2>1. g \in Machine /\ g.reg[LR] = v
    BY <1>9, FetchedPc, Link
  <2> HIDE DEF g
  <2>2. k = arm_write_register(g, PC, v)
    BY <2>1, ReturnOutcome DEF g
  <2>3. k \in Machine /\ k.reg[PC] = v
    BY <1>3, <2>1, <2>2, RegisterNumbers, WriteMachine
  <2> QED
    BY <1>1, <2>3, MachineRegisters, FetchesPc
<1> QED
  BY <1>6, <1>7, <1>10, <1>11 DEF called, a, f

-----------------------------------------------------------------------------
(***************************************************************************)
(* The loop                                                                *)
(***************************************************************************)
\* How often decr will be called.
Rounds == IF count = 0 THEN Pow2[Bits] ELSE count

\* What the program has done when it comes to an instruction: the counter is
\* what is left of the rounds, and inside decr the link leads behind the call.
LoopInv ==
    LET pc == m.reg[PC]
        left == m.reg[0]
    IN  /\ Typed /\ count \in Counts /\ calls \in Nat /\ halted \in BOOLEAN
        /\ pc \in {0, 4, 8, 12, 16, 20, 24}
        /\ halted <=> pc = 24
        /\ pc = 8 => calls = 0
        /\ pc \in {0, 12} => calls < Rounds /\ left = Wrap(Rounds - calls)
        /\ pc \in {4, 16} => /\ calls \in 1 .. Rounds /\ left = Rounds - calls
                             /\ m.Z = Bit(left = 0)
        /\ pc \in {0, 4} => m.reg[LR] = 16
        /\ pc \in {20, 24} => calls = Rounds /\ left = 0

LEMMA RoundsType ==
    ASSUME count \in Counts
    PROVE  /\ Rounds \in Nat /\ 1 <= Rounds /\ Rounds <= Pow2[Bits]
           /\ count \in Word /\ Wrap(Rounds) = count /\ Pow2[Bits] \in Nat
<1>1. count \in 0 .. Pow2[ByteBits] - 1
  BY BranchAssumption
<1>2. count \in Word /\ count \in Nat /\ count < Pow2[Bits] /\ Pow2[Bits] \in Nat
      /\ Pow2[Bits] >= 1
  BY <1>1, Width DEF Word
<1>3. CASE count = 0
  <2>1. Rounds = Pow2[Bits] /\ Pow2[Bits] \in Int
    BY <1>2, <1>3 DEF Rounds
  <2>2. Pow2[Bits] \in Pow2[Bits] .. 2 * Pow2[Bits] - 1
    BY <1>2
  <2>3. Wrap(Pow2[Bits]) = Pow2[Bits] - Pow2[Bits]
    BY <2>1, <2>2, WrapWord
  <2> QED
    BY <1>2, <1>3, <2>1, <2>3
<1>4. CASE count # 0
  <2>1. Wrap(count) = count
    BY <1>2, WrapWord
  <2> QED
    BY <1>2, <1>4, <2>1 DEF Rounds
<1> QED
  BY <1>3, <1>4

\* The pc advances by four before the instruction is executed.
LEMMA FetchedAt ==
    ASSUME m \in Machine, m.reg[PC] \in {0, 4, 8, 12, 16, 20, 24}
    PROVE  /\ FetchAddress = m.reg[PC]
           /\ arm_fetch(m) \in Machine /\ Cleared(arm_fetch(m).reg[PC])
           /\ arm_fetch(m).reg[PC] = m.reg[PC] + 4
           /\ \A r \in RegNo \ {PC} : arm_fetch(m).reg[r] = m.reg[r]
           /\ SameFlags(arm_fetch(m), m)
<1> DEFINE a == m.reg[PC]
<1>1. Cleared(a) /\ m.reg \in Registers
  BY MachineRegisters DEF Cleared
<1>2. FetchAddress = a
  BY <1>1, FetchesPc DEF FetchAddress, Fetches
<1>3. arm_read_register(m, PC) = Wrap(a + 4)
  BY <1>1, ReadPc
<1>4. a + 4 \in Word /\ a + 4 \in Int
  BY OffsetWidth, Width DEF Word
<1>5. Wrap(a + 4) = a + 4
  <2> DEFINE x == a + 4
  <2> HIDE DEF x
  <2>1. Wrap(x) = x
    BY <1>4, WrapWord DEF x
  <2> QED
    BY <2>1 DEF x
<1> QED
  BY <1>2, <1>3, <1>5, FetchedPc

\* The two data processing instructions with an immediate.
LEMMA ImmediateOutcome ==
    ASSUME NEW k \in Machine, NEW v \in Word
    PROVE  /\ arm_data_processing_shift(k, Data("MOV", FALSE, 0, Immediate(v))) =
                {arm_write_register(k, 0, v)}
           /\ arm_data_processing_shift(k, Data("SUB", TRUE, 0, Immediate(v))) =
                {arm_write_register(arm_cmp(k, k.reg[0], v, k.C), 0, Wrap(k.reg[0] - v))}
<1>1. ASSUME NEW op, NEW s
      PROVE  arm_data_processing_shift(k, Data(op, s, 0, Immediate(v))) =
                {Operate(k, Data(op, s, 0, Immediate(v)), k.reg[0], v)}
  <2> DEFINE i == Data(op, s, 0, Immediate(v))
  <2>1. /\ i.cond = "AL" /\ i.rn = 0 /\ i.operand.kind = "immediate"
        /\ i.operand.imm = v /\ i.operand.rot = 0
    BY DEF Data, Immediate
  <2> HIDE DEF i
  <2>2. decode_operand(k, i.operand) = {v}
    BY <2>1 DEF decode_operand, apply_rotation_imm
  <2>3. arm_data_processing_shift(k, i) = {Operate(k, i, k.reg[0], v)}
    BY <2>1, <2>2, OneOutcome
  <2> QED
    BY <2>3 DEF i
<1>2. Operate(k, Data("MOV", FALSE, 0, Immediate(v)), k.reg[0], v) = arm_write_register(k, 0, v)
  BY DEF Operate, Data, arm_mov
<1>3. Operate(k, Data("SUB", TRUE, 0, Immediate(v)), k.reg[0], v) =
        arm_write_register(arm_cmp(k, k.reg[0], v, k.C), 0, Wrap(k.reg[0] - v))
  BY DEF Operate, Data, FlagsOf, ResultOf
<1> QED
  BY <1>1, <1>2, <1>3

LEMMA LoopStarts == Start => LoopInv
<1> SUFFICES ASSUME Start PROVE LoopInv
  OBVIOUS
<1>1. 8 \in Word /\ 0 \in Word
  BY OffsetWidth, Width DEF Word
<1>2. m \in Machine
  BY <1>1 DEF Start, Machine
<1>3. m.reg[PC] = 8
  BY RegisterNumbers DEF Start
<1>4. count \in Counts /\ calls \in Nat /\ calls = 0 /\ halted \in BOOLEAN /\ ~halted
  BY DEF Start
<1>5. /\ m.reg[PC] \in {0, 4, 8, 12, 16, 20, 24} \ {24}
      /\ m.reg[PC] \notin {0, 12} /\ m.reg[PC] \notin {4, 16} /\ m.reg[PC] \notin {0, 4}
      /\ m.reg[PC] \notin {20, 24}
  BY <1>3
<1> QED
  BY <1>2, <1>4, <1>5 DEF LoopInv, Typed

\* Counting calls never reaches the cap.
LEMMA CountedBelow ==
    ASSUME NEW n \in Nat, n <= Pow2[Bits]
    PROVE  Counted(n) = n
  BY Width DEF Counted

\* subs r0, r0, #1.
LEMMA SubsStep ==
    ASSUME LoopInv, ~halted, Executes(0, Data("SUB", TRUE, 0, Immediate(1)), 1)
    PROVE  LoopInv'
<1> DEFINE f == arm_fetch(m)
           left == m.reg[0]
           l == arm_cmp(f, left, 1, f.C)
           next == Wrap(left - 1)
<1>1. /\ m \in Machine /\ count \in Counts /\ calls \in Nat
      /\ m.reg[PC] \in {0, 4, 8, 12, 16, 20, 24}
  BY DEF LoopInv, Typed
<1>2. FetchAddress = m.reg[PC] /\ f \in Machine /\ f.reg[PC] = m.reg[PC] + 4
      /\ (\A r \in RegNo \ {PC} : f.reg[r] = m.reg[r])
  BY <1>1, FetchedAt
<1>3. m.reg[PC] = 0 /\ f.reg[PC] = 4 /\ f.reg[0] = left /\ f.reg[LR] = 16
  BY <1>2, RegisterNumbers, Link DEF Executes, LoopInv
<1>4. calls < Rounds /\ left = Wrap(Rounds - calls)
  BY <1>3 DEF LoopInv
<1> HIDE DEF f
<1>5. left \in Word /\ 1 \in Word /\ f.C \in {0, 1}
  BY <1>1, <1>2, WordConstants, RegisterNumbers DEF Machine
<1>6. m' = arm_write_register(l, 0, next)
  <2>1. arm_data_processing_shift(f, Data("SUB", TRUE, 0, Immediate(1))) =
            {arm_write_register(arm_cmp(f, f.reg[0], 1, f.C), 0, Wrap(f.reg[0] - 1))}
    BY <1>2, <1>5, ImmediateOutcome
  <2> QED
    BY <1>3, <2>1 DEF Executes, f
<1>7. l \in Machine /\ l.reg = f.reg /\ l.Z = Bit(left = 1)
  <2>1. l \in Machine /\ l.reg = f.reg
    BY <1>2, <1>5, CompareMachine
  <2>2. l.Z = Bit(left = 1)
    BY <1>2, <1>5, CmpFlags
  <2> QED
    BY <2>1, <2>2
<1>8. /\ Rounds \in Nat /\ 1 <= Rounds /\ Rounds <= Pow2[Bits] /\ Pow2[Bits] \in Nat
  BY <1>1, RoundsType
<1>9. next = Rounds - (calls + 1) /\ next \in Word
  <2> DEFINE x == Rounds - calls
             y == Rounds - (calls + 1)
  <2>1. x \in Int /\ y \in Word /\ y \in Int /\ x + (-1) = y
    BY <1>1, <1>4, <1>8 DEF Word
  <2>2. left - 1 = Wrap(x) + (-1)
    BY <1>4, <1>5, WordInt
  <2> HIDE DEF x, y
  <2>3. Wrap(Wrap(x) + (-1)) = Wrap(x + (-1))
    BY <2>1, WrapTwice
  <2>4. Wrap(y) = y
    BY <2>1, WrapWord
  <2> QED
    BY <2>1, <2>2, <2>3, <2>4 DEF y
<1>10. next = 0 <=> left = 1
  <2>1. left \in Nat /\ left < Pow2[Bits]
    BY <1>5, WordInt
  <2>2. CASE left = 0
    <3>1. left - 1 \in -Pow2[Bits] .. -1 /\ left - 1 \in Int
      BY <1>8, <2>2
    <3>2. next = left - 1 + Pow2[Bits]
      BY <3>1, WrapWord
    <3>3. Pow2[Bits] >= 8
      BY Width
    <3> QED
      BY <1>8, <2>2, <3>2, <3>3
  <2>3. CASE left # 0
    <3>1. left - 1 \in Word /\ left - 1 \in Int
      BY <1>8, <2>1, <2>3 DEF Word
    <3>2. next = left - 1
      BY <3>1, WrapWord
    <3> QED
      BY <2>1, <3>2
  <2> QED
    BY <2>2, <2>3
<1> HIDE DEF l, next
<1>11. /\ m' \in Machine /\ m'.reg[PC] = 4 /\ m'.reg[LR] = 16 /\ m'.reg[0] = next
       /\ m'.Z = Bit(left = 1)
  <2>1. /\ arm_write_register(l, 0, next) \in Machine
        /\ \A q \in RegNo \ {0} : arm_write_register(l, 0, next).reg[q] = l.reg[q]
        /\ arm_write_register(l, 0, next).reg[0] = next
        /\ arm_write_register(l, 0, next).Z = l.Z
    BY <1>7, <1>9, RegisterNumbers, WriteMachine
  <2> QED
    BY <1>3, <1>6, <1>7, <2>1, RegisterNumbers, Link
<1>12. calls' = calls + 1 /\ count' = count /\ halted' = halted
  <2>1. calls + 1 \in Nat /\ calls + 1 <= Pow2[Bits]
    BY <1>1, <1>4, <1>8
  <2>2. calls' = Counted(calls + 1) /\ count' = count /\ halted' = halted
    BY DEF Executes
  <2> DEFINE n == calls + 1
  <2> HIDE DEF n
  <2>3. Counted(n) = n
    BY <2>1, CountedBelow DEF n
  <2> QED
    BY <2>2, <2>3 DEF n
<1>13. Rounds' = Rounds
  BY <1>12 DEF Rounds
<1>14. m'.Z = Bit(next = 0)
  BY <1>10, <1>11 DEF Bit
<1>15. calls + 1 \in 1 .. Rounds /\ calls + 1 \in Nat
  BY <1>1, <1>4, <1>8
<1> QED
  BY <1>1, <1>9, <1>11, <1>12, <1>13, <1>14, <1>15 DEF LoopInv, Typed

\* mov pc, lr.
LEMMA ReturnStep ==
    ASSUME LoopInv, ~halted, Executes(4, MovPcLr, 0)
    PROVE  LoopInv'
<1> DEFINE f == arm_fetch(m)
<1>1. /\ m \in Machine /\ count \in Counts /\ calls \in Nat
      /\ m.reg[PC] \in {0, 4, 8, 12, 16, 20, 24}
  BY DEF LoopInv, Typed
<1>2. FetchAddress = m.reg[PC] /\ f \in Machine
      /\ (\A r \in RegNo \ {PC} : f.reg[r] = m.reg[r]) /\ SameFlags(f, m)
  BY <1>1, FetchedAt
<1>3. m.reg[PC] = 4 /\ f.reg[0] = m.reg[0] /\ f.reg[LR] = 16 /\ f.Z = m.Z
  BY <1>2, RegisterNumbers, Link DEF Executes, LoopInv, SameFlags
<1>4. calls \in 1 .. Rounds /\ m.reg[0] = Rounds - calls /\ m.Z = Bit(m.reg[0] = 0)
  BY <1>3 DEF LoopInv
<1> HIDE DEF f
<1>5. m' = arm_write_register(f, PC, 16)
  BY <1>2, <1>3, ReturnOutcome DEF Executes, f
<1>6. 16 \in Word
  BY OffsetWidth, Width DEF Word
<1>7. m' \in Machine /\ m'.reg[PC] = 16 /\ m'.reg[0] = m.reg[0] /\ m'.Z = m.Z
  BY <1>2, <1>3, <1>5, <1>6, RegisterNumbers, WriteMachine
<1>8. calls' = calls /\ count' = count /\ halted' = halted
  <2>1. Rounds <= Pow2[Bits] /\ Rounds \in Nat /\ Pow2[Bits] \in Nat
    BY <1>1, RoundsType
  <2>2. calls' = Counted(calls + 0) /\ count' = count /\ halted' = halted /\ calls + 0 = calls
    BY <1>1 DEF Executes
  <2>3. Counted(calls) = calls
    BY <1>1, <1>4, <2>1, CountedBelow
  <2> QED
    BY <2>2, <2>3
<1>9. Rounds' = Rounds
  BY <1>8 DEF Rounds
<1>10. m'.Z = Bit(m'.reg[0] = 0) /\ m'.reg[0] = Rounds' - calls' /\ calls' \in 1 .. Rounds'
  BY <1>4, <1>7, <1>8, <1>9
<1> QED
  BY <1>1, <1>7, <1>8, <1>10 DEF LoopInv, Typed

\* mov r0, #count.
LEMMA MovStep ==
    ASSUME LoopInv, ~halted, Executes(8, Data("MOV", FALSE, 0, Immediate(count)), 0)
    PROVE  LoopInv'
<1> DEFINE f == arm_fetch(m)
<1>1. /\ m \in Machine /\ count \in Counts
      /\ m.reg[PC] \in {0, 4, 8, 12, 16, 20, 24}
  BY DEF LoopInv, Typed
<1>2. FetchAddress = m.reg[PC] /\ f \in Machine /\ f.reg[PC] = m.reg[PC] + 4
  BY <1>1, FetchedAt
<1>3. m.reg[PC] = 8 /\ f.reg[PC] = 12
  BY <1>2 DEF Executes
<1>4. calls = 0
  BY <1>3 DEF LoopInv
<1> HIDE DEF f
<1>5. /\ Rounds \in Nat /\ 1 <= Rounds /\ count \in Word /\ Wrap(Rounds) = count
  BY <1>1, RoundsType
<1>6. m' = arm_write_register(f, 0, count)
  <2>1. arm_data_processing_shift(f, Data("MOV", FALSE, 0, Immediate(count))) =
            {arm_write_register(f, 0, count)}
    BY <1>2, <1>5, ImmediateOutcome
  <2> QED
    BY <2>1 DEF Executes, f
<1>7. m' \in Machine /\ m'.reg[PC] = 12 /\ m'.reg[0] = count
  BY <1>2, <1>3, <1>5, <1>6, RegisterNumbers, WriteMachine
<1>8. calls' = 0 /\ count' = count /\ halted' = halted
  <2>1. calls' = Counted(0) /\ count' = count /\ halted' = halted
    BY <1>4 DEF Executes
  <2>2. Counted(0) = 0
    BY Width, CountedBelow
  <2> QED
    BY <2>1, <2>2
<1>9. Rounds' = Rounds /\ Rounds - 0 = Rounds
  BY <1>5, <1>8 DEF Rounds
<1> QED
  BY <1>1, <1>5, <1>7, <1>8, <1>9 DEF LoopInv, Typed

\* A backward branch of the program, taken or not.
LEMMA BranchStep ==
    ASSUME LoopInv, NEW a \in {12, 16}, NEW cond \in {"AL", "NE"}, NEW link \in BOOLEAN,
           NEW target \in {0, 12}, target < a, Branches(a, cond, link, target)
    PROVE  /\ m.reg[PC] = a /\ m' \in Machine /\ m'.reg[0] = m.reg[0]
           /\ calls' = calls /\ count' = count /\ halted' = halted
           /\ IF ConditionPassed(m, cond)
              THEN m'.reg[PC] = target /\ (link => m'.reg[LR] = a + 4)
              ELSE m'.reg[PC] = a + 4
<1> DEFINE f == arm_fetch(m)
           o == (target - a - 8) \div 4
           i == [cond |-> cond, link |-> link, offset |-> o]
           l == IF link THEN arm_write_register(f, LR, a + 4) ELSE f
<1>1. m \in Machine /\ m.reg[PC] \in {0, 4, 8, 12, 16, 20, 24}
  BY DEF LoopInv, Typed
<1>2. FetchAddress = m.reg[PC] /\ f \in Machine /\ Cleared(f.reg[PC])
      /\ f.reg[PC] = m.reg[PC] + 4
      /\ (\A r \in RegNo \ {PC} : f.reg[r] = m.reg[r]) /\ SameFlags(f, m)
  BY <1>1, FetchedAt
<1>3. m.reg[PC] = a /\ f.reg[PC] = a + 4 /\ f.reg[0] = m.reg[0]
  BY <1>2, RegisterNumbers DEF Branches
<1>4. o \in -8 .. -1 /\ (a + 4) + 4 + 4 * o = target
  OBVIOUS
<1>5. m' = arm_branch(f, i) /\ calls' = calls /\ count' = count /\ halted' = halted
  BY DEF Branches
<1> HIDE DEF f, o
<1>6. target \in Word /\ a + 4 \in Word /\ Wrap(target) = target
  <2>1. target \in Word /\ a + 4 \in Word /\ target \in Int
    BY OffsetWidth, Width DEF Word
  <2> QED
    BY <2>1, WrapWord
<1>7. m' = IF ConditionPassed(f, cond) THEN arm_write_register(l, PC, target) ELSE f
  <2>1. /\ i.cond \in {"AL", "NE"} /\ i.link \in BOOLEAN
        /\ i.offset \in -Pow2[OffsetBits - 1] .. -1
    BY <1>4, OffsetWidth
  <2>2. i.cond = cond /\ i.link = link /\ i.offset = o
    OBVIOUS
  <2> HIDE DEF i
  <2>3. arm_branch(f, i) =
            IF ConditionPassed(f, i.cond)
            THEN arm_write_register(IF i.link THEN arm_write_register(f, LR, f.reg[PC]) ELSE f,
                                    PC, Wrap(f.reg[PC] + 4 + 4 * i.offset))
            ELSE f
    BY <1>2, <2>1, BackwardBranch
  <2>4. Wrap(f.reg[PC] + 4 + 4 * i.offset) = target
    BY <1>3, <1>4, <1>6, <2>2
  <2> QED
    BY <1>3, <1>5, <2>2, <2>3, <2>4
<1>8. ConditionPassed(f, cond) <=> ConditionPassed(m, cond)
  BY <1>2 DEF ConditionPassed, SameFlags
<1>9. l \in Machine /\ l.reg[0] = m.reg[0] /\ (link => l.reg[LR] = a + 4)
  <2> DEFINE n == a + 4
             w == arm_write_register(f, LR, n)
  <2>1. n \in Word
    BY <1>6
  <2> HIDE DEF n
  <2>2. w \in Machine /\ w.reg[LR] = n /\ w.reg[0] = f.reg[0]
    BY <1>2, <2>1, RegisterNumbers, Link, WriteMachine
  <2>3. l = IF link THEN w ELSE f
    BY DEF n
  <2> HIDE DEF w, l
  <2> QED
    BY <1>2, <1>3, <2>2, <2>3 DEF n
<1> HIDE DEF l
<1>10. /\ arm_write_register(l, PC, target) \in Machine
       /\ arm_write_register(l, PC, target).reg[PC] = target
       /\ \A r \in RegNo \ {PC} : arm_write_register(l, PC, target).reg[r] = l.reg[r]
  BY <1>6, <1>9, RegisterNumbers, WriteMachine
<1>11. CASE ConditionPassed(m, cond)
  BY <1>3, <1>5, <1>7, <1>8, <1>9, <1>10, <1>11, RegisterNumbers, Link
<1>12. CASE ~ConditionPassed(m, cond)
  BY <1>2, <1>3, <1>5, <1>7, <1>8, <1>12
<1> QED
  BY <1>11, <1>12

\* bl decr.
LEMMA CallStep ==
    ASSUME LoopInv, ~halted, Branches(12, "AL", TRUE, 0)
    PROVE  LoopInv'
<1>1. /\ m.reg[PC] = 12 /\ m' \in Machine /\ m'.reg[0] = m.reg[0]
      /\ calls' = calls /\ count' = count /\ halted' = halted
      /\ IF ConditionPassed(m, "AL")
         THEN m'.reg[PC] = 0 /\ (TRUE => m'.reg[LR] = 12 + 4)
         ELSE m'.reg[PC] = 12 + 4
  <2>1. 12 \in {12, 16} /\ "AL" \in {"AL", "NE"} /\ TRUE \in BOOLEAN /\ 0 \in {0, 12} /\ 0 < 12
    OBVIOUS
  <2> QED
    BY <2>1, BranchStep, Zenon
<1>2. ConditionPassed(m, "AL")
  BY DEF ConditionPassed
<1>3. m'.reg[PC] = 0 /\ m'.reg[LR] = 16
  BY <1>1, <1>2
<1>4. /\ count \in Counts /\ calls \in Nat /\ halted \in BOOLEAN
      /\ calls < Rounds /\ m.reg[0] = Wrap(Rounds - calls)
  BY <1>1 DEF LoopInv
<1>5. Rounds' = Rounds
  BY <1>1 DEF Rounds
<1> QED
  BY <1>1, <1>3, <1>4, <1>5 DEF LoopInv, Typed

\* bne loop.
LEMMA LoopStep ==
    ASSUME LoopInv, ~halted, Branches(16, "NE", FALSE, 12)
    PROVE  LoopInv'
<1>1. /\ m.reg[PC] = 16 /\ m' \in Machine /\ m'.reg[0] = m.reg[0]
      /\ calls' = calls /\ count' = count /\ halted' = halted
      /\ IF ConditionPassed(m, "NE")
         THEN m'.reg[PC] = 12 /\ (FALSE => m'.reg[LR] = 16 + 4)
         ELSE m'.reg[PC] = 16 + 4
  <2>1. 16 \in {12, 16} /\ "NE" \in {"AL", "NE"} /\ FALSE \in BOOLEAN /\ 12 \in {0, 12}
        /\ 12 < 16
    OBVIOUS
  <2> QED
    BY <2>1, BranchStep, Zenon
<1>2. ConditionPassed(m, "NE") <=> m.Z = 0
  BY DEF ConditionPassed
<1>3. /\ count \in Counts /\ calls \in Nat /\ halted \in BOOLEAN
      /\ calls \in 1 .. Rounds /\ m.reg[0] = Rounds - calls
      /\ m.Z = Bit(m.reg[0] = 0)
  BY <1>1 DEF LoopInv
<1>4. Rounds' = Rounds
  BY <1>1 DEF Rounds
<1>5. Rounds \in Nat /\ Rounds <= Pow2[Bits] /\ Pow2[Bits] \in Nat
  BY <1>3, RoundsType
<1>6. CASE m.Z = 0
  <2>1. m'.reg[PC] = 12 /\ m.reg[0] # 0
    BY <1>1, <1>2, <1>3, <1>6 DEF Bit
  <2>2. calls < Rounds
    BY <1>3, <1>5, <2>1
  <2>3. Rounds - calls \in Word /\ Rounds - calls \in Int
    BY <1>3, <1>5 DEF Word
  <2>4. Wrap(Rounds - calls) = Rounds - calls
    BY <2>3, WrapWord
  <2> QED
    BY <1>1, <1>3, <1>4, <2>1, <2>2, <2>4 DEF LoopInv, Typed
<1>7. CASE m.Z # 0
  <2>1. m'.reg[PC] = 20 /\ m.reg[0] = 0
    BY <1>1, <1>2, <1>3, <1>7 DEF Bit
  <2>2. calls = Rounds
    BY <1>3, <1>5, <2>1
  <2> QED
    BY <1>1, <1>3, <1>4, <2>1, <2>2 DEF LoopInv, Typed
<1> QED
  BY <1>6, <1>7

\* swi 0x123456.
LEMMA SwiStep ==
    ASSUME LoopInv, ~halted, swi
    PROVE  LoopInv'
<1> DEFINE f == arm_fetch(m)
<1>1. m \in Machine /\ m.reg[PC] \in {0, 4, 8, 12, 16, 20, 24}
  BY DEF LoopInv, Typed
<1>2. FetchAddress = m.reg[PC] /\ f \in Machine /\ f.reg[PC] = m.reg[PC] + 4
      /\ (\A r \in RegNo \ {PC} : f.reg[r] = m.reg[r])
  BY <1>1, FetchedAt
<1>3. m' = f /\ m.reg[PC] = 20 /\ halted' = TRUE /\ count' = count /\ calls' = calls
  BY <1>2 DEF swi
<1> HIDE DEF f
<1>4. m'.reg[PC] = 24 /\ m'.reg[0] = m.reg[0] /\ m' \in Machine
  BY <1>2, <1>3, RegisterNumbers
<1>5. Rounds' = Rounds
  BY <1>3 DEF Rounds
<1>6. count \in Counts /\ calls \in Nat /\ calls = Rounds /\ m.reg[0] = 0
  BY <1>3 DEF LoopInv
<1> QED
  BY <1>3, <1>4, <1>5, <1>6 DEF LoopInv, Typed

\* The loop invariant is kept by every instruction of the program.
THEOREM LoopInvariance == Program => []LoopInv
<1>1. Start => LoopInv
  BY LoopStarts
<1>2. ASSUME LoopInv, [Step \/ Finished]_vars PROVE LoopInv'
  <2>1. CASE Step
    BY <1>2, <2>1, SubsStep, ReturnStep, MovStep, CallStep, LoopStep, SwiStep DEF Step
  <2>2. CASE Finished \/ UNCHANGED vars
    <3>1. m' = m /\ count' = count /\ calls' = calls /\ halted' = halted
      BY <2>2 DEF Finished, vars
    <3> QED
      BY <1>2, <3>1 DEF LoopInv, Typed, Rounds
  <2> QED
    BY <1>2, <2>1, <2>2
<1> QED
  BY <1>1, <1>2, PTL DEF Program

\* The loop calls decr as often as its counter says and leaves zero in the
\* counter, for every width and every count (example1.s,
\* arm_branch_other.c:29-38).
THEOREM LoopCounted == Program => []LoopCount
<1>1. LoopInv => LoopCount
  BY DEF LoopInv, LoopCount, Rounds
<1> QED
  BY <1>1, LoopInvariance, PTL

\* A backward call enters its target and returns behind the call, for every
\* offset from anywhere in the program (arm_branch_other.c:31-35,
\* arm_core.c:68-81, 125-139).
THEOREM CallsReturn == Program => []CallReturns
<1>1. LoopInv => CallReturns
  BY Returns DEF LoopInv
<1> QED
  BY <1>1, LoopInvariance, PTL
=============================================================================
