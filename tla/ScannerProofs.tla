---------------------------- MODULE ScannerProofs -----------------------------
(***************************************************************************)
(* The generated scanner, for every stream of bytes, every way the reads   *)
(* cut it and every size of the buffer.                                    *)
(*                                                                         *)
(* The automaton is reduced to what its tables do (Row), and a state to    *)
(* the text it stands for (Reached).  Positions of the buffer are turned   *)
(* into positions of the stream (At).                                      *)
(***************************************************************************)
EXTENDS Scanner, SequenceTheorems, WellFoundedInduction, TLAPS

\* A set of numbers that is not empty has a least one.
LEMMA LeastNumber ==
    ASSUME NEW T \in SUBSET Nat, T # {}
    PROVE  \E m \in T : \A k \in T : m <= k
<1>1. IsWellFoundedOn(OpToRel(<, Nat), Nat)
  BY NatLessThanWellFounded
<1>2. PICK m \in T : \A k \in T : ~(<<k, m>> \in OpToRel(<, Nat))
  BY <1>1, WFMin
<1>3. \A k \in T : ~(k < m)
  BY <1>2 DEF OpToRel
<1> QED
  BY <1>3

-----------------------------------------------------------------------------
\* The state after the first character of a token, by its class.
First(c) ==
    CASE c = 0 -> 3 [] c = 2 -> 5 [] c = 4 -> 6 [] c = 5 -> 7 [] c = 6 -> 8 [] OTHER -> 4

\* The automaton the tables encode: no state but the one after a mark can be
\* left by the end-of-buffer mark; 13 is the state of a jam.
Row(s, c) ==
    CASE c = 0 -> IF s = 3 THEN 13 ELSE 3
      [] c # 0 /\ s \in {1, 2} -> First(c)
      [] c # 0 /\ s \in {6, 9} -> IF c = 3 THEN 10 ELSE IF c = 4 THEN 13 ELSE 9
      [] c # 0 /\ s = 10 -> IF c = 7 THEN 11 ELSE 13
      [] c # 0 /\ s = 11 -> IF c = 7 THEN 12 ELSE 13
      [] c # 0 /\ s = 14 -> IF c = 1 THEN 9 ELSE 13
      [] c # 0 /\ s \notin {1, 2, 6, 9, 10, 11, 14} -> 13

\* The states and classes of the tables.
States == 0 .. 14
Classes == 0 .. 7
Places == States \X Classes

\* One look at the tables: a state is found, or the default state asked.
Look(f, p) ==
    LET s == p[1]
        c == p[2]
        d == yy_def[s]
    IN  IF yy_chk[yy_base[s] + c] = s THEN yy_nxt[yy_base[s] + c]
        ELSE f[<<d, IF d >= 14 THEN yy_meta[c] ELSE c>>]

\* Looks from each state, the defaults first.
LEMMA LookRow ==
    ASSUME NEW f, NEW c \in Classes
    PROVE  /\ Look(f, <<13, c>>) = Row(13, c)
           /\ f[<<13, c>>] = Row(13, c) => \A s \in {1, 3, 4, 5, 7, 8, 10, 11, 12, 14} :
                Look(f, <<s, c>>) = Row(s, c)
           /\ f[<<1, c>>] = Row(1, c) => Look(f, <<2, c>>) = Row(2, c)
           /\ (\A k \in Classes : f[<<14, k>>] = Row(14, k)) => \A s \in {6, 9} :
                Look(f, <<s, c>>) = Row(s, c)
<1>1. c \in {0, 1, 2, 3, 4, 5, 6, 7}
  BY DEF Classes
<1>2. \A k \in 0 .. 7 : yy_meta[k] = IF k = 0 THEN 0 ELSE IF k = 4 THEN 2 ELSE 1
  BY DEF yy_meta, Table
<1>3. Look(f, <<13, c>>) = Row(13, c)
  BY <1>1 DEF Look, Row, yy_base, yy_chk, yy_nxt, yy_def, Table
<1>4. ASSUME f[<<13, c>>] = Row(13, c)
      PROVE  \A s \in {1, 3, 4, 5, 7, 8, 10, 11, 12, 14} : Look(f, <<s, c>>) = Row(s, c)
  BY <1>1, <1>4 DEF Look, Row, First, yy_base, yy_chk, yy_nxt, yy_def, Table
<1>5. ASSUME f[<<1, c>>] = Row(1, c) PROVE Look(f, <<2, c>>) = Row(2, c)
  BY <1>1, <1>5 DEF Look, Row, yy_base, yy_chk, yy_nxt, yy_def, Table
<1>6. ASSUME \A k \in Classes : f[<<14, k>>] = Row(14, k), NEW s \in {6, 9}
      PROVE  Look(f, <<s, c>>) = Row(s, c)
  BY <1>1, <1>2, <1>6 DEF Look, Row, yy_base, yy_chk, yy_nxt, yy_def, Table, Classes
<1> QED
  BY <1>3, <1>4, <1>5, <1>6

\* A function that looks everything up is the automaton.
LEMMA LooksRow ==
    ASSUME NEW f, \A s \in States, c \in Classes : f[<<s, c>>] = Look(f, <<s, c>>)
    PROVE  \A s \in States \ {0}, c \in Classes : f[<<s, c>>] = Row(s, c)
<1> TAKE t \in States \ {0}, e \in Classes
<1>1. \A s \in {1, 2, 3, 4, 5, 6, 7, 8, 9, 10, 11, 12, 13, 14} : s \in States
  BY DEF States
<1>2. ASSUME NEW c \in Classes PROVE f[<<13, c>>] = Row(13, c)
  BY <1>1, LookRow
<1>3. ASSUME NEW c \in Classes, NEW s \in {1, 3, 4, 5, 7, 8, 10, 11, 12, 14}
      PROVE  f[<<s, c>>] = Row(s, c)
  <2>1. s \in States
    BY <1>1
  <2>2. Look(f, <<s, c>>) = Row(s, c)
    BY <1>2, LookRow
  <2> QED
    BY <2>1, <2>2
<1>4. \A k \in Classes : f[<<1, k>>] = Row(1, k) /\ f[<<14, k>>] = Row(14, k)
  BY <1>3
<1>5. ASSUME NEW s \in {2, 6, 9} PROVE f[<<s, e>>] = Row(s, e)
  <2>1. s \in States
    BY <1>1
  <2>2. Look(f, <<2, e>>) = Row(2, e) /\ \A q \in {6, 9} : Look(f, <<q, e>>) = Row(q, e)
    BY <1>4, LookRow
  <2> QED
    BY <2>1, <2>2
<1>6. t \in {1, 3, 4, 5, 7, 8, 10, 11, 12, 14} \/ t \in {2, 6, 9} \/ t = 13
  BY DEF States
<1> QED
  BY <1>2, <1>3, <1>5, <1>6

\* The automaton is a function that looks everything up.
LEMMA RowLooks ==
    ASSUME NEW f, NEW s \in States, NEW c \in Classes,
           \A k \in Classes : f[<<0, k>>] = 0,
           \A q \in States \ {0}, k \in Classes : f[<<q, k>>] = Row(q, k)
    PROVE  Look(f, <<s, c>>) = f[<<s, c>>]
<1>1. \A q \in {1, 2, 3, 4, 5, 6, 7, 8, 9, 10, 11, 12, 13, 14} : q \in States \ {0}
  BY DEF States
<1>2. f[<<13, c>>] = Row(13, c) /\ f[<<1, c>>] = Row(1, c)
  BY <1>1
<1>3. \A k \in Classes : f[<<14, k>>] = Row(14, k)
  BY <1>1
<1>4. CASE s = 0
  <2>1. c \in {0, 1, 2, 3, 4, 5, 6, 7}
    BY DEF Classes
  <2> QED
    BY <1>4, <2>1 DEF Look, yy_base, yy_chk, yy_nxt, yy_def, Table
<1>5. CASE s \in {1, 3, 4, 5, 7, 8, 10, 11, 12, 14}
  <2>1. Look(f, <<s, c>>) = Row(s, c)
    BY <1>2, <1>5, LookRow
  <2> QED
    BY <1>1, <1>5, <2>1
<1>6. CASE s \in {2, 6, 9}
  <2>1. Look(f, <<2, c>>) = Row(2, c) /\ \A q \in {6, 9} : Look(f, <<q, c>>) = Row(q, c)
    BY <1>2, <1>3, LookRow
  <2> QED
    BY <1>1, <1>6, <2>1
<1>7. CASE s = 13
  <2>1. Look(f, <<13, c>>) = Row(13, c)
    BY LookRow
  <2> QED
    BY <1>2, <1>7, <2>1
<1>8. s = 0 \/ s \in {1, 3, 4, 5, 7, 8, 10, 11, 12, 14} \/ s \in {2, 6, 9} \/ s = 13
  BY DEF States
<1> QED
  BY <1>4, <1>5, <1>6, <1>7, <1>8

\* The tables encode the automaton.
LEMMA Tables == \A s \in States \ {0}, c \in Classes : yy_trans[<<s, c>>] = Row(s, c)
<1> DEFINE Looks(f) == f = [p \in Places |-> Look(f, p)]
           ref == [p \in Places |-> IF p[1] = 0 THEN 0 ELSE Row(p[1], p[2])]
<1>1. \A p \in Places : p = <<p[1], p[2]>> /\ p[1] \in States /\ p[2] \in Classes
  BY DEF Places
<1>2. \A s \in States, c \in Classes : <<s, c>> \in Places
  BY DEF Places
<1>3. Looks(ref)
  <2>1. \A s \in States, c \in Classes : ref[<<s, c>>] = IF s = 0 THEN 0 ELSE Row(s, c)
    BY <1>2
  <2>2. 0 \in States
    BY DEF States
  <2> HIDE DEF ref
  <2>3. \A s \in States, c \in Classes : Look(ref, <<s, c>>) = ref[<<s, c>>]
    BY <2>1, <2>2, RowLooks
  <2>4. \A p \in Places : Look(ref, p) = ref[p]
    BY <1>1, <2>3
  <2>5. ref = [p \in Places |-> ref[p]]
    BY DEF ref
  <2> QED
    BY <2>4, <2>5
<1>4. yy_trans = CHOOSE f : Looks(f)
  BY DEF yy_trans, Look, Places, States, Classes
<1>5. Looks(yy_trans)
  BY <1>3, <1>4
<1>6. \A s \in States, c \in Classes : yy_trans[<<s, c>>] = Look(yy_trans, <<s, c>>)
  BY <1>2, <1>5
<1> QED
  BY <1>6, LooksRow

\* What the states accept, and where a match ends at once.
LEMMA Accepts ==
    /\ \A s \in {0, 1, 2, 9, 10, 11, 13} : yy_accept[s] = 0
    /\ yy_accept[3] = 6 /\ yy_accept[4] = 4 /\ yy_accept[5] = 5 /\ yy_accept[6] = 4
    /\ yy_accept[7] = 1 /\ yy_accept[8] = 2 /\ yy_accept[12] = 3
    /\ \A s \in {4, 5, 7, 8, 12, 13} : yy_base[s] = 14
    /\ \A s \in {1, 3, 6, 9, 10, 11} : yy_base[s] # 14
  BY DEF yy_accept, yy_base, Table

-----------------------------------------------------------------------------
Byte == 0 .. 255
Token == Nat \X Seq(Byte)

\* The tokens of x from position i on.
FromBody(f, x, ended, i) ==
    IF i > Len(x) \/ (~ended /\ Undecided(x, i)) THEN <<>>
    ELSE LET end == PacketEnd(x, i)
         IN  IF end # 0 THEN <<<<3, SubSeq(x, i, end)>>>> \o f[end + 1]
             ELSE <<<<RuleOf(x[i]), <<x[i]>>>>>> \o f[i + 1]

From(x, ended) == CHOOSE f : f = [i \in 1 .. Len(x) + 1 |-> FromBody(f, x, ended, i)]

\* A packet ends after its start.
LEMMA PacketEndType ==
    ASSUME NEW x \in Seq(Byte), NEW i \in Nat
    PROVE  PacketEnd(x, i) = 0 \/ PacketEnd(x, i) \in i + 3 .. Len(x)
<1> DEFINE ends == {j \in i + 1 .. Len(x) - 2 :
                    /\ x[j] = 35 /\ x[j + 1] \in Hex /\ x[j + 2] \in Hex
                    /\ \A k \in i + 1 .. j - 1 : x[k] \notin {35, 36}}
           e == CHOOSE j \in ends : TRUE
<1>1. PacketEnd(x, i) = IF x[i] # 36 \/ ends = {} THEN 0 ELSE e + 2
  BY DEF PacketEnd
<1>2. ends # {} => e \in ends
  OBVIOUS
<1>3. ends \subseteq i + 1 .. Len(x) - 2
  OBVIOUS
<1> HIDE DEF ends, e
<1>4. Len(x) \in Nat
  OBVIOUS
<1>5. CASE x[i] # 36 \/ ends = {}
  BY <1>1, <1>5
<1>6. CASE ~(x[i] # 36 \/ ends = {})
  <2>1. PacketEnd(x, i) = e + 2 /\ e \in i + 1 .. Len(x) - 2
    BY <1>1, <1>2, <1>3, <1>6
  <2> QED
    BY <1>4, <2>1
<1> QED
  BY <1>5, <1>6

\* The tokens from i on depend on those after i only.
LEMMA BodyLocal ==
    ASSUME NEW x \in Seq(Byte), NEW ended, NEW i \in 1 .. Len(x) + 1, NEW f, NEW g,
           \A j \in i + 1 .. Len(x) + 1 : f[j] = g[j]
    PROVE  FromBody(f, x, ended, i) = FromBody(g, x, ended, i)
<1>1. Len(x) \in Nat
  OBVIOUS
<1>2. CASE i > Len(x)
  BY <1>2 DEF FromBody
<1>3. CASE i <= Len(x)
  <2> DEFINE e == PacketEnd(x, i)
  <2>1. e = 0 \/ e \in i + 3 .. Len(x)
    BY PacketEndType
  <2> HIDE DEF e
  <2>2. f[i + 1] = g[i + 1] /\ (e # 0 => f[e + 1] = g[e + 1])
    BY <1>1, <1>3, <2>1
  <2> QED
    BY <2>2 DEF FromBody, e
<1> QED
  BY <1>1, <1>2, <1>3

\* The reference is well defined: its equation has a solution.
LEMMA FromEquation ==
    ASSUME NEW x \in Seq(Byte), NEW ended \in BOOLEAN
    PROVE  From(x, ended) = [i \in 1 .. Len(x) + 1 |-> FromBody(From(x, ended), x, ended, i)]
<1> DEFINE L == Len(x) + 1
           Solves(g, h) == g = [i \in L - h .. L |-> FromBody(g, x, ended, i)]
           Wrong == {h \in 0 .. L - 1 : ~\E g : Solves(g, h)}
<1>1. L \in Nat /\ L >= 1
  OBVIOUS
<1>2. Wrong = {}
  <2> SUFFICES ASSUME Wrong # {} PROVE FALSE
    OBVIOUS
  <2>1. PICK h \in Wrong : \A k \in Wrong : h <= k
    <3>1. Wrong \in SUBSET Nat
      BY <1>1
    <3> HIDE DEF Wrong
    <3> QED
      BY <3>1, LeastNumber
  <2>2. CASE h = 0
    <3> DEFINE g == [i \in L - 0 .. L |-> <<>>]
    <3>1. \A i \in L - 0 .. L : FromBody(g, x, ended, i) = <<>>
      BY DEF FromBody
    <3>2. Solves(g, 0)
      BY <3>1
    <3> QED
      BY <2>1, <2>2, <3>2
  <2>3. CASE h # 0
    <3>1. h \in 1 .. L - 1 /\ h - 1 \in 0 .. L - 1 /\ L - h \in 1 .. L
      BY <1>1, <2>1, <2>3
    <3>2. PICK f : Solves(f, h - 1)
      <4>1. h - 1 \in Wrong => h <= h - 1
        <5> HIDE DEF Wrong
        <5> QED
          BY <2>1
      <4>2. h - 1 \notin Wrong
        BY <3>1, <4>1
      <4> HIDE DEF Solves
      <4> QED
        BY <3>1, <4>2
    <3> DEFINE g == [i \in L - h .. L |-> IF i = L - h THEN FromBody(f, x, ended, i) ELSE f[i]]
    <3>3. \A j \in L - h + 1 .. L : g[j] = f[j]
      BY <3>1
    <3>4. ASSUME NEW i \in L - h .. L
          PROVE  g[i] = FromBody(g, x, ended, i)
      <4> HIDE DEF g
      <4>1. FromBody(f, x, ended, i) = FromBody(g, x, ended, i)
        <5>1. i \in 1 .. Len(x) + 1 /\ \A j \in i + 1 .. Len(x) + 1 : g[j] = f[j]
          BY <1>1, <3>1, <3>3
        <5> QED
          BY <5>1, BodyLocal
      <4>2. CASE i = L - h
        BY <4>1, <4>2, <3>1 DEF g
      <4>3. CASE i # L - h
        <5>1. i \in L - h + 1 .. L /\ i \in L - (h - 1) .. L
          BY <1>1, <3>1, <4>3
        <5>2. f[i] = FromBody(f, x, ended, i)
          BY <3>2, <5>1
        <5> QED
          BY <3>3, <4>1, <5>1, <5>2
      <4> QED
        BY <4>2, <4>3
    <3>5. g = [i \in L - h .. L |-> g[i]]
      OBVIOUS
    <3>6. Solves(g, h)
      <4> HIDE DEF g
      <4> QED
        BY <3>4, <3>5
    <3> QED
      BY <2>1, <3>6
  <2> QED
    BY <2>2, <2>3
<1>3. \E g : Solves(g, L - 1)
  <2>1. L - 1 \in 0 .. L - 1
    BY <1>1
  <2> HIDE DEF Solves
  <2> QED
    BY <1>2, <2>1
<1>4. \E g : g = [i \in 1 .. Len(x) + 1 |-> FromBody(g, x, ended, i)]
  BY <1>1, <1>3
<1> QED
  BY <1>4 DEF From

\* The reference gives tokens.
LEMMA FromType ==
    ASSUME NEW x \in Seq(Byte), NEW ended \in BOOLEAN
    PROVE  \A i \in 1 .. Len(x) + 1 : From(x, ended)[i] \in Seq(Token)
<1> DEFINE F == From(x, ended)
           L == Len(x) + 1
           Wrong == {h \in 0 .. L - 1 : F[L - h] \notin Seq(Token)}
<1>1. L \in Nat /\ L >= 1
  OBVIOUS
<1>2. \A i \in 1 .. L : F[i] = FromBody(F, x, ended, i)
  BY FromEquation
<1> HIDE DEF F
<1>3. Wrong = {}
  <2> SUFFICES ASSUME Wrong # {} PROVE FALSE
    OBVIOUS
  <2>1. PICK h \in Wrong : \A k \in Wrong : h <= k
    <3>1. Wrong \in SUBSET Nat
      BY <1>1
    <3> HIDE DEF Wrong
    <3> QED
      BY <3>1, LeastNumber
  <2> DEFINE i == L - h
             e == PacketEnd(x, i)
  <2>2. h \in 0 .. L - 1 /\ i \in 1 .. L /\ F[i] \notin Seq(Token)
    BY <1>1, <2>1
  <2>3. \A k \in i + 1 .. L : F[k] \in Seq(Token)
    <3> TAKE k \in i + 1 .. L
    <3>1. L - k \in 0 .. L - 1 /\ L - k < h /\ L - (L - k) = k
      BY <1>1, <2>2
    <3>2. L - k \notin Wrong
      <4> HIDE DEF Wrong
      <4> QED
        BY <2>1, <2>2, <3>1
    <3> QED
      BY <3>1, <3>2
  <2>4. e = 0 \/ e \in i + 3 .. Len(x)
    BY <2>2, PacketEndType
  <2>5. F[i] = FromBody(F, x, ended, i)
    BY <1>2, <2>2
  <2> HIDE DEF Wrong
  <2>6. CASE i > Len(x) \/ (~ended /\ Undecided(x, i))
    BY <2>2, <2>5, <2>6 DEF FromBody
  <2>7. CASE ~(i > Len(x) \/ (~ended /\ Undecided(x, i)))
    <3>1. i \in 1 .. Len(x)
      BY <2>2, <2>7
    <3>2. CASE e # 0
      <4>1. <<3, SubSeq(x, i, e)>> \in Token
        <5>1. SubSeq(x, i, e) \in Seq(Byte)
          BY <2>4, <3>1, <3>2, SubSeqProperties
        <5> QED
          BY <5>1 DEF Token
      <4>2. e + 1 \in i + 1 .. L
        BY <2>4, <3>1, <3>2
      <4>3. F[i] = <<<<3, SubSeq(x, i, e)>>>> \o F[e + 1]
        BY <2>5, <2>7, <3>2 DEF FromBody
      <4>4. F[i] \in Seq(Token)
        <5> HIDE DEF e, i
        <5> QED
          BY <2>3, <4>1, <4>2, <4>3
      <4> QED
        BY <2>2, <4>4
    <3>3. CASE e = 0
      <4>1. <<RuleOf(x[i]), <<x[i]>>>> \in Token
        <5>1. <<x[i]>> \in Seq(Byte)
          BY <3>1
        <5> QED
          BY <5>1 DEF Token, RuleOf
      <4>2. i + 1 \in i + 1 .. L
        BY <3>1
      <4>3. F[i] = <<<<RuleOf(x[i]), <<x[i]>>>>>> \o F[i + 1]
        BY <2>5, <2>7, <3>3 DEF FromBody
      <4>4. F[i] \in Seq(Token)
        <5> HIDE DEF e, i
        <5> QED
          BY <2>3, <4>1, <4>2, <4>3
      <4> QED
        BY <2>2, <4>4
    <3> QED
      BY <3>2, <3>3
  <2> QED
    BY <2>6, <2>7
<1>4. ASSUME NEW i \in 1 .. L PROVE F[i] \in Seq(Token)
  <2>1. L - i \in 0 .. L - 1 /\ L - (L - i) = i
    BY <1>1
  <2> QED
    BY <1>3, <2>1
<1> QED
  BY <1>4 DEF F

-----------------------------------------------------------------------------
\* The characters of a packet before '#'.
Body(x, i, j) == \A k \in i .. j : x[k] \notin {35, 36}

\* The automaton is in state s after the characters i to j - 1 of x.
Reached(x, s, i, j) ==
    /\ i \in Nat \ {0} /\ j \in Nat /\ j <= Len(x) + 1
    /\ \/ s = 1 /\ j = i
       \/ s \in {4, 5, 6, 7, 8} /\ j = i + 1 /\ s = First(TextClass(x[i]))
       \/ s = 9 /\ j >= i + 2 /\ x[i] = 36 /\ Body(x, i + 1, j - 1)
       \/ s = 10 /\ j >= i + 2 /\ x[i] = 36 /\ Body(x, i + 1, j - 2) /\ x[j - 1] = 35
       \/ /\ s = 11 /\ j >= i + 3 /\ x[i] = 36 /\ Body(x, i + 1, j - 3)
          /\ x[j - 2] = 35 /\ x[j - 1] \in Hex
       \/ /\ s = 12 /\ j >= i + 4 /\ x[i] = 36 /\ Body(x, i + 1, j - 4)
          /\ x[j - 3] = 35 /\ x[j - 2] \in Hex /\ x[j - 1] \in Hex

\* The states in which a packet has begun and not ended.
Begun == {6, 9, 10, 11}

\* The states a match may be interrupted in; a NUL waits for what follows it.
Live(x, s, i) == s \in {1} \cup Begun \/ (s = 4 /\ x[i] = 0)

\* The classes of the characters of a text.
LEMMA ClassOf ==
    ASSUME NEW b \in Byte
    PROVE  /\ TextClass(b) \in Classes \ {0}
           /\ TextClass(b) = 3 <=> b = 35
           /\ TextClass(b) = 4 <=> b = 36
           /\ TextClass(b) = 7 <=> b \in Hex
           /\ TextClass(b) = 2 <=> b = 10
           /\ TextClass(b) = 5 <=> b = 43
           /\ TextClass(b) = 6 <=> b = 45
           /\ b # 0 => yy_ec(b) = TextClass(b)
           /\ yy_ec(0) = 0
  BY DEF Byte, TextClass, yy_ec, Hex, Classes

\* The rule for a text of one character.
LEMMA RuleOfFirst ==
    ASSUME NEW b \in Byte
    PROVE  /\ First(TextClass(b)) \in {4, 5, 6, 7, 8}
           /\ First(TextClass(b)) = 6 <=> b = 36
           /\ yy_accept[First(TextClass(b))] = RuleOf(b)
  BY ClassOf, Accepts DEF First, RuleOf

\* A character more.
LEMMA ReachedStep ==
    ASSUME NEW x \in Seq(Byte), NEW s \in {1} \cup Begun, NEW i, NEW j,
           Reached(x, s, i, j), j <= Len(x), Row(s, TextClass(x[j])) # 13
    PROVE  Reached(x, Row(s, TextClass(x[j])), i, j + 1)
<1>1. i \in Nat \ {0} /\ j \in Nat /\ i <= j /\ Len(x) \in Nat
  BY DEF Reached, Begun
<1>2. x[j] \in Byte
  BY <1>1
<1> DEFINE c == TextClass(x[j])
<1>3. /\ c \in Classes \ {0} /\ (c = 3 <=> x[j] = 35) /\ (c = 4 <=> x[j] = 36)
      /\ (c = 7 <=> x[j] \in Hex)
  BY <1>2, ClassOf
<1>4. First(c) \in {4, 5, 6, 7, 8}
  BY <1>2, RuleOfFirst
<1> HIDE DEF c
<1>5. CASE s = 1
  <2>1. Row(s, c) = First(c) /\ i = j
    BY <1>3, <1>5 DEF Row, Reached
  <2> QED
    BY <1>1, <1>4, <2>1 DEF Reached, c
<1>6. CASE s = 6
  <2>1. j = i + 1 /\ x[i] = 36
    <3>1. j = i + 1 /\ First(TextClass(x[i])) = 6
      BY <1>6 DEF Reached
    <3>2. x[i] \in Byte
      BY <1>1, <3>1
    <3> QED
      BY <3>1, <3>2, RuleOfFirst
  <2>2. Row(s, c) = IF c = 3 THEN 10 ELSE IF c = 4 THEN 13 ELSE 9
    BY <1>3, <1>6 DEF Row
  <2> QED
    BY <1>1, <1>3, <2>1, <2>2 DEF Reached, Body, c
<1>7. CASE s = 9
  <2>1. j >= i + 2 /\ x[i] = 36 /\ Body(x, i + 1, j - 1)
    BY <1>7 DEF Reached
  <2>2. Row(s, c) = IF c = 3 THEN 10 ELSE IF c = 4 THEN 13 ELSE 9
    BY <1>3, <1>7 DEF Row
  <2>3. CASE c = 3
    BY <1>1, <1>3, <2>1, <2>2, <2>3 DEF Reached, Body, c
  <2>4. CASE c # 3
    <3>1. x[j] \notin {35, 36} /\ Row(s, c) = 9
      BY <1>3, <2>2, <2>4 DEF c
    <3>2. Body(x, i + 1, j)
      BY <1>1, <2>1, <3>1 DEF Body
    <3> QED
      BY <1>1, <2>1, <3>1, <3>2 DEF Reached, c
  <2> QED
    BY <2>3, <2>4
<1>8. CASE s = 10
  <2>1. j >= i + 2 /\ x[i] = 36 /\ Body(x, i + 1, j - 2) /\ x[j - 1] = 35
    BY <1>8 DEF Reached
  <2>2. Row(s, c) = 11 /\ x[j] \in Hex
    BY <1>3, <1>8 DEF Row, c
  <2>3. j + 1 - 3 = j - 2 /\ j + 1 - 2 = j - 1 /\ j + 1 - 1 = j
    BY <1>1
  <2> QED
    BY <1>1, <2>1, <2>2, <2>3 DEF Reached, c
<1>9. CASE s = 11
  <2>1. /\ j >= i + 3 /\ x[i] = 36 /\ Body(x, i + 1, j - 3)
        /\ x[j - 2] = 35 /\ x[j - 1] \in Hex
    BY <1>9 DEF Reached
  <2>2. Row(s, c) = 12 /\ x[j] \in Hex
    BY <1>3, <1>9 DEF Row, c
  <2>3. j + 1 - 4 = j - 3 /\ j + 1 - 3 = j - 2 /\ j + 1 - 2 = j - 1 /\ j + 1 - 1 = j
    BY <1>1
  <2> QED
    BY <1>1, <2>1, <2>2, <2>3 DEF Reached, c
<1> QED
  BY <1>5, <1>6, <1>7, <1>8, <1>9 DEF Begun

\* A character less.
LEMMA ReachedBack ==
    ASSUME NEW x \in Seq(Byte), NEW s, NEW i, NEW j, Reached(x, s, i, j), j > i
    PROVE  \E q \in States \ {0} : /\ Reached(x, q, i, j - 1)
                                   /\ Row(q, TextClass(x[j - 1])) = s
<1>1. i \in Nat \ {0} /\ j \in Nat /\ j - 1 \in Nat /\ Len(x) \in Nat /\ j - 1 <= Len(x)
  BY DEF Reached
<1>2. x[j - 1] \in Byte /\ x[i] \in Byte
  BY <1>1
<1> DEFINE c == TextClass(x[j - 1])
<1>3. /\ c \in Classes \ {0} /\ (c = 3 <=> x[j - 1] = 35) /\ (c = 4 <=> x[j - 1] = 36)
      /\ (c = 7 <=> x[j - 1] \in Hex)
  BY <1>2, ClassOf
<1>4. {1, 6, 9, 10, 11} \subseteq States \ {0}
  BY DEF States
<1>5. x[i] = 36 => Reached(x, 6, i, i + 1)
  BY <1>1, <1>2, RuleOfFirst DEF Reached
<1>6. CASE j = i + 1
  <2>1. s = First(c)
    BY <1>1, <1>6 DEF Reached
  <2>2. Row(1, c) = First(c)
    BY <1>3 DEF Row
  <2>3. Reached(x, 1, i, j - 1)
    BY <1>1, <1>6 DEF Reached
  <2> QED
    BY <1>4, <2>1, <2>2, <2>3
<1>7. CASE s = 9 /\ j >= i + 2
  <2>1. x[i] = 36 /\ Body(x, i + 1, j - 1)
    BY <1>1, <1>7 DEF Reached
  <2>2. x[j - 1] \notin {35, 36}
    BY <1>1, <1>7, <2>1 DEF Body
  <2>3. Row(6, c) = 9 /\ Row(9, c) = 9
    BY <1>3, <2>2 DEF Row
  <2>4. CASE j = i + 2
    BY <1>1, <1>4, <1>5, <1>7, <2>1, <2>3, <2>4
  <2>5. CASE j > i + 2
    <3>1. Reached(x, 9, i, j - 1)
      BY <1>1, <2>1, <2>5 DEF Reached, Body
    <3> QED
      BY <1>4, <1>7, <2>3, <3>1
  <2> QED
    BY <1>1, <1>7, <2>4, <2>5
<1>8. CASE s = 10 /\ j >= i + 2
  <2>1. x[i] = 36 /\ Body(x, i + 1, j - 2) /\ x[j - 1] = 35
    BY <1>1, <1>8 DEF Reached
  <2>2. Row(6, c) = 10 /\ Row(9, c) = 10
    BY <1>3, <2>1 DEF Row
  <2>3. CASE j = i + 2
    BY <1>1, <1>4, <1>5, <1>8, <2>1, <2>2, <2>3
  <2>4. CASE j > i + 2
    <3>1. Reached(x, 9, i, j - 1)
      BY <1>1, <2>1, <2>4 DEF Reached, Body
    <3> QED
      BY <1>4, <1>8, <2>2, <3>1
  <2> QED
    BY <1>1, <1>8, <2>3, <2>4
<1>9. CASE s = 11 /\ j >= i + 2
  <2>1. Reached(x, 10, i, j - 1)
    BY <1>1, <1>9 DEF Reached, Body
  <2>2. x[j - 1] \in Hex
    BY <1>1, <1>9 DEF Reached
  <2>3. Row(10, c) = 11
    BY <1>3, <2>2 DEF Row
  <2> QED
    BY <1>4, <1>9, <2>1, <2>3
<1>10. CASE s = 12 /\ j >= i + 2
  <2>1. Reached(x, 11, i, j - 1)
    BY <1>1, <1>10 DEF Reached, Body
  <2>2. x[j - 1] \in Hex
    BY <1>1, <1>10 DEF Reached
  <2>3. Row(11, c) = 12
    BY <1>3, <2>2 DEF Row
  <2> QED
    BY <1>4, <1>10, <2>1, <2>3
<1>11. s \in {9, 10, 11, 12} \/ j = i + 1
  BY <1>1 DEF Reached
<1> QED
  BY <1>1, <1>6, <1>7, <1>8, <1>9, <1>10, <1>11

\* A packet that begins at i can end with the '#' at j.
IsEnd(x, i, j) ==
    /\ x[j] = 35 /\ x[j + 1] \in Hex /\ x[j + 2] \in Hex
    /\ Body(x, i + 1, j - 1)

\* It has at most one end.
LEMMA PacketEndIs ==
    ASSUME NEW x \in Seq(Byte), NEW i \in Nat \ {0}
    PROVE  /\ x[i] # 36 => PacketEnd(x, i) = 0
           /\ (\A j \in i + 1 .. Len(x) - 2 : ~IsEnd(x, i, j)) => PacketEnd(x, i) = 0
           /\ \A j \in i + 1 .. Len(x) - 2 :
                x[i] = 36 /\ IsEnd(x, i, j) => PacketEnd(x, i) = j + 2
<1> DEFINE ends == {j \in i + 1 .. Len(x) - 2 :
                    /\ x[j] = 35 /\ x[j + 1] \in Hex /\ x[j + 2] \in Hex
                    /\ \A k \in i + 1 .. j - 1 : x[k] \notin {35, 36}}
           e == CHOOSE j \in ends : TRUE
<1>1. PacketEnd(x, i) = IF x[i] # 36 \/ ends = {} THEN 0 ELSE e + 2
  BY DEF PacketEnd
<1>2. ends = {j \in i + 1 .. Len(x) - 2 : IsEnd(x, i, j)}
  BY DEF IsEnd, Body
<1> HIDE DEF ends
<1>3. ASSUME NEW j \in i + 1 .. Len(x) - 2, IsEnd(x, i, j)
      PROVE  e = j
  <2>1. e \in ends
    BY <1>2, <1>3
  <2>2. e \in i + 1 .. Len(x) - 2 /\ IsEnd(x, i, e)
    BY <1>2, <2>1
  <2> HIDE DEF e
  <2>3. ~(e < j)
    BY <1>3, <2>2 DEF IsEnd, Body
  <2>4. ~(j < e)
    BY <1>3, <2>2 DEF IsEnd, Body
  <2> QED
    BY <2>2, <2>3, <2>4
<1> QED
  BY <1>1, <1>2, <1>3

\* A packet reached is a packet, whatever follows.
LEMMA PacketReached ==
    ASSUME NEW x \in Seq(Byte), NEW i, NEW j, Reached(x, 12, i, j)
    PROVE  /\ i \in 1 .. Len(x) /\ j \in i + 4 .. Len(x) + 1
           /\ PacketEnd(x, i) = j - 1 /\ ~Undecided(x, i)
<1>1. /\ i \in Nat \ {0} /\ j \in Nat /\ j <= Len(x) + 1 /\ j >= i + 4 /\ x[i] = 36
      /\ Body(x, i + 1, j - 4) /\ x[j - 3] = 35 /\ x[j - 2] \in Hex /\ x[j - 1] \in Hex
  BY DEF Reached
<1>2. Len(x) \in Nat
  OBVIOUS
<1>3. /\ j - 3 \in i + 1 .. Len(x) - 2 /\ j - 3 + 1 = j - 2 /\ j - 3 + 2 = j - 1
      /\ j - 3 - 1 = j - 4
  BY <1>1, <1>2
<1>4. IsEnd(x, i, j - 3)
  BY <1>1, <1>3 DEF IsEnd
<1>5. PacketEnd(x, i) = j - 1
  BY <1>1, <1>3, <1>4, PacketEndIs
<1>6. ~Undecided(x, i)
  BY <1>1, <1>5 DEF Undecided
<1> QED
  BY <1>1, <1>2, <1>5, <1>6

\* A packet that was given up is none, whatever follows.
LEMMA Jammed ==
    ASSUME NEW x \in Seq(Byte), NEW s \in Begun, NEW i, NEW j,
           Reached(x, s, i, j), j <= Len(x), Row(s, TextClass(x[j])) = 13
    PROVE  PacketEnd(x, i) = 0 /\ ~Undecided(x, i)
<1>1. i \in Nat \ {0} /\ j \in Nat /\ j > i /\ Len(x) \in Nat
  BY DEF Reached, Begun
<1>2. x[j] \in Byte /\ x[i] \in Byte
  BY <1>1
<1>3. /\ TextClass(x[j]) \in Classes \ {0} /\ (TextClass(x[j]) = 4 <=> x[j] = 36)
      /\ (TextClass(x[j]) = 7 <=> x[j] \in Hex)
  BY <1>2, ClassOf
<1>4. x[i] = 36
  <2>1. CASE s = 6
    BY <1>2, <2>1, RuleOfFirst DEF Reached
  <2> QED
    BY <2>1 DEF Reached, Begun
<1> DEFINE Stop(h) ==
      /\ h \in i + 1 .. j /\ Body(x, i + 1, h - 1) /\ x[h] \in {35, 36}
      /\ \/ x[h] = 36
         \/ h + 1 = j /\ x[h + 1] \notin Hex
         \/ h + 2 = j /\ x[h + 2] \notin Hex
<1>5. \E h \in i + 1 .. j : Stop(h)
  <2>1. CASE s \in {6, 9}
    <3>1. x[j] = 36
      BY <1>3, <2>1 DEF Row
    <3>2. Body(x, i + 1, j - 1)
      BY <1>1, <2>1 DEF Reached, Body
    <3> QED
      BY <1>1, <3>1, <3>2
  <2>2. CASE s = 10
    <3>1. x[j] \notin Hex
      BY <1>3, <2>2 DEF Row
    <3>2. j >= i + 2 /\ Body(x, i + 1, j - 2) /\ x[j - 1] = 35
      BY <2>2 DEF Reached
    <3>3. j - 1 \in i + 1 .. j /\ j - 1 + 1 = j /\ j - 1 - 1 = j - 2
      BY <1>1, <3>2
    <3>4. Stop(j - 1)
      BY <3>1, <3>2, <3>3
    <3> QED
      BY <3>3, <3>4
  <2>3. CASE s = 11
    <3>1. x[j] \notin Hex
      BY <1>3, <2>3 DEF Row
    <3>2. j >= i + 3 /\ Body(x, i + 1, j - 3) /\ x[j - 2] = 35
      BY <2>3 DEF Reached
    <3>3. j - 2 \in i + 1 .. j /\ j - 2 + 2 = j /\ j - 2 - 1 = j - 3
      BY <1>1, <3>2
    <3>4. Stop(j - 2)
      BY <3>1, <3>2, <3>3
    <3> QED
      BY <3>3, <3>4
  <2> QED
    BY <2>1, <2>2, <2>3 DEF Begun
<1>6. PICK h \in i + 1 .. j : Stop(h)
  BY <1>5
<1>7. \A k \in i + 1 .. Len(x) - 2 : ~IsEnd(x, i, k)
  <2> SUFFICES ASSUME NEW k \in i + 1 .. Len(x) - 2, IsEnd(x, i, k) PROVE FALSE
    OBVIOUS
  <2>1. ~(k < h)
    BY <1>1, <1>6 DEF IsEnd, Body
  <2>2. ~(h < k)
    BY <1>1, <1>6 DEF IsEnd, Body
  <2>3. k = h
    BY <1>1, <1>6, <2>1, <2>2
  <2> QED
    BY <1>1, <1>6, <2>3 DEF IsEnd
<1>8. PacketEnd(x, i) = 0
  BY <1>1, <1>7, PacketEndIs
<1>9. ~Undecided(x, i)
  <2>1. h \in i + 1 .. Len(x) /\ h <= j
    BY <1>1, <1>6
  <2>2. ~ \/ x[h] \notin {35, 36}
          \/ x[h] = 35 /\ (h = Len(x) \/ (h = Len(x) - 1 /\ x[h + 1] \in Hex))
    BY <1>1, <1>6, <2>1
  <2> QED
    BY <1>4, <2>1, <2>2 DEF Undecided
<1> QED
  BY <1>8, <1>9

\* At the end of what was read a packet that has begun is none, yet.
LEMMA Unfinished ==
    ASSUME NEW x \in Seq(Byte), NEW s \in Begun, NEW i, Reached(x, s, i, Len(x) + 1)
    PROVE  PacketEnd(x, i) = 0 /\ Undecided(x, i)
<1> DEFINE L == Len(x)
<1>1. i \in Nat \ {0} /\ L >= i /\ L \in Nat
  BY DEF Reached, Begun
<1>2. x[i] \in Byte
  BY <1>1
<1>3. x[i] = 36
  <2>1. CASE s = 6
    BY <1>2, <2>1, RuleOfFirst DEF Reached
  <2> QED
    BY <2>1 DEF Reached, Begun
<1>4. \/ Body(x, i + 1, L)
      \/ L >= i + 1 /\ Body(x, i + 1, L - 1) /\ x[L] = 35
      \/ L >= i + 2 /\ Body(x, i + 1, L - 2) /\ x[L - 1] = 35 /\ x[L] \in Hex
  <2>1. /\ L + 1 - 1 = L /\ L + 1 - 2 = L - 1 /\ L + 1 - 3 = L - 2
        /\ (L + 1 >= i + 2 => L >= i + 1) /\ (L + 1 >= i + 3 => L >= i + 2)
    BY <1>1
  <2>2. CASE s \in {6, 9}
    BY <1>1, <2>1, <2>2 DEF Reached, Body
  <2>3. CASE s = 10
    BY <2>1, <2>3 DEF Reached
  <2>4. CASE s = 11
    BY <2>1, <2>4 DEF Reached
  <2> QED
    BY <2>2, <2>3, <2>4 DEF Begun
<1>5. PacketEnd(x, i) = 0
  <2>1. \A k \in i + 1 .. L - 2 : x[k] # 35
    BY <1>1, <1>4 DEF Body
  <2>2. \A k \in i + 1 .. Len(x) - 2 : ~IsEnd(x, i, k)
    BY <2>1 DEF IsEnd
  <2> QED
    BY <1>1, <2>2, PacketEndIs
<1>6. ASSUME NEW k \in i + 1 .. L
      PROVE  \/ x[k] \notin {35, 36}
             \/ x[k] = 35 /\ (k = L \/ (k = L - 1 /\ x[k + 1] \in Hex))
  <2>1. CASE Body(x, i + 1, L)
    BY <2>1 DEF Body
  <2>2. CASE L >= i + 1 /\ Body(x, i + 1, L - 1) /\ x[L] = 35
    <3>1. k = L \/ k \in i + 1 .. L - 1
      BY <1>1
    <3> QED
      BY <2>2, <3>1 DEF Body
  <2>3. CASE L >= i + 2 /\ Body(x, i + 1, L - 2) /\ x[L - 1] = 35 /\ x[L] \in Hex
    <3>1. k = L \/ (k = L - 1 /\ k + 1 = L) \/ k \in i + 1 .. L - 2
      BY <1>1
    <3>2. x[L] \notin {35, 36}
      <4>1. \A b \in Hex : b # 35 /\ b # 36
        BY DEF Hex
      <4> HIDE DEF L
      <4> QED
        BY <2>3, <4>1
    <3> HIDE DEF L
    <3> QED
      BY <2>3, <3>1, <3>2 DEF Body
  <2> QED
    BY <1>4, <2>1, <2>2, <2>3
<1> QED
  BY <1>3, <1>5, <1>6 DEF Undecided

\* One character that begins no packet.
LEMMA OneCharacter ==
    ASSUME NEW x \in Seq(Byte), NEW s \in {4, 5, 6, 7, 8}, NEW i, NEW j, Reached(x, s, i, j)
    PROVE  /\ i \in 1 .. Len(x) /\ j = i + 1 /\ RuleOf(x[i]) = yy_accept[s] /\ x[i] \in Byte
           /\ s = 6 <=> x[i] = 36
           /\ s # 6 => PacketEnd(x, i) = 0 /\ (Undecided(x, i) => s = 4 /\ x[i] = 0 /\ i = Len(x))
<1>1. i \in 1 .. Len(x) /\ i \in Nat \ {0} /\ j = i + 1 /\ s = First(TextClass(x[i]))
  BY DEF Reached
<1>2. x[i] \in Byte
  BY <1>1
<1>3. (s = 6 <=> x[i] = 36) /\ RuleOf(x[i]) = yy_accept[s]
  BY <1>1, <1>2, RuleOfFirst
<1>4. x[i] # 36 => PacketEnd(x, i) = 0
  BY <1>1, PacketEndIs
<1>5. x[i] = 0 => s = 4
  BY <1>1, <1>2, ClassOf DEF First
<1> QED
  BY <1>1, <1>2, <1>3, <1>4, <1>5 DEF Undecided

\* What a text reaches does not depend on what follows it.
LEMMA ReachedPrefix ==
    ASSUME NEW x \in Seq(Byte), NEW n \in 0 .. Len(x), NEW s, NEW i, NEW j,
           Reached(x, s, i, j), j <= n + 1
    PROVE  Reached(SubSeq(x, 1, n), s, i, j)
<1> DEFINE y == SubSeq(x, 1, n)
<1>1. n \in Nat /\ i \in Nat \ {0} /\ j \in Nat
  BY DEF Reached
<1>2. Len(y) = n /\ \A k \in 1 .. n : y[k] = x[k]
  BY SubSeqProperties
<1> HIDE DEF y
<1>3. ASSUME NEW k \in Nat, k >= i, k < j PROVE y[k] = x[k]
  BY <1>1, <1>2, <1>3
<1>4. \A a, b \in Int : a >= i /\ b < j => (Body(x, a, b) <=> Body(y, a, b))
  <2> TAKE a, b \in Int
  <2> HAVE a >= i /\ b < j
  <2>1. \A k \in a .. b : k \in Nat /\ k >= i /\ k < j
    BY <1>1
  <2> QED
    BY <1>3, <2>1 DEF Body
<1>5. CASE s = 1
  BY <1>1, <1>2, <1>5 DEF Reached, y
<1>6. CASE s \in {4, 5, 6, 7, 8}
  BY <1>1, <1>2, <1>3, <1>6 DEF Reached, y
<1>7. CASE s = 9
  BY <1>1, <1>2, <1>3, <1>4, <1>7 DEF Reached, y
<1>8. CASE s = 10
  BY <1>1, <1>2, <1>3, <1>4, <1>8 DEF Reached, y
<1>9. CASE s = 11
  BY <1>1, <1>2, <1>3, <1>4, <1>9 DEF Reached, y
<1>10. CASE s = 12
  BY <1>1, <1>2, <1>3, <1>4, <1>10 DEF Reached, y
<1> QED
  BY <1>5, <1>6, <1>7, <1>8, <1>9, <1>10 DEF Reached

\* A match that began at i has been interrupted before position j.
Interrupted(x, i, j) ==
    \E s \in States \ {0} : Live(x, s, i) /\ Reached(x, s, i, j)

\* The text from i to j - 1 is the token of state s, whatever follows the r
\* bytes that were read (over: nothing will).
Final(x, r, over, s, i, j) ==
    /\ s \in {4, 5, 6, 7, 8, 12} /\ j <= r + 1 /\ Reached(x, s, i, j)
    /\ s = 6 => PacketEnd(x, i) = 0
    /\ ~over => \A n \in r .. Len(x) : /\ s = 6 => PacketEnd(SubSeq(x, 1, n), i) = 0
                                       /\ ~Undecided(SubSeq(x, 1, n), i)

\* It is a token of the whole of x.
Settled(x, ended, s, i, j) ==
    /\ s \in {4, 5, 6, 7, 8, 12} /\ Reached(x, s, i, j)
    /\ s = 6 => PacketEnd(x, i) = 0
    /\ ended \/ ~Undecided(x, i)

\* The text from i to j - 1 is the next token of the reference.
NextToken(x, ended, s, i, j) ==
    /\ i \in 1 .. Len(x) /\ j \in i + 1 .. Len(x) + 1 /\ yy_accept[s] \in 1 .. 5
    /\ SubSeq(x, i, j - 1) \in Seq(Byte)
    /\ From(x, ended)[i] = <<<<yy_accept[s], SubSeq(x, i, j - 1)>>>> \o From(x, ended)[j]

LEMMA FinalToken ==
    ASSUME NEW x \in Seq(Byte), NEW ended \in BOOLEAN, NEW s, NEW i, NEW j,
           Settled(x, ended, s, i, j)
    PROVE  NextToken(x, ended, s, i, j)
<1> DEFINE F == From(x, ended)
<1>0. /\ s \in {4, 5, 6, 7, 8, 12} /\ Reached(x, s, i, j)
      /\ s = 6 => PacketEnd(x, i) = 0
      /\ ended \/ ~Undecided(x, i)
  BY DEF Settled
<1>1. Len(x) \in Nat
  OBVIOUS
<1>2. yy_accept[s] \in 1 .. 5
  BY <1>0, Accepts
<1>3. \A k \in 1 .. Len(x) + 1 : F[k] = FromBody(F, x, ended, k)
  BY FromEquation
<1> HIDE DEF F
<1>4. CASE s = 12
  <2>1. i \in 1 .. Len(x) /\ j \in i + 4 .. Len(x) + 1 /\ PacketEnd(x, i) = j - 1
    BY <1>0, <1>4, PacketReached
  <2>2. F[i] = FromBody(F, x, ended, i) /\ j - 1 # 0 /\ j - 1 + 1 = j /\ ~(i > Len(x))
    BY <1>1, <1>3, <2>1
  <2>3. F[i] = <<<<3, SubSeq(x, i, j - 1)>>>> \o F[j]
    BY <1>0, <2>1, <2>2 DEF FromBody
  <2>4. SubSeq(x, i, j - 1) \in Seq(Byte)
    BY <1>1, <2>1, SubSeqProperties
  <2> QED
    BY <1>1, <1>2, <1>4, <2>1, <2>3, <2>4, Accepts DEF F, NextToken
<1>5. CASE s # 12
  <2>1. i \in 1 .. Len(x) /\ j = i + 1 /\ RuleOf(x[i]) = yy_accept[s] /\ x[i] \in Byte
    BY <1>0, <1>5, OneCharacter
  <2>2. PacketEnd(x, i) = 0
    BY <1>0, <1>5, OneCharacter
  <2>3. F[i] = FromBody(F, x, ended, i) /\ ~(i > Len(x)) /\ j - 1 = i
    BY <1>1, <1>3, <2>1
  <2>4. F[i] = <<<<RuleOf(x[i]), <<x[i]>>>>>> \o F[i + 1]
    BY <1>0, <2>2, <2>3 DEF FromBody
  <2>5. SubSeq(x, i, j - 1) = <<x[i]>> /\ <<x[i]>> \in Seq(Byte)
    <3>1. Len(SubSeq(x, i, i)) = 1 /\ SubSeq(x, i, i)[1] = x[i]
      BY <1>1, <2>1, SubSeqProperties
    <3>2. SubSeq(x, i, i) \in Seq(Byte) /\ <<x[i]>> \in Seq(Byte)
      BY <1>1, <2>1, SubSeqProperties
    <3>3. SubSeq(x, i, i) = <<x[i]>>
      <4> DEFINE a == SubSeq(x, i, i)
                 b == <<x[i]>>
      <4>1. Len(b) = 1 /\ b[1] = x[i]
        OBVIOUS
      <4>2. Len(a) = 1 /\ a[1] = x[i] /\ a \in Seq(Byte) /\ b \in Seq(Byte)
        BY <3>1, <3>2
      <4> HIDE DEF a, b
      <4>3. \A k \in 1 .. Len(a) : a[k] = b[k]
        BY <4>1, <4>2
      <4>4. a = b
        BY <4>1, <4>2, <4>3, SeqEqual
      <4> QED
        BY <4>4 DEF a, b
    <3> QED
      BY <2>3, <3>2, <3>3
  <2> QED
    BY <1>1, <1>2, <2>1, <2>4, <2>5 DEF F, NextToken
<1> QED
  BY <1>4, <1>5

\* The tokens t and those from i on are the tokens of x.
Splits(t, x, ended, i) == t \o From(x, ended)[i] = From(x, ended)[1]

\* The rule of the next token is run.
LEMMA Advance ==
    ASSUME NEW x \in Seq(Byte), NEW ended \in BOOLEAN, NEW t \in Seq(Token),
           NEW i \in 1 .. Len(x) + 1, NEW j \in 1 .. Len(x) + 1, NEW a \in Token,
           From(x, ended)[i] = <<a>> \o From(x, ended)[j], Splits(t, x, ended, i)
    PROVE  Splits(Append(t, a), x, ended, j)
<1> DEFINE rest == From(x, ended)[j]
<1>1. rest \in Seq(Token)
  BY FromType
<1>2. t \o (<<a>> \o rest) = Append(t, a) \o rest
  <2> HIDE DEF rest
  <2> QED
    BY <1>1
<1> QED
  BY <1>2 DEF Splits

\* The texts of the prefixes are those of the stream.
LEMMA SubSeqPrefix ==
    ASSUME NEW x \in Seq(Byte), NEW n \in 0 .. Len(x), NEW i \in 1 .. n, NEW j \in i .. n
    PROVE  SubSeq(SubSeq(x, 1, n), i, j) = SubSeq(x, i, j)
<1> DEFINE y == SubSeq(x, 1, n)
           a == SubSeq(y, i, j)
           b == SubSeq(x, i, j)
<1>1. n \in Nat /\ y \in Seq(Byte) /\ Len(y) = n /\ \A k \in 1 .. n : y[k] = x[k]
  BY SubSeqProperties
<1> HIDE DEF y
<1>2. /\ a \in Seq(Byte) /\ b \in Seq(Byte) /\ Len(a) = j - i + 1 /\ Len(b) = j - i + 1
      /\ \A k \in 1 .. j - i + 1 : a[k] = y[i + k - 1] /\ b[k] = x[i + k - 1]
  BY <1>1, SubSeqProperties
<1>3. \A k \in 1 .. j - i + 1 : i + k - 1 \in 1 .. n
  BY <1>1
<1> HIDE DEF a, b
<1>4. \A k \in 1 .. j - i + 1 : a[k] = b[k]
  BY <1>1, <1>2, <1>3
<1>5. a = b
  BY <1>2, <1>4, SeqEqual
<1> QED
  BY <1>5 DEF a, b, y

\* Where a packet has been on its way.
LEMMA ReachedEarlier ==
    ASSUME NEW x \in Seq(Byte), NEW s \in Begun \ {6}, NEW i, NEW j, Reached(x, s, i, j)
    PROVE  /\ i \in Nat \ {0} /\ j \in Nat /\ j >= i + 2 /\ x[i] = 36
           /\ Reached(x, 6, i, i + 1)
           /\ \A k \in i + 2 .. j - 1 : Reached(x, 9, i, k) \/ Reached(x, 10, i, k)
<1>1. i \in Nat \ {0} /\ j \in Nat /\ j >= i + 2 /\ j <= Len(x) + 1 /\ Len(x) \in Nat /\ x[i] = 36
  BY DEF Reached, Begun
<1>2. Reached(x, 6, i, i + 1)
  <2>1. First(TextClass(36)) = 6
    BY RuleOfFirst DEF Byte
  <2> QED
    BY <1>1, <2>1 DEF Reached
<1>3. ASSUME NEW k \in i + 2 .. j - 1 PROVE Reached(x, 9, i, k) \/ Reached(x, 10, i, k)
  <2>1. CASE s = 9
    BY <1>1, <2>1 DEF Reached, Body
  <2>2. CASE s = 10
    <3>1. Body(x, i + 1, j - 2)
      BY <2>2 DEF Reached
    <3>2. Body(x, i + 1, k - 1)
      BY <1>1, <3>1 DEF Body
    <3> QED
      BY <1>1, <3>2 DEF Reached
  <2>3. CASE s = 11
    <3>1. Body(x, i + 1, j - 3) /\ x[j - 2] = 35
      BY <2>3 DEF Reached
    <3>2. CASE k = j - 1
      <4>1. k - 2 = j - 3 /\ k - 1 = j - 2
        BY <1>1, <3>2
      <4> QED
        BY <1>1, <3>1, <4>1 DEF Reached
    <3>3. CASE k < j - 1
      <4>1. Body(x, i + 1, k - 1)
        BY <1>1, <3>1, <3>3 DEF Body
      <4> QED
        BY <1>1, <4>1 DEF Reached
    <3> QED
      BY <1>1, <3>2, <3>3
  <2> QED
    BY <2>1, <2>2, <2>3 DEF Begun
<1> QED
  BY <1>1, <1>2, <1>3

-----------------------------------------------------------------------------
\* One step of yy_get_previous_state.
Rerun(f, buf, bp, p) ==
    IF p = bp THEN 1 ELSE yy_trans[<<f[p - 1], TextClass(buf[p - 1])>>]

Reruns(buf, bp, to) == CHOOSE f : f = [p \in bp .. to |-> Rerun(f, buf, bp, p)]

\* From position bp up to the position to the buffer holds what x has after a.
Same(x, buf, a, bp, to) ==
    /\ a \in Nat /\ bp \in Nat /\ to \in Nat /\ bp <= to /\ a + to <= Len(x)
    /\ \A p \in bp .. to - 1 : buf[p] = x[a + p + 1]

\* Running the automaton again is well defined, and leads where it led before.
LEMMA RerunReaches ==
    ASSUME NEW x \in Seq(Byte), NEW buf, NEW a, NEW bp, NEW to, Same(x, buf, a, bp, to)
    PROVE  \A p \in bp .. to : \A q \in States \ {0} :
                Reached(x, q, a + bp + 1, a + p + 1) => Reruns(buf, bp, to)[p] = q
<1>0. /\ a \in Nat /\ bp \in Nat /\ to \in Nat /\ bp <= to /\ a + to <= Len(x) /\ Len(x) \in Nat
      /\ \A p \in bp .. to - 1 : buf[p] = x[a + p + 1]
      /\ \A k \in 1 .. Len(x) : x[k] \in Byte
  BY DEF Same
<1> DEFINE state == Reruns(buf, bp, to)
<1> HIDE DEF state
<1> DEFINE Solves(f, h) == f = [p \in bp .. bp + h |-> Rerun(f, buf, bp, p)]
           Unsolved == {h \in 0 .. to - bp : ~\E f : Solves(f, h)}
<1>1. Unsolved = {}
  <2> SUFFICES ASSUME Unsolved # {} PROVE FALSE
    BY <1>0
  <2>1. PICK h \in Unsolved : \A k \in Unsolved : h <= k
    <3>1. Unsolved \in SUBSET Nat
      BY <1>0
    <3> HIDE DEF Unsolved
    <3> QED
      BY <1>0, <3>1, LeastNumber
  <2>2. CASE h = 0
    <3> DEFINE f == [p \in bp .. bp + 0 |-> 1]
    <3>1. \A p \in bp .. bp + 0 : Rerun(f, buf, bp, p) = 1
      BY <1>0 DEF Rerun
    <3>2. Solves(f, 0)
      BY <1>0, <3>1
    <3> QED
      BY <1>0, <2>1, <2>2, <3>2
  <2>3. CASE h # 0
    <3>1. h \in 1 .. to - bp /\ h - 1 \in 0 .. to - bp
      BY <1>0, <2>1, <2>3
    <3>2. PICK f : Solves(f, h - 1)
      <4>1. h - 1 \notin Unsolved
        <5> HIDE DEF Unsolved
        <5> QED
          BY <1>0, <2>1, <3>1
      <4> HIDE DEF Solves
      <4> QED
        BY <1>0, <3>1, <4>1
    <3> DEFINE g == [p \in bp .. bp + h |-> IF p = bp + h THEN Rerun(f, buf, bp, p) ELSE f[p]]
    <3>3. \A p \in bp .. bp + (h - 1) : g[p] = f[p]
      BY <1>0, <3>1
    <3>4. ASSUME NEW p \in bp .. bp + h PROVE g[p] = Rerun(g, buf, bp, p)
      <4>1. Rerun(g, buf, bp, p) = Rerun(f, buf, bp, p)
        <5> HIDE DEF g
        <5>1. p # bp => p - 1 \in bp .. bp + (h - 1)
          BY <1>0, <3>1
        <5> QED
          BY <1>0, <3>3, <5>1 DEF Rerun
      <4>2. CASE p = bp + h
        BY <1>0, <4>1, <4>2
      <4>3. CASE p # bp + h
        <5>1. p \in bp .. bp + (h - 1)
          BY <1>0, <3>1, <4>3
        <5>2. f[p] = Rerun(f, buf, bp, p)
          BY <1>0, <3>2, <5>1
        <5> QED
          BY <1>0, <3>3, <4>1, <5>1, <5>2
      <4> QED
        BY <1>0, <4>2, <4>3
    <3>5. g = [p \in bp .. bp + h |-> g[p]]
      BY <1>0
    <3>6. Solves(g, h)
      <4> HIDE DEF g
      <4> QED
        BY <1>0, <3>4, <3>5
    <3> QED
      BY <1>0, <2>1, <3>6
  <2> QED
    BY <1>0, <2>2, <2>3
<1>2. \E f : f = [p \in bp .. to |-> Rerun(f, buf, bp, p)]
  <2>1. to - bp \in 0 .. to - bp /\ bp + (to - bp) = to
    BY <1>0
  <2>2. \E f : Solves(f, to - bp)
    <3> HIDE DEF Solves
    <3> QED
      BY <1>0, <1>1, <2>1
  <2> QED
    BY <1>0, <2>1, <2>2
<1>3. \A p \in bp .. to : state[p] = Rerun(state, buf, bp, p)
  <2>1. state = [p \in bp .. to |-> Rerun(state, buf, bp, p)]
    BY <1>0, <1>2 DEF state, Reruns
  <2> QED
    BY <1>0, <2>1
<1> DEFINE i == a + bp + 1
           Wrong == {h \in 0 .. to - bp : \E q \in States \ {0} :
                        Reached(x, q, i, i + h) /\ state[bp + h] # q}
<1>4. i \in Nat
  BY <1>0
<1>5. Wrong = {}
  <2> SUFFICES ASSUME Wrong # {} PROVE FALSE
    BY <1>0
  <2>1. PICK h \in Wrong : \A k \in Wrong : h <= k
    <3>1. Wrong \in SUBSET Nat
      BY <1>0
    <3> HIDE DEF Wrong
    <3> QED
      BY <1>0, <3>1, LeastNumber
  <2>2. PICK q \in States \ {0} : Reached(x, q, i, i + h) /\ state[bp + h] # q
    BY <1>0, <2>1
  <2>3. h \in 0 .. to - bp /\ bp + h \in bp .. to
    BY <1>0, <2>1
  <2>4. CASE h = 0
    <3>1. q = 1
      BY <1>0, <1>4, <2>2, <2>4 DEF Reached
    <3>2. state[bp] = 1
      <4>1. bp \in bp .. to
        BY <1>0
      <4>2. state[bp] = Rerun(state, buf, bp, bp)
        BY <1>0, <1>3, <4>1
      <4>3. Rerun(state, buf, bp, bp) = 1
        BY <1>0 DEF Rerun
      <4> QED
        BY <1>0, <4>2, <4>3
    <3> QED
      BY <1>0, <2>2, <2>4, <3>1, <3>2
  <2>5. CASE h # 0
    <3>1. h \in 1 .. to - bp /\ i + h > i /\ i + h - 1 = i + (h - 1) /\ h - 1 \in 0 .. to - bp
      BY <1>0, <1>4, <2>3, <2>5
    <3>2. PICK r \in States \ {0} : /\ Reached(x, r, i, i + h - 1)
                                    /\ Row(r, TextClass(x[i + h - 1])) = q
      <4> DEFINE j == i + h
      <4>1. Reached(x, q, i, j) /\ j > i
        BY <1>0, <2>2, <3>1
      <4> HIDE DEF i, j
      <4>2. \E r \in States \ {0} : Reached(x, r, i, j - 1) /\ Row(r, TextClass(x[j - 1])) = q
        BY <1>0, <4>1, ReachedBack
      <4> QED
        BY <1>0, <1>4, <3>1, <4>2 DEF j
    <3>3. state[bp + (h - 1)] = r
      <4>1. h - 1 \notin Wrong
        <5> HIDE DEF Wrong
        <5> QED
          BY <1>0, <2>1, <3>1
      <4> HIDE DEF i
      <4> QED
        BY <1>0, <3>1, <3>2, <4>1
    <3>4. /\ bp + h - 1 = bp + (h - 1) /\ bp + h # bp /\ bp + h - 1 \in bp .. to - 1
          /\ a + (bp + h - 1) + 1 = i + h - 1 /\ i + h - 1 \in 1 .. Len(x)
      <4>0. bp \in Nat /\ to \in Nat /\ h \in 1 .. to - bp
        BY <1>0, <3>1
      <4>1. bp + h - 1 = bp + (h - 1) /\ bp + h # bp /\ bp + h - 1 \in bp .. to - 1
        <5> HIDE DEF Wrong
        <5> QED
          BY <4>0
      <4>2. a + (bp + h - 1) + 1 = i + h - 1
        BY <1>0, <3>1
      <4>3. i + h - 1 = a + bp + h /\ a + bp + h <= a + to
        BY <1>0, <3>1
      <4>4. i + h - 1 \in 1 .. Len(x)
        BY <1>0, <3>1, <4>3
      <4> QED
        BY <4>1, <4>2, <4>4
    <3>5. state[bp + h] = yy_trans[<<r, TextClass(x[i + h - 1])>>]
      <4>1. state[bp + h] = yy_trans[<<state[bp + h - 1], TextClass(buf[bp + h - 1])>>]
        <5>1. state[bp + h] = Rerun(state, buf, bp, bp + h)
          BY <1>0, <1>3, <2>3
        <5> QED
          BY <1>0, <3>4, <5>1 DEF Rerun
      <4>2. buf[bp + h - 1] = x[i + h - 1]
        BY <1>0, <3>4
      <4> HIDE DEF i
      <4> QED
        BY <1>0, <3>3, <3>4, <4>1, <4>2
    <3>6. TextClass(x[i + h - 1]) \in Classes
      <4>1. x[i + h - 1] \in Byte
        <5> HIDE DEF i
        <5> QED
          BY <1>0, <3>4
      <4> QED
        BY <1>0, <4>1, ClassOf
    <3> HIDE DEF i
    <3> QED
      BY <1>0, <2>2, <3>2, <3>5, <3>6, Tables
  <2> QED
    BY <1>0, <2>4, <2>5
<1>6. ASSUME NEW p \in bp .. to, NEW q \in States \ {0}, Reached(x, q, i, a + p + 1)
      PROVE  state[p] = q
  <2>1. p - bp \in 0 .. to - bp /\ i + (p - bp) = a + p + 1 /\ bp + (p - bp) = p
    BY <1>0
  <2>2. p - bp \notin Wrong
    BY <1>0, <1>5
  <2> HIDE DEF i
  <2> QED
    BY <1>0, <1>6, <2>1, <2>2
<1> QED
  BY <1>0, <1>6 DEF state

\* What yy_get_previous_state gives for a match that was interrupted.
LEMMA PreviousState ==
    ASSUME NEW x \in Seq(Byte), NEW buf, NEW a, NEW bp, NEW to, Same(x, buf, a, bp, to),
           NEW s \in {1, 4} \cup Begun, Reached(x, s, a + bp + 1, a + to + 1)
    PROVE  yy_get_previous_state(buf, bp, to) =
             [state |-> s,
              last |-> IF s \in Begun \ {6} THEN [state |-> 6, cpos |-> bp + 1]
                       ELSE yy_last_accepting]
<1> DEFINE state == Reruns(buf, bp, to)
           accepting == {p \in bp .. to - 1 : yy_accept[state[p]] # 0}
           cpos == CHOOSE p \in accepting : \A q \in accepting : q <= p
           i == a + bp + 1
<1>0. a \in Nat /\ bp \in Nat /\ to \in Nat /\ bp <= to /\ a + to <= Len(x) /\ Len(x) \in Nat
  BY DEF Same
<1>1. yy_get_previous_state(buf, bp, to) =
        [state |-> state[to],
         last |-> IF accepting = {} THEN yy_last_accepting
                  ELSE [state |-> state[cpos], cpos |-> cpos]]
  BY <1>0 DEF yy_get_previous_state, Reruns, Rerun
<1> HIDE DEF state
<1>2. \A p \in bp .. to : \A q \in States \ {0} : Reached(x, q, i, a + p + 1) => state[p] = q
  <2>1. \A p \in bp .. to : \A q \in States \ {0} :
            Reached(x, q, a + bp + 1, a + p + 1) => Reruns(buf, bp, to)[p] = q
    BY <1>0, RerunReaches
  <2> QED
    BY <1>0, <2>1 DEF state
<1>3. \A q \in {1, 4, 6, 9, 10, 11} : q \in States \ {0}
  BY <1>0 DEF States
<1>4. i \in Nat \ {0} /\ i + 1 = a + (bp + 1) + 1
  BY <1>0
<1>5. state[to] = s
  BY <1>0, <1>2, <1>3 DEF Begun
<1>6. CASE s \in Begun \ {6}
  <2>1. /\ a + to + 1 >= i + 2 /\ Reached(x, 6, i, i + 1)
        /\ \A k \in i + 2 .. a + to : Reached(x, 9, i, k) \/ Reached(x, 10, i, k)
    <3> DEFINE j == a + to + 1
    <3>1. j - 1 = a + to /\ Reached(x, s, i, j)
      BY <1>0
    <3>2. /\ j >= i + 2 /\ Reached(x, 6, i, i + 1)
          /\ \A k \in i + 2 .. j - 1 : Reached(x, 9, i, k) \/ Reached(x, 10, i, k)
      <4> HIDE DEF i, j
      <4> QED
        BY <1>0, <1>6, <3>1, ReachedEarlier
    <3> HIDE DEF i
    <3> QED
      BY <1>0, <3>1, <3>2
  <2>2. bp + 1 \in bp .. to - 1 /\ bp + 1 \in bp .. to
    BY <1>0, <2>1
  <2>3. state[bp + 1] = 6
    BY <1>0, <1>2, <1>3, <1>4, <2>1, <2>2
  <2>4. ASSUME NEW p \in bp + 2 .. to - 1 PROVE yy_accept[state[p]] = 0
    <3>1. a + p + 1 \in i + 2 .. a + to /\ p \in bp .. to
      BY <1>0
    <3>2. state[p] \in {9, 10}
      BY <1>0, <1>2, <1>3, <2>1, <3>1
    <3> QED
      BY <1>0, <3>2, Accepts
  <2>5. bp + 1 \in accepting
    BY <1>0, <2>2, <2>3, Accepts
  <2>6. \A q \in accepting : q <= bp + 1
    <3> TAKE q \in accepting
    <3>1. q \in bp .. to - 1 /\ ~(q \in bp + 2 .. to - 1)
      BY <1>0, <2>4
    <3> QED
      BY <1>0, <3>1
  <2>7. cpos = bp + 1
    <3>1. accepting \subseteq Nat
      BY <1>0
    <3> HIDE DEF accepting
    <3>2. cpos \in accepting /\ \A q \in accepting : q <= cpos
      BY <1>0, <2>5, <2>6
    <3> HIDE DEF cpos
    <3> QED
      BY <1>0, <2>5, <2>6, <3>1, <3>2
  <2> HIDE DEF accepting, cpos
  <2> QED
    BY <1>0, <1>1, <1>5, <1>6, <2>3, <2>5, <2>7
<1>7. CASE s \notin Begun \ {6}
  <2>1. to <= bp + 1
    BY <1>0, <1>7 DEF Reached, Begun
  <2>2. accepting = {}
    <3>1. Reached(x, 1, i, a + bp + 1)
      BY <1>0 DEF Reached
    <3>2. state[bp] = 1
      BY <1>0, <1>2, <1>3, <3>1
    <3>3. \A p \in bp .. to - 1 : p = bp
      BY <1>0, <2>1
    <3>4. yy_accept[1] = 0
      BY <1>0, Accepts
    <3> QED
      BY <1>0, <3>2, <3>3, <3>4
  <2> HIDE DEF accepting, cpos
  <2> QED
    BY <1>0, <1>1, <1>5, <1>7, <2>2
<1> QED
  BY <1>0, <1>6, <1>7

-----------------------------------------------------------------------------
(***************************************************************************)
(* When a token is final                                                   *)
(***************************************************************************)
\* What has been read of a stream.
LEMMA PrefixType ==
    ASSUME NEW x \in Seq(Byte), NEW n \in 0 .. Len(x)
    PROVE  /\ SubSeq(x, 1, n) \in Seq(Byte) /\ Len(SubSeq(x, 1, n)) = n
           /\ \A k \in 1 .. n : SubSeq(x, 1, n)[k] = x[k]
  BY SubSeqProperties

\* The text of a state is in the text read.
LEMMA ReachedPlace ==
    ASSUME NEW x \in Seq(Byte), NEW s, NEW i, NEW j, Reached(x, s, i, j)
    PROVE  i \in Nat \ {0} /\ j \in Nat /\ i <= j /\ j <= Len(x) + 1 /\ (s # 1 => i < j)
  BY DEF Reached

\* A character that starts no packet; a NUL, once it is not the last one.
LEMMA FinalOne ==
    ASSUME NEW x \in Seq(Byte), NEW r \in 0 .. Len(x), NEW over, NEW s \in {4, 5, 7, 8},
           NEW i, NEW j, Reached(x, s, i, j), j <= r + 1, over \/ x[i] # 0 \/ j <= r
    PROVE  Final(x, r, over, s, i, j)
<1>1. SUFFICES ASSUME ~over, NEW n \in r .. Len(x)
               PROVE  ~Undecided(SubSeq(x, 1, n), i)
  BY DEF Final
<1> DEFINE y == SubSeq(x, 1, n)
<1>2. n \in 0 .. Len(x) /\ j <= n + 1 /\ r \in Nat /\ n >= r
  BY ReachedPlace
<1>3. y \in Seq(Byte) /\ Len(y) = n /\ \A k \in 1 .. n : y[k] = x[k]
  BY <1>2, PrefixType
<1>4. Reached(y, s, i, j)
  BY <1>2, ReachedPrefix
<1> HIDE DEF y
<1>5. i \in 1 .. Len(y) /\ j = i + 1 /\ (Undecided(y, i) => y[i] = 0 /\ i = Len(y))
  BY <1>3, <1>4, OneCharacter
<1>6. ~Undecided(y, i)
  BY <1>1, <1>2, <1>3, <1>5
<1> QED
  BY <1>6 DEF y

\* A packet that is complete.
LEMMA FinalPacket ==
    ASSUME NEW x \in Seq(Byte), NEW r \in 0 .. Len(x), NEW over, NEW i, NEW j,
           Reached(x, 12, i, j), j <= r + 1
    PROVE  Final(x, r, over, 12, i, j)
<1>1. SUFFICES ASSUME ~over, NEW n \in r .. Len(x)
               PROVE  ~Undecided(SubSeq(x, 1, n), i)
  BY DEF Final
<1>2. n \in 0 .. Len(x) /\ j <= n + 1
  BY ReachedPlace
<1>3. SubSeq(x, 1, n) \in Seq(Byte) /\ Reached(SubSeq(x, 1, n), 12, i, j)
  BY <1>2, PrefixType, ReachedPrefix
<1> QED
  BY <1>3, PacketReached

\* The '$' of a packet.
LEMMA DollarReached ==
    ASSUME NEW x \in Seq(Byte), NEW s \in Begun, NEW i, NEW j, Reached(x, s, i, j)
    PROVE  Reached(x, 6, i, i + 1) /\ i + 1 <= j /\ (s = 6 => j = i + 1)
<1>1. CASE s = 6
  BY <1>1 DEF Reached
<1>2. CASE s # 6
  BY <1>2, ReachedEarlier
<1> QED
  BY <1>1, <1>2

\* A packet that is given up at a character that cannot be part of it.
LEMMA FinalGivenUp ==
    ASSUME NEW x \in Seq(Byte), NEW r \in 0 .. Len(x), NEW over, NEW s \in Begun, NEW i, NEW j,
           Reached(x, s, i, j), j <= r, Row(s, TextClass(x[j])) = 13
    PROVE  Final(x, r, over, 6, i, i + 1)
<1>1. i \in Nat \ {0} /\ j \in Nat /\ j <= Len(x) /\ i < j /\ Len(x) \in Nat /\ r \in Nat
  BY ReachedPlace DEF Begun
<1>2. PacketEnd(x, i) = 0
  BY <1>1, Jammed
<1>3. Reached(x, 6, i, i + 1) /\ i + 1 <= r + 1
  BY <1>1, DollarReached
<1>4. ASSUME NEW n \in r .. Len(x)
      PROVE  PacketEnd(SubSeq(x, 1, n), i) = 0 /\ ~Undecided(SubSeq(x, 1, n), i)
  <2> DEFINE y == SubSeq(x, 1, n)
  <2>1. n \in 0 .. Len(x) /\ j \in 1 .. n /\ j <= n + 1
    BY <1>1
  <2>2. y \in Seq(Byte) /\ Len(y) = n /\ y[j] = x[j]
    BY <2>1, PrefixType
  <2>3. Reached(y, s, i, j)
    BY <2>1, ReachedPrefix
  <2> HIDE DEF y
  <2>4. PacketEnd(y, i) = 0 /\ ~Undecided(y, i)
    BY <2>1, <2>2, <2>3, Jammed
  <2> QED
    BY <2>4 DEF y
<1> QED
  BY <1>2, <1>3, <1>4 DEF Final

\* A packet that the end of the stream cuts off.
LEMMA FinalCut ==
    ASSUME NEW x \in Seq(Byte), NEW s \in Begun, NEW i, Reached(x, s, i, Len(x) + 1)
    PROVE  Final(x, Len(x), TRUE, 6, i, i + 1)
<1>1. PacketEnd(x, i) = 0
  BY Unfinished
<1>2. Reached(x, 6, i, i + 1) /\ i + 1 <= Len(x) + 1
  BY DollarReached
<1> QED
  BY <1>1, <1>2 DEF Final

\* Nothing is decided of a match that waits for more than the r bytes read.
LEMMA Waiting ==
    ASSUME NEW x \in Seq(Byte), NEW r \in 0 .. Len(x), NEW i, Interrupted(x, i, r + 1)
    PROVE  From(SubSeq(x, 1, r), FALSE)[i] = <<>>
<1> DEFINE y == SubSeq(x, 1, r)
<1>1. PICK s \in States \ {0} : Live(x, s, i) /\ Reached(x, s, i, r + 1)
  BY DEF Interrupted
<1>2. y \in Seq(Byte) /\ Len(y) = r /\ r \in Nat /\ \A k \in 1 .. r : y[k] = x[k]
  BY PrefixType
<1>3. Reached(y, s, i, r + 1)
  BY <1>1, <1>2, ReachedPrefix
<1> HIDE DEF y
<1>4. i \in 1 .. r + 1
  BY <1>2, <1>3, ReachedPlace
<1>5. i > r \/ Undecided(y, i)
  <2>1. CASE s = 1
    BY <1>2, <1>3, <2>1 DEF Reached
  <2>2. CASE s \in Begun
    BY <1>2, <1>3, <2>2, Unfinished
  <2>3. CASE s = 4 /\ x[i] = 0
    <3>1. i = r /\ i \in 1 .. r
      BY <1>2, <1>3, <2>3 DEF Reached
    <3> QED
      BY <1>2, <2>3, <3>1 DEF Undecided
  <2> QED
    BY <1>1, <2>1, <2>2, <2>3 DEF Live
<1>6. From(y, FALSE)[i] = FromBody(From(y, FALSE), y, FALSE, i)
  BY <1>2, <1>4, FromEquation
<1>7. From(y, FALSE)[i] = <<>>
  BY <1>2, <1>5, <1>6 DEF FromBody
<1> QED
  BY <1>7 DEF y

-----------------------------------------------------------------------------
\* The tokens t and those of the text from i on are the tokens of x, and of
\* whatever will have been read of it after the first r bytes.
Upto(t, x, r, over, i) ==
    /\ i \in 1 .. r + 1
    /\ Splits(t, x, TRUE, i)
    /\ ~over => \A n \in r .. Len(x) : Splits(t, SubSeq(x, 1, n), FALSE, i)

\* Before the first token.
LEMMA NoTokens ==
    ASSUME NEW x \in Seq(Byte), NEW over
    PROVE  Upto(<<>>, x, 0, over, 1)
<1>1. ASSUME NEW y \in Seq(Byte), NEW ended \in BOOLEAN PROVE Splits(<<>>, y, ended, 1)
  <2>1. From(y, ended)[1] \in Seq(Token)
    BY FromType
  <2> QED
    BY <2>1, ConcatEmptySeq DEF Splits
<1>2. \A n \in 0 .. Len(x) : SubSeq(x, 1, n) \in Seq(Byte)
  BY PrefixType
<1>3. Splits(<<>>, x, TRUE, 1)
  BY <1>1
<1>4. \A n \in 0 .. Len(x) : Splits(<<>>, SubSeq(x, 1, n), FALSE, 1)
  BY <1>1, <1>2
<1>5. 1 \in 1 .. 0 + 1
  OBVIOUS
<1> QED
  BY <1>3, <1>4, <1>5, Zenon DEF Upto

\* The rule of a final token is run.
LEMMA RuleRun ==
    ASSUME NEW x \in Seq(Byte), NEW r \in 0 .. Len(x), NEW over, NEW t \in Seq(Token),
           NEW s, NEW i, NEW j, Final(x, r, over, s, i, j), Upto(t, x, r, over, i)
    PROVE  LET a == <<yy_accept[s], SubSeq(x, i, j - 1)>>
           IN  a \in Token /\ Upto(Append(t, a), x, r, over, j)
<1> DEFINE a == <<yy_accept[s], SubSeq(x, i, j - 1)>>
<1>1. /\ s \in {4, 5, 6, 7, 8, 12} /\ j <= r + 1 /\ Reached(x, s, i, j)
      /\ s = 6 => PacketEnd(x, i) = 0
  BY DEF Final
<1>2. /\ i \in 1 .. Len(x) /\ j \in i + 1 .. Len(x) + 1 /\ yy_accept[s] \in 1 .. 5
      /\ SubSeq(x, i, j - 1) \in Seq(Byte)
      /\ From(x, TRUE)[i] = <<a>> \o From(x, TRUE)[j]
  <2>1. Settled(x, TRUE, s, i, j)
    BY <1>1 DEF Settled
  <2>2. NextToken(x, TRUE, s, i, j)
    BY <2>1, FinalToken
  <2> QED
    BY <2>2 DEF NextToken
<1>3. a \in Token /\ i \in 1 .. Len(x) + 1 /\ j \in 1 .. Len(x) + 1 /\ j \in 1 .. r + 1
  <2>1. yy_accept[s] \in Nat
    BY <1>2
  <2>2. a \in Token
    BY <1>2, <2>1 DEF Token
  <2> HIDE DEF a
  <2> QED
    BY <1>1, <1>2, <2>2
<1> HIDE DEF a
<1>4. Splits(Append(t, a), x, TRUE, j)
  <2>1. Splits(t, x, TRUE, i)
    BY DEF Upto
  <2> QED
    BY <1>2, <1>3, <2>1, Advance
<1>5. ASSUME ~over, NEW n \in r .. Len(x)
      PROVE  Splits(Append(t, a), SubSeq(x, 1, n), FALSE, j)
  <2> DEFINE y == SubSeq(x, 1, n)
  <2>1. /\ n \in 0 .. Len(x) /\ j <= n + 1 /\ i \in 1 .. n /\ j - 1 \in i .. n
        /\ j \in 1 .. n + 1 /\ i \in 1 .. n + 1
    BY <1>1, <1>2
  <2>2. y \in Seq(Byte) /\ Len(y) = n
    BY <2>1, PrefixType
  <2>3. Reached(y, s, i, j)
    BY <1>1, <2>1, ReachedPrefix
  <2>4. (s = 6 => PacketEnd(y, i) = 0) /\ ~Undecided(y, i)
    BY <1>5 DEF Final
  <2>5. SubSeq(y, i, j - 1) = SubSeq(x, i, j - 1)
    BY <2>1, SubSeqPrefix
  <2>6. Splits(t, y, FALSE, i)
    BY <1>5 DEF Upto
  <2> HIDE DEF y
  <2>7. From(y, FALSE)[i] = <<<<yy_accept[s], SubSeq(y, i, j - 1)>>>> \o From(y, FALSE)[j]
    <3>1. Settled(y, FALSE, s, i, j)
      BY <1>1, <2>3, <2>4 DEF Settled
    <3>2. NextToken(y, FALSE, s, i, j)
      BY <2>2, <3>1, FinalToken
    <3> QED
      BY <3>2 DEF NextToken
  <2>8. From(y, FALSE)[i] = <<a>> \o From(y, FALSE)[j]
    BY <2>5, <2>7 DEF a
  <2>9. Splits(Append(t, a), y, FALSE, j)
    BY <1>3, <2>1, <2>2, <2>6, <2>8, Advance
  <2> QED
    BY <2>9 DEF y
<1>6. Upto(Append(t, a), x, r, over, j)
  BY <1>3, <1>4, <1>5 DEF Upto
<1> QED
  BY <1>3, <1>6 DEF a

-----------------------------------------------------------------------------
(***************************************************************************)
(* The inductive invariant                                                 *)
(***************************************************************************)
\* The position in the stream of position p of the buffer.
At(p) == nread - yy_n_chars + p + 1

Pcs == {"start", "init", "token", "match", "find_action", "action", "read", "eof",
        "done", "exit"}

Running == pc \in {"token", "match", "find_action", "action"}

\* No byte will follow those read.
Over == yy_buffer_status = "eof_pending"

TypeInv ==
    /\ stream \in Seq(Byte) /\ nread \in 0 .. Len(stream) /\ pc \in Pcs
    /\ yy_buffer_status \in {"new", "normal", "eof_pending"}
    /\ Over => nread = Len(stream)
    /\ yy_n_chars \in 0 .. nread /\ yy_buf_size \in Nat
    /\ yy_bp \in Nat /\ yy_cp \in Nat /\ yy_bp <= yy_cp
    /\ yy_hold_char \in Byte
    /\ yy_current_state \in 0 .. 13
    /\ yy_last_accepting \in [state : 0 .. 13, cpos : Nat]
    /\ tokens \in Seq(Token)

HeapInv ==
    /\ pc = "start" => heap = {}
    /\ pc = "init" => heap = {"guts"}
    /\ Running \/ pc \in {"read", "eof"} => heap = {"guts", "stack", "buffer", "chars"}
    /\ pc = "done" => heap = {}

\* buf holds the last n of the r bytes read of x, and two marks after them.
Holds(buf, n, x, r) ==
    /\ buf \in [0 .. n + 1 -> Byte]
    /\ \A p \in 0 .. n - 1 : buf[p] = x[r - n + p + 1]
    /\ buf[n] = 0 /\ buf[n + 1] = 0

\* The buffer holds the last bytes read, once the '\0' after yytext is undone.
BufferInv ==
    /\ Running \/ pc \in {"read", "eof"} => yy_n_chars < yy_buf_size
    /\ pc \in {"token", "action"} =>
        /\ yy_ch_buf \in [0 .. yy_n_chars + 1 -> Byte]
        /\ Holds(Restored, yy_n_chars, stream, nread)
    /\ pc \in {"match", "find_action"} => Holds(yy_ch_buf, yy_n_chars, stream, nread)
    /\ pc = "read" =>
        /\ yy_ch_buf \in [0 .. yy_n_chars - 1 -> Byte]
        /\ \A p \in 0 .. yy_n_chars - 1 : yy_ch_buf[p] = stream[At(p)]
        /\ yy_bp = 0 /\ yy_cp = yy_n_chars
        /\ ~Over => num_to_read > 0

\* A match stopped after a mark, or a NUL of the text, at position p - 1.
Marked(p) ==
    /\ p \in yy_bp + 1 .. yy_n_chars + 1
    /\ p <= yy_n_chars => stream[At(p - 1)] = 0
    /\ Interrupted(stream, At(yy_bp), At(p - 1))

\* What a match that ends in state s at position p has found: a token, or the
\* end of the buffer.
Found(s, p) ==
    \/ p \in Nat /\ Final(stream, nread, Over, s, At(yy_bp), At(p))
    \/ s = 3 /\ Marked(p)

\* A packet that has begun can be given up for its '$'.
Backup(s) == s \in Begun \ {6} => yy_last_accepting = [state |-> 6, cpos |-> yy_bp + 1]

MatchInv ==
    /\ pc = "token" => yy_cp <= yy_n_chars
    /\ pc = "match" /\ yy_current_state # 3 =>
        /\ yy_cp <= yy_n_chars
        /\ Live(stream, yy_current_state, At(yy_bp))
        /\ Reached(stream, yy_current_state, At(yy_bp), At(yy_cp))
        /\ Backup(yy_current_state)
    /\ pc = "match" /\ yy_current_state = 3 => Marked(yy_cp)
    /\ pc = "find_action" =>
        /\ yy_cp <= yy_n_chars + 2
        /\ IF yy_accept[yy_current_state] # 0 THEN Found(yy_current_state, yy_cp)
           ELSE Found(yy_last_accepting.state, yy_last_accepting.cpos)
    /\ pc = "action" => Found(yy_current_state, yy_cp)
    /\ pc = "read" => Interrupted(stream, At(yy_bp), At(yy_cp))

TokensUpto(i) == Upto(tokens, stream, nread, Over, i)

TokensInv ==
    /\ pc \in {"start", "init"} => nread = 0 /\ ~Over /\ TokensUpto(1)
    /\ pc = "token" => TokensUpto(At(yy_cp))
    /\ pc \in {"match", "find_action", "action", "read"} => TokensUpto(At(yy_bp))
    /\ pc = "eof" => Splits(tokens, stream, TRUE, Len(stream) + 1)
    /\ \E i \in 1 .. Len(stream) + 1 : Splits(tokens, stream, TRUE, i)

IInv == TypeInv /\ HeapInv /\ BufferInv /\ MatchInv /\ TokensInv

-----------------------------------------------------------------------------
(***************************************************************************)
(* The invariant, action by action                                         *)
(***************************************************************************)
LEMMA InitInv == ASSUME Init PROVE IInv
<1>1. /\ stream \in Seq(Byte) /\ nread = 0 /\ pc = "start" /\ yy_n_chars = 0
      /\ yy_buf_size = 0 /\ yy_buffer_status = "new" /\ yy_bp = 0 /\ yy_cp = 0
      /\ yy_hold_char = 0 /\ yy_current_state = 0
      /\ yy_last_accepting = [state |-> 0, cpos |-> 0] /\ tokens = <<>> /\ heap = {}
  BY ScannerAssumption DEF Init, Byte
<1>2. TypeInv
  BY <1>1 DEF TypeInv, Pcs, Over, Byte
<1>3. HeapInv /\ BufferInv /\ MatchInv
  BY <1>1 DEF HeapInv, BufferInv, MatchInv, Running
<1>4. TokensUpto(1)
  BY <1>1, NoTokens DEF TokensUpto
<1>5. TokensInv
  <2>1. 1 \in 1 .. Len(stream) + 1 /\ ~Over
    BY <1>1 DEF Over
  <2>2. Splits(tokens, stream, TRUE, 1)
    BY <1>4 DEF TokensUpto, Upto
  <2> QED
    BY <1>1, <1>4, <2>1, <2>2 DEF TokensInv
<1> QED
  BY <1>2, <1>3, <1>5 DEF IInv

\* The actions that leave the buffer and the match alone.
LEMMA QuietInv ==
    ASSUME IInv, gdb_scanner \/ yy_fatal_error \/ yylex_destroy
    PROVE  IInv'
<1> USE DEF buffer, match
<1>1. /\ UNCHANGED <<stream, nread, buffer, match, tokens>>
      /\ pc \in {"start", "read", "eof"} /\ pc' \in {"init", "exit", "done"}
      /\ pc' = "init" => pc = "start"
  BY DEF gdb_scanner, yy_fatal_error, yylex_destroy
<1>2. TypeInv'
  BY <1>1 DEF IInv, TypeInv, Pcs, Over
<1>3. HeapInv'
  BY <1>1 DEF IInv, HeapInv, Running, gdb_scanner, yy_fatal_error, yylex_destroy,
              yylex_init_extra, yy_delete_buffer
<1>4. BufferInv' /\ MatchInv'
  BY <1>1 DEF BufferInv, MatchInv, Running
<1>5. TokensInv'
  <2>1. TokensInv
    BY DEF IInv
  <2> QED
    BY <1>1, <2>1 DEF TokensInv, TokensUpto, Over
<1> QED
  BY <1>2, <1>3, <1>4, <1>5 DEF IInv

LEMMA FirstInv == ASSUME IInv, yylex_first PROVE IInv'
<1>1. /\ pc = "init" /\ pc' = "token" /\ UNCHANGED <<stream, nread, tokens>>
      /\ UNCHANGED <<yy_current_state, yy_last_accepting>>
      /\ yy_n_chars' = 0 /\ yy_buffer_status' = "new" /\ yy_bp' = 0 /\ yy_cp' = 0
      /\ yy_hold_char' = 0 /\ yy_buf_size' = YY_BUF_SIZE /\ yy_ch_buf' = Table(<<0, 0>>)
      /\ heap = {"guts"} /\ heap' = {"guts", "stack", "buffer", "chars"}
      /\ nread = 0 /\ ~Over /\ TokensUpto(1)
  BY DEF yylex_first, yy_flush_buffer, yy_load_buffer_state, yyensure_buffer_stack,
         yy_create_buffer, IInv, HeapInv, TokensInv
<1>2. TypeInv'
  BY <1>1, ScannerAssumption DEF IInv, TypeInv, Pcs, Over, Byte
<1>3. HeapInv'
  BY <1>1 DEF HeapInv, Running
<1>4. BufferInv'
  <2>1. /\ yy_ch_buf' \in [0 .. 1 -> Byte]
        /\ yy_ch_buf'[0] = 0 /\ yy_ch_buf'[1] = 0
    BY <1>1 DEF Table, Byte
  <2>2. Restored' = [yy_ch_buf' EXCEPT ![0] = 0]
    BY <1>1 DEF Restored
  <2>3. Holds(Restored', 0, stream, 0)
    BY <2>1, <2>2 DEF Holds, Byte
  <2> QED
    BY <1>1, <2>1, <2>3, ScannerAssumption DEF BufferInv, Running
<1>5. MatchInv'
  BY <1>1 DEF MatchInv
<1>6. TokensInv'
  <2>1. At(yy_cp)' = 1
    BY <1>1 DEF At
  <2>2. TokensInv
    BY DEF IInv
  <2>3. TokensUpto(1)'
    BY <1>1 DEF TokensUpto, Over
  <2> QED
    BY <1>1, <2>1, <2>2, <2>3 DEF TokensInv, TokensUpto
<1> QED
  BY <1>2, <1>3, <1>4, <1>5, <1>6 DEF IInv

LEMMA TokenInv == ASSUME IInv, yylex_token PROVE IInv'
<1>1. /\ pc = "token" /\ pc' = "match" /\ yy_ch_buf' = Restored /\ yy_bp' = yy_cp
      /\ yy_current_state' = 1 /\ yy_cp' = yy_cp
      /\ UNCHANGED <<stream, nread, yy_n_chars, yy_buf_size, yy_buffer_status,
                     yy_hold_char, yy_last_accepting, tokens, heap>>
  BY DEF yylex_token, Restored
<1>2. TypeInv /\ TypeInv'
  BY <1>1 DEF IInv, TypeInv, Pcs, Over
<1>3. HeapInv'
  BY <1>1 DEF IInv, HeapInv, Running
<1>4. BufferInv'
  BY <1>1 DEF IInv, BufferInv, Running
<1>5. yy_cp <= yy_n_chars /\ TokensUpto(At(yy_cp)) /\ TokensInv
  BY <1>1 DEF IInv, MatchInv, TokensInv
<1>6. At(yy_bp)' = At(yy_cp) /\ At(yy_cp)' = At(yy_cp)
  BY <1>1 DEF At
<1>7. Reached(stream, 1, At(yy_cp), At(yy_cp))
  <2>1. At(yy_cp) \in 1 .. nread + 1 /\ nread \in 0 .. Len(stream)
    BY <1>2, <1>5 DEF TokensUpto, Upto, TypeInv
  <2> QED
    BY <2>1 DEF Reached
<1>8. MatchInv'
  BY <1>1, <1>5, <1>6, <1>7 DEF MatchInv, Live, Backup, Begun
<1>9. TokensInv'
  BY <1>1, <1>5, <1>6 DEF TokensInv, TokensUpto, Over
<1> QED
  BY <1>2, <1>3, <1>4, <1>8, <1>9 DEF IInv


\* A token found is in the text; a mark found is at most the one after it.
LEMMA FoundPlace ==
    ASSUME TypeInv, NEW s, NEW p, Found(s, p)
    PROVE  /\ p \in Nat /\ yy_bp <= p /\ p <= yy_n_chars + 1
           /\ s # 3 => p <= yy_n_chars
<1>1. nread \in Nat /\ yy_n_chars \in Nat /\ yy_bp \in Nat /\ stream \in Seq(Byte)
  BY DEF TypeInv
<1>2. CASE p \in Nat /\ Final(stream, nread, Over, s, At(yy_bp), At(p))
  <2>1. At(yy_bp) <= At(p) /\ At(p) <= nread + 1
    BY <1>1, <1>2, ReachedPlace DEF Final
  <2> QED
    BY <1>1, <1>2, <2>1 DEF At
<1>3. CASE s = 3 /\ Marked(p)
  BY <1>1, <1>3 DEF Marked
<1> QED
  BY <1>2, <1>3 DEF Found


LEMMA FindActionInv == ASSUME IInv, yy_find_action PROVE IInv'
<1> DEFINE s == yy_current_state'
           p == yy_cp'
<1>1. /\ pc = "find_action" /\ pc' = "action"
      /\ yy_hold_char' = yy_ch_buf[p] /\ yy_ch_buf' = [yy_ch_buf EXCEPT ![p] = 0]
      /\ UNCHANGED <<stream, nread, yy_n_chars, yy_buf_size, yy_buffer_status,
                     yy_bp, yy_last_accepting, tokens, heap>>
  BY DEF yy_find_action
<1>2. TypeInv /\ HeapInv /\ BufferInv /\ MatchInv /\ TokensInv
  BY DEF IInv
<1>3. Found(s, p)
  BY <1>1, <1>2 DEF MatchInv, yy_find_action
<1>4. s \in 0 .. 13
  BY <1>1, <1>2 DEF TypeInv, yy_find_action
<1> HIDE DEF s, p
<1>5. p \in Nat /\ yy_bp <= p /\ p <= yy_n_chars + 1
  BY <1>2, <1>3, FoundPlace
<1>6. p \in 0 .. yy_n_chars + 1
  BY <1>2, <1>5 DEF TypeInv
<1>7. Holds(yy_ch_buf, yy_n_chars, stream, nread) /\ yy_ch_buf \in [0 .. yy_n_chars + 1 -> Byte]
  BY <1>1, <1>2 DEF BufferInv, Holds
<1>8. TypeInv'
  <2>1. yy_hold_char' \in Byte
    BY <1>1, <1>6, <1>7
  <2> QED
    BY <1>1, <1>2, <1>4, <1>5, <2>1 DEF TypeInv, Pcs, Over, s, p
<1>9. HeapInv'
  BY <1>1, <1>2 DEF HeapInv, Running
<1>10. BufferInv'
  <2>1. yy_ch_buf' \in [0 .. yy_n_chars + 1 -> Byte]
    <3>1. 0 \in Byte
      BY DEF Byte
    <3> QED
      BY <1>1, <1>7, <3>1
  <2>2. Restored' = yy_ch_buf
    <3>1. Restored' = [yy_ch_buf' EXCEPT ![p] = yy_hold_char']
      BY DEF Restored, p
    <3> QED
      BY <1>1, <1>6, <1>7, <3>1
  <2> QED
    BY <1>1, <1>2, <1>7, <2>1, <2>2 DEF BufferInv, Running
<1>11. MatchInv'
  <2>1. Over' = Over
    BY <1>1 DEF Over
  <2>2. Found(yy_current_state, yy_cp)'
    BY <1>1, <1>3, <2>1 DEF Found, Marked, At, s, p
  <2> QED
    BY <1>1, <2>2 DEF MatchInv
<1>12. TokensInv'
  BY <1>1, <1>2 DEF TokensInv, TokensUpto, Over, At
<1> QED
  BY <1>8, <1>9, <1>10, <1>11, <1>12 DEF IInv

\* The text of a token is that of the stream.
LEMMA TextRead ==
    ASSUME TypeInv, BufferInv, pc = "action", yy_cp <= yy_n_chars
    PROVE  yytext = SubSeq(stream, At(yy_bp), At(yy_cp) - 1)
<1> DEFINE n == yy_cp - yy_bp
           i == At(yy_bp)
           j == At(yy_cp) - 1
           t == SubSeq(stream, i, j)
<1>1. /\ nread \in Nat /\ yy_n_chars \in Nat /\ yy_n_chars <= nread /\ stream \in Seq(Byte)
      /\ yy_bp \in Nat /\ yy_cp \in Nat /\ yy_bp <= yy_cp /\ nread <= Len(stream)
  BY DEF TypeInv
<1>2. n \in Nat /\ i \in Nat \ {0} /\ j - i + 1 = n /\ j \in Int /\ j <= Len(stream)
  BY <1>1 DEF At
<1>3. t \in Seq(Byte) /\ Len(t) = n /\ \A k \in 1 .. n : t[k] = stream[i + k - 1]
  <2> HIDE DEF i, j, n
  <2>1. \A k \in i .. j : stream[k] \in Byte
    BY <1>1, <1>2
  <2>2. /\ t \in Seq(Byte) /\ Len(t) = (IF i <= j THEN j - i + 1 ELSE 0)
        /\ \A k \in 1 .. j - i + 1 : t[k] = stream[i + k - 1]
    BY <1>2, <2>1, SubSeqProperties
  <2> QED
    BY <1>2, <2>2
<1>4. ASSUME NEW k \in 1 .. n PROVE yy_ch_buf[yy_bp + k - 1] = stream[i + k - 1]
  <2>1. /\ yy_bp + k - 1 \in 0 .. yy_n_chars - 1 /\ yy_bp + k - 1 \in 0 .. yy_n_chars + 1
        /\ yy_bp + k - 1 # yy_cp /\ nread - yy_n_chars + (yy_bp + k - 1) + 1 = i + k - 1
    BY <1>1 DEF At
  <2>2. /\ yy_ch_buf \in [0 .. yy_n_chars + 1 -> Byte]
        /\ \A p \in 0 .. yy_n_chars - 1 : Restored[p] = stream[nread - yy_n_chars + p + 1]
    BY DEF BufferInv, Holds
  <2>3. Restored[yy_bp + k - 1] = yy_ch_buf[yy_bp + k - 1]
    BY <2>1, <2>2 DEF Restored
  <2> HIDE DEF i, n
  <2> QED
    BY <2>1, <2>2, <2>3
<1>5. yytext = [k \in 1 .. n |-> stream[i + k - 1]]
  BY <1>4 DEF yytext
<1>6. t = [k \in 1 .. n |-> stream[i + k - 1]]
  <2> HIDE DEF n, i, t
  <2> QED
    BY <1>2, <1>3
<1> QED
  BY <1>5, <1>6

LEMMA RuleInv == ASSUME IInv, yylex_rule PROVE IInv'
<1> USE DEF buffer, match
<1>1. /\ pc = "action" /\ pc' = "token" /\ yy_act \in 1 .. 5
      /\ tokens' = Append(tokens, <<yy_act, yytext>>)
      /\ UNCHANGED <<stream, nread, buffer, match, heap>>
  BY DEF yylex_rule
<1>2. TypeInv /\ HeapInv /\ BufferInv /\ MatchInv /\ TokensInv
  BY DEF IInv
<1>3. yy_cp <= yy_n_chars /\ Final(stream, nread, Over, yy_current_state, At(yy_bp), At(yy_cp))
  <2>1. Found(yy_current_state, yy_cp) /\ yy_current_state # 3
    BY <1>1, <1>2, Accepts DEF MatchInv, yy_act
  <2> QED
    BY <1>2, <2>1, FoundPlace DEF Found
<1> DEFINE a == <<yy_act, yytext>>
<1>4. a \in Token /\ Upto(Append(tokens, a), stream, nread, Over, At(yy_cp))
  <2>1. Upto(tokens, stream, nread, Over, At(yy_bp))
    BY <1>1, <1>2 DEF TokensInv, TokensUpto
  <2>2. /\ <<yy_act, SubSeq(stream, At(yy_bp), At(yy_cp) - 1)>> \in Token
        /\ Upto(Append(tokens, <<yy_act, SubSeq(stream, At(yy_bp), At(yy_cp) - 1)>>),
                stream, nread, Over, At(yy_cp))
    BY <1>2, <1>3, <2>1, RuleRun DEF yy_act, TypeInv
  <2>3. yytext = SubSeq(stream, At(yy_bp), At(yy_cp) - 1)
    BY <1>1, <1>2, <1>3, TextRead
  <2> QED
    BY <2>2, <2>3
<1> HIDE DEF a
<1>5. tokens' = Append(tokens, a)
  BY <1>1 DEF a
<1>6. TypeInv'
  <2>1. tokens' \in Seq(Token)
    BY <1>2, <1>4, <1>5, AppendProperties DEF TypeInv
  <2> QED
    BY <1>1, <1>2, <2>1 DEF TypeInv, Pcs, Over
<1>7. HeapInv'
  BY <1>1, <1>2 DEF HeapInv, Running
<1>8. BufferInv'
  BY <1>1, <1>2 DEF BufferInv, Running, Restored
<1>9. MatchInv'
  BY <1>1, <1>3 DEF MatchInv
<1>10. TokensInv'
  <2>1. TokensUpto(At(yy_cp))'
    BY <1>1, <1>4, <1>5 DEF TokensUpto, Over, At
  <2>2. At(yy_cp)' \in 1 .. nread' + 1 /\ Splits(tokens', stream', TRUE, At(yy_cp)')
    BY <2>1 DEF TokensUpto, Upto
  <2>3. At(yy_cp)' \in 1 .. Len(stream') + 1
    BY <1>6, <2>2 DEF TypeInv
  <2> QED
    BY <1>1, <2>1, <2>2, <2>3 DEF TokensInv
<1> QED
  BY <1>6, <1>7, <1>8, <1>9, <1>10 DEF IInv

\* The end of the buffer: the match was interrupted at the character before.
LEMMA EndMarked ==
    ASSUME IInv, EndOfBuffer
    PROVE  Marked(yy_cp)
<1>1. pc = "action" /\ yy_accept[yy_current_state] = 6
  BY DEF EndOfBuffer, yy_act
<1>2. Found(yy_current_state, yy_cp)
  BY <1>1 DEF IInv, MatchInv
<1>3. yy_current_state \notin {4, 5, 6, 7, 8, 12}
  BY <1>1, Accepts
<1> QED
  BY <1>2, <1>3 DEF Found, Final

\* One doubling of the buffer is enough.
LEMMA GrownEnough ==
    ASSUME NEW size \in Nat, number_to_move \in Nat, number_to_move < size
    PROVE  Grown(size) \in Nat /\ Grown(size) > number_to_move + 1
<1> DEFINE m == number_to_move
           S == size .. size + 2 * m + 2
           Fits(new) == /\ \E k \in 0 .. m + 1 : new = size * 2 ^ k
                        /\ new - m - 1 > 0
                        /\ new = size \/ (new \div 2) - m - 1 <= 0
<1>1. \E new \in S : Fits(new)
  <2> HIDE DEF m
  <2>1. m \in Nat /\ m < size
    BY DEF m
  <2>2. CASE size - m - 1 > 0
    <3>1. size \in S /\ 0 \in 0 .. m + 1 /\ size = size * 2 ^ 0
      BY <2>1
    <3> QED
      BY <2>2, <3>1
  <2>3. CASE ~(size - m - 1 > 0)
    <3> DEFINE new == size * 2
    <3>1. size = m + 1 /\ new \in S /\ 1 \in 0 .. m + 1 /\ new = size * 2 ^ 1
      BY <2>1, <2>3
    <3>2. new - m - 1 > 0 /\ new \div 2 = size
      BY <2>1, <3>1
    <3>3. (new \div 2) - m - 1 <= 0
      BY <2>1, <3>1, <3>2
    <3> HIDE DEF new
    <3> QED
      BY <3>1, <3>2, <3>3
  <2> QED
    BY <2>2, <2>3
<1>2. Grown(size) = CHOOSE new \in S : Fits(new)
  BY DEF Grown
<1>3. Grown(size) \in S /\ Fits(Grown(size))
  <2> HIDE DEF S, Fits
  <2> QED
    BY <1>1, <1>2
<1> HIDE DEF m
<1>4. m \in Nat
  BY DEF m
<1>5. Grown(size) \in Nat /\ Grown(size) > m + 1
  BY <1>3, <1>4
<1> QED
  BY <1>5 DEF m

LEMMA NextBufferInv == ASSUME IInv, yy_get_next_buffer PROVE IInv'
<1> DEFINE m == number_to_move
<1>1. /\ pc = "action" /\ pc' = "read" /\ yy_cp > yy_n_chars
      /\ yy_ch_buf' = [i \in 0 .. m - 1 |-> Restored[yy_bp + i]]
      /\ yy_n_chars' = m /\ yy_bp' = 0 /\ yy_cp' = m
      /\ yy_buf_size' = IF Over THEN yy_buf_size ELSE Grown(yy_buf_size)
      /\ UNCHANGED <<stream, nread, yy_hold_char, yy_current_state,
                     yy_last_accepting, tokens, heap>>
  BY DEF yy_get_next_buffer, EndOfBuffer, Over
<1>2. TypeInv /\ HeapInv /\ BufferInv /\ MatchInv /\ TokensInv
  BY DEF IInv
<1>3. Over' = Over /\ yy_buffer_status' \in {"new", "normal", "eof_pending"}
  BY <1>2 DEF yy_get_next_buffer, Known, Over, TypeInv
<1>4. Marked(yy_cp)
  BY EndMarked DEF yy_get_next_buffer
<1>5. /\ nread \in Nat /\ yy_n_chars \in Nat /\ yy_n_chars <= nread /\ yy_bp \in Nat
      /\ yy_cp = yy_n_chars + 1 /\ m = yy_n_chars - yy_bp /\ m \in Nat /\ m <= nread
  BY <1>1, <1>2, <1>4 DEF TypeInv, Marked, number_to_move
<1>6. yy_n_chars < yy_buf_size /\ yy_buf_size \in Nat
  BY <1>1, <1>2 DEF BufferInv, Running, TypeInv
<1>7. ~Over => Grown(yy_buf_size) \in Nat /\ Grown(yy_buf_size) > m + 1
  BY <1>5, <1>6, GrownEnough
<1>8. TypeInv'
  BY <1>1, <1>2, <1>3, <1>5, <1>6, <1>7 DEF TypeInv, Pcs
<1>9. HeapInv'
  BY <1>1, <1>2 DEF HeapInv, Running
<1>10. \A p : At(p)' = nread - m + p + 1
  BY <1>1 DEF At
<1> HIDE DEF m
<1>11. BufferInv'
  <2>1. Holds(Restored, yy_n_chars, stream, nread)
    BY <1>1, <1>2 DEF BufferInv
  <2>2. ASSUME NEW p \in 0 .. m - 1
        PROVE  Restored[yy_bp + p] \in Byte /\ Restored[yy_bp + p] = stream[nread - m + p + 1]
    <3>1. /\ yy_bp + p \in 0 .. yy_n_chars - 1 /\ yy_bp + p \in 0 .. yy_n_chars + 1
          /\ nread - yy_n_chars + (yy_bp + p) + 1 = nread - m + p + 1
      BY <1>5
    <3> QED
      BY <2>1, <3>1 DEF Holds
  <2>3. /\ yy_ch_buf' \in [0 .. m - 1 -> Byte]
        /\ \A p \in 0 .. m - 1 : yy_ch_buf'[p] = stream[nread - m + p + 1]
    BY <1>1, <2>2
  <2>4. yy_n_chars' < yy_buf_size'
    BY <1>1, <1>5, <1>6, <1>7
  <2>5. ~Over => num_to_read' > 0
    BY <1>1, <1>5, <1>7, ScannerAssumption DEF num_to_read
  <2> QED
    BY <1>1, <1>3, <1>10, <2>3, <2>4, <2>5 DEF BufferInv, Running
<1>12. At(yy_bp)' = At(yy_bp) /\ At(yy_cp)' = At(yy_cp - 1)
  BY <1>1, <1>5 DEF At
<1>13. MatchInv'
  <2>1. Interrupted(stream, At(yy_bp), At(yy_cp - 1))
    BY <1>4 DEF Marked
  <2> QED
    BY <1>1, <1>12, <2>1 DEF MatchInv
<1>14. TokensInv'
  BY <1>1, <1>2, <1>3, <1>12 DEF TokensInv, TokensUpto
<1> QED
  BY <1>8, <1>9, <1>11, <1>13, <1>14 DEF IInv

\* The buffer after n more bytes.
LEMMA FilledHolds ==
    ASSUME IInv, pc = "read", NEW n \in Nat, nread + n <= Len(stream)
    PROVE  /\ Holds(Filled(n), yy_n_chars + n, stream, nread + n)
           /\ Same(stream, Filled(n), nread - yy_n_chars, yy_bp, yy_cp)
<1> DEFINE buf == Filled(n)
           size == yy_n_chars + n
           r == nread + n
           a == nread - yy_n_chars
<1>1. /\ nread \in Nat /\ yy_n_chars \in Nat /\ yy_n_chars <= nread /\ stream \in Seq(Byte)
      /\ yy_bp = 0 /\ yy_cp = yy_n_chars /\ Len(stream) \in Nat /\ nread <= Len(stream)
      /\ yy_ch_buf \in [0 .. yy_n_chars - 1 -> Byte]
      /\ \A p \in 0 .. yy_n_chars - 1 : yy_ch_buf[p] = stream[a + p + 1]
  <2>1. TypeInv /\ BufferInv
    BY DEF IInv
  <2>2. /\ yy_bp = 0 /\ yy_cp = yy_n_chars /\ yy_ch_buf \in [0 .. yy_n_chars - 1 -> Byte]
        /\ \A p \in 0 .. yy_n_chars - 1 : yy_ch_buf[p] = stream[At(p)]
    BY <2>1 DEF BufferInv
  <2>3. /\ nread \in Nat /\ yy_n_chars \in Nat /\ yy_n_chars <= nread /\ stream \in Seq(Byte)
        /\ Len(stream) \in Nat /\ nread <= Len(stream)
    BY <2>1 DEF TypeInv
  <2>4. \A p : At(p) = a + p + 1
    BY DEF At
  <2> HIDE DEF a
  <2> QED
    BY <2>2, <2>3, <2>4
<1>2. /\ size \in Nat /\ r \in Nat /\ a \in Nat /\ yy_n_chars <= size /\ r - size = a
      /\ r <= Len(stream) /\ a + size = r /\ a + yy_n_chars <= Len(stream)
  BY <1>1
<1>3. buf = [i \in 0 .. size + 1 |->
                IF i < yy_n_chars THEN yy_ch_buf[i]
                ELSE IF i < size THEN stream[nread + 1 + i - yy_n_chars] ELSE 0]
  BY DEF Filled
<1>4. \A p \in Nat : nread + 1 + p - yy_n_chars = a + p + 1
  BY <1>1
<1> HIDE DEF buf, size, r, a
<1>5. ASSUME NEW p \in 0 .. size - 1
      PROVE  p \in 0 .. size + 1 /\ buf[p] = stream[a + p + 1] /\ stream[a + p + 1] \in Byte
  <2>1. p \in Nat /\ p \in 0 .. size + 1 /\ a + p + 1 \in 1 .. Len(stream) /\ p < size
    BY <1>2
  <2>2. stream[a + p + 1] \in Byte
    BY <1>1, <2>1
  <2>3. CASE p < yy_n_chars
    <3>1. p \in 0 .. yy_n_chars - 1
      BY <1>1, <2>1, <2>3
    <3> QED
      BY <1>1, <1>3, <2>1, <2>2, <2>3, <3>1
  <2>4. CASE ~(p < yy_n_chars)
    BY <1>3, <1>4, <2>1, <2>2, <2>4
  <2> QED
    BY <2>3, <2>4
<1>6. buf[size] = 0 /\ buf[size + 1] = 0 /\ 0 \in Byte
  BY <1>1, <1>2, <1>3 DEF Byte
<1>7. Holds(buf, size, stream, r)
  <2>1. \A p \in 0 .. size + 1 : p \in 0 .. size - 1 \/ p = size \/ p = size + 1
    BY <1>2
  <2>2. \A p \in 0 .. size + 1 : buf[p] \in Byte
    BY <1>5, <1>6, <2>1
  <2>3. buf \in [0 .. size + 1 -> Byte]
    BY <1>3, <2>2
  <2>4. \A p \in 0 .. size - 1 : buf[p] = stream[r - size + p + 1]
    BY <1>2, <1>5
  <2> QED
    BY <1>6, <2>3, <2>4 DEF Holds
<1>8. Same(stream, buf, a, yy_bp, yy_cp)
  <2>1. \A p \in yy_bp .. yy_cp - 1 : p \in 0 .. size - 1
    BY <1>1, <1>2
  <2>2. yy_bp \in Nat /\ yy_cp \in Nat /\ yy_bp <= yy_cp /\ a + yy_cp <= Len(stream)
    BY <1>1, <1>2
  <2> QED
    BY <1>2, <1>5, <2>1, <2>2 DEF Same
<1> QED
  BY <1>7, <1>8 DEF buf, size, r, a

\* The match goes on in the state it was interrupted in.
LEMMA Resumed ==
    ASSUME IInv, pc = "read", NEW n \in Nat, nread + n <= Len(stream), Resume(n)
    PROVE  \E s \in States \ {0} :
              /\ Live(stream, s, At(yy_bp)) /\ Reached(stream, s, At(yy_bp), At(yy_cp))
              /\ yy_current_state' = s
              /\ yy_last_accepting' = IF s \in Begun \ {6} THEN [state |-> 6, cpos |-> yy_bp + 1]
                                      ELSE yy_last_accepting
<1>1. PICK s \in States \ {0} :
        Live(stream, s, At(yy_bp)) /\ Reached(stream, s, At(yy_bp), At(yy_cp))
  BY DEF IInv, MatchInv, Interrupted
<1>2. s \in {1, 4} \cup Begun
  BY <1>1 DEF Live
<1>3. Same(stream, Filled(n), nread - yy_n_chars, yy_bp, yy_cp)
  BY FilledHolds
<1>4. Reached(stream, s, nread - yy_n_chars + yy_bp + 1, nread - yy_n_chars + yy_cp + 1)
  BY <1>1 DEF At
<1>5. yy_get_previous_state(Filled(n), yy_bp, yy_cp) =
        [state |-> s,
         last |-> IF s \in Begun \ {6} THEN [state |-> 6, cpos |-> yy_bp + 1]
                  ELSE yy_last_accepting]
  <2>1. stream \in Seq(Byte)
    BY DEF IInv, TypeInv
  <2> QED
    BY <1>2, <1>3, <1>4, <2>1, PreviousState
<1> QED
  BY <1>1, <1>5 DEF Resume

LEMMA InputInv ==
    ASSUME IInv, NEW n \in 1 .. Len(stream), yy_input(n)
    PROVE  IInv'
<1>1. /\ pc = "read" /\ pc' = "match" /\ ~Over /\ Resume(n)
      /\ n <= num_to_read /\ nread + n <= Len(stream) /\ nread' = nread + n
      /\ yy_ch_buf' = Filled(n) /\ yy_n_chars' = yy_n_chars + n
      /\ UNCHANGED <<stream, yy_buf_size, yy_buffer_status, yy_bp, yy_cp,
                     yy_hold_char, tokens, heap>>
  BY DEF yy_input, YY_INPUT, Over
<1>2. TypeInv /\ HeapInv /\ BufferInv /\ MatchInv /\ TokensInv
  BY DEF IInv
<1>3. /\ nread \in Nat /\ yy_n_chars \in Nat /\ yy_n_chars <= nread /\ n \in Nat /\ n > 0
      /\ yy_bp = 0 /\ yy_cp = yy_n_chars /\ Len(stream) \in Nat /\ nread <= Len(stream)
      /\ yy_buf_size \in Nat
  BY <1>1, <1>2 DEF TypeInv, BufferInv
<1>4. PICK s \in States \ {0} :
        /\ Live(stream, s, At(yy_bp)) /\ Reached(stream, s, At(yy_bp), At(yy_cp))
        /\ yy_current_state' = s
        /\ yy_last_accepting' = IF s \in Begun \ {6} THEN [state |-> 6, cpos |-> yy_bp + 1]
                                ELSE yy_last_accepting
  BY <1>1, <1>3, Resumed
<1>5. s \in {1, 4, 6, 9, 10, 11}
  BY <1>4 DEF Live, Begun
<1>6. Over' = Over
  BY <1>1 DEF Over
<1>7. At(yy_bp)' = At(yy_bp) /\ At(yy_cp)' = At(yy_cp)
  BY <1>1, <1>3 DEF At
<1>8. TypeInv'
  <2>1. yy_last_accepting' \in [state : 0 .. 13, cpos : Nat]
    BY <1>2, <1>3, <1>4 DEF TypeInv
  <2> QED
    BY <1>1, <1>2, <1>3, <1>4, <1>5, <1>6, <2>1 DEF TypeInv, Pcs
<1>9. HeapInv'
  BY <1>1, <1>2 DEF HeapInv, Running
<1>10. BufferInv'
  <2>1. Holds(Filled(n), yy_n_chars + n, stream, nread + n)
    BY <1>1, <1>3, FilledHolds
  <2>2. yy_n_chars' < yy_buf_size'
    BY <1>1, <1>3, ScannerAssumption DEF num_to_read
  <2> QED
    BY <1>1, <2>1, <2>2 DEF BufferInv, Running
<1>11. MatchInv'
  <2>1. Backup(s)'
    BY <1>1, <1>4 DEF Backup
  <2>2. yy_cp' <= yy_n_chars'
    BY <1>1, <1>3
  <2> QED
    BY <1>1, <1>4, <1>5, <1>7, <2>1, <2>2 DEF MatchInv, Backup
<1>12. TokensInv'
  <2>1. Upto(tokens, stream, nread, Over, At(yy_bp))
    BY <1>1, <1>2 DEF TokensInv, TokensUpto
  <2>2. Upto(tokens, stream, nread + n, Over, At(yy_bp))
    <3>1. \A i \in 1 .. nread + 1 : i \in 1 .. nread + n + 1
      BY <1>3
    <3>2. \A k \in nread + n .. Len(stream) : k \in nread .. Len(stream)
      BY <1>3
    <3> QED
      BY <2>1, <3>1, <3>2 DEF Upto
  <2> QED
    BY <1>1, <1>2, <1>6, <1>7, <2>2 DEF TokensInv, TokensUpto
<1> QED
  BY <1>8, <1>9, <1>10, <1>11, <1>12 DEF IInv

\* No byte is read only when none is left.
LEMMA EofRead ==
    ASSUME IInv, Eof
    PROVE  pc = "read" /\ nread = Len(stream)
<1>1. ~Over => num_to_read > 0
  BY DEF IInv, BufferInv, Eof
<1>2. CASE Over
  BY <1>2 DEF IInv, TypeInv, Eof
<1>3. CASE ~Over
  <2>1. num_to_read \in Int
    BY ScannerAssumption DEF IInv, TypeInv, num_to_read
  <2>2. ~(num_to_read <= 0)
    BY <1>1, <1>3, <2>1
  <2> QED
    BY <1>3, <2>2 DEF Eof, Over
<1> QED
  BY <1>2, <1>3

LEMMA LastInv == ASSUME IInv, yy_input_last PROVE IInv'
<1>1. /\ pc = "read" /\ nread = Len(stream)
  BY EofRead DEF yy_input_last
<1>2. /\ yy_n_chars > 0 /\ yy_ch_buf' = Filled(0) /\ Resume(0) /\ pc' = "find_action" /\ Over'
      /\ yy_buffer_status' = "eof_pending"
      /\ UNCHANGED <<stream, nread, yy_n_chars, yy_buf_size, yy_bp, yy_cp,
                     yy_hold_char, tokens, heap>>
  BY DEF yy_input_last, Over
<1>3. TypeInv /\ HeapInv /\ BufferInv /\ MatchInv /\ TokensInv
  BY DEF IInv
<1>4. /\ nread \in Nat /\ yy_n_chars \in Nat /\ yy_n_chars <= nread /\ stream \in Seq(Byte)
      /\ yy_bp = 0 /\ yy_cp = yy_n_chars /\ Len(stream) \in Nat /\ nread + 0 <= Len(stream)
  BY <1>1, <1>3 DEF TypeInv, BufferInv
<1>5. PICK s \in States \ {0} :
        /\ Live(stream, s, At(yy_bp)) /\ Reached(stream, s, At(yy_bp), At(yy_cp))
        /\ yy_current_state' = s
        /\ yy_last_accepting' = IF s \in Begun \ {6} THEN [state |-> 6, cpos |-> yy_bp + 1]
                                ELSE yy_last_accepting
  BY <1>1, <1>2, <1>4, Resumed
<1>6. s \in {1, 4, 6, 9, 10, 11}
  BY <1>5 DEF Live, Begun
<1>7. TypeInv'
  <2>1. yy_last_accepting' \in [state : 0 .. 13, cpos : Nat]
    BY <1>3, <1>4, <1>5 DEF TypeInv
  <2> QED
    BY <1>1, <1>2, <1>3, <1>5, <1>6, <2>1 DEF TypeInv, Pcs
<1>8. HeapInv'
  BY <1>1, <1>2, <1>3 DEF HeapInv, Running
<1>9. BufferInv'
  <2>1. Holds(Filled(0), yy_n_chars + 0, stream, nread + 0)
    BY <1>1, <1>4, FilledHolds
  <2>2. yy_n_chars + 0 = yy_n_chars /\ nread + 0 = nread
    BY <1>4
  <2> QED
    BY <1>1, <1>2, <1>3, <2>1, <2>2 DEF BufferInv, Running
<1>10. At(yy_bp)' = At(yy_bp) /\ At(yy_cp) = Len(stream) + 1 /\ At(yy_bp + 1) = At(yy_bp) + 1
  BY <1>1, <1>2, <1>4 DEF At
<1>11. MatchInv'
  <2>1. s # 1
    <3>1. At(yy_bp) # At(yy_cp)
      BY <1>2, <1>4 DEF At
    <3> QED
      BY <1>5, <3>1 DEF Reached
  <2>2. yy_cp' <= yy_n_chars' + 2
    BY <1>2, <1>4
  <2>3. CASE s = 4
    <3>1. Final(stream, nread, TRUE, 4, At(yy_bp), At(yy_cp))
      <4>1. nread \in 0 .. Len(stream) /\ At(yy_cp) <= nread + 1
        BY <1>1, <1>4, <1>10
      <4> QED
        BY <1>4, <1>5, <2>3, <4>1, FinalOne
    <3>2. Found(4, yy_cp)'
      BY <1>2, <1>4, <3>1 DEF Found, At
    <3> QED
      BY <1>2, <1>5, <2>2, <2>3, <3>2, Accepts DEF MatchInv
  <2>4. CASE s \in Begun
    <3>1. Final(stream, nread, TRUE, 6, At(yy_bp), At(yy_bp + 1))
      BY <1>1, <1>4, <1>5, <1>10, <2>4, FinalCut
    <3>2. yy_bp + 1 \in Nat
      BY <1>4
    <3>3. Found(6, yy_bp + 1)'
      BY <1>2, <3>1, <3>2 DEF Found, At
    <3>4. CASE s = 6
      <4>1. At(yy_cp) = At(yy_bp) + 1
        BY <1>4, <1>5, <3>4, DollarReached DEF Begun
      <4>2. yy_cp = yy_bp + 1
        BY <1>4, <4>1 DEF At
      <4> QED
        BY <1>2, <1>5, <2>2, <3>3, <3>4, <4>2, Accepts DEF MatchInv
    <3>5. CASE s # 6
      BY <1>2, <1>5, <2>2, <2>4, <3>3, <3>5, Accepts DEF MatchInv, Begun
    <3> QED
      BY <3>4, <3>5
  <2> QED
    BY <1>6, <2>1, <2>3, <2>4 DEF Begun
<1>12. TokensInv'
  <2>1. Upto(tokens, stream, nread, TRUE, At(yy_bp))
    BY <1>1, <1>3 DEF TokensInv, TokensUpto, Upto
  <2> QED
    BY <1>2, <1>3, <1>10, <2>1 DEF TokensInv, TokensUpto
<1> QED
  BY <1>7, <1>8, <1>9, <1>11, <1>12 DEF IInv

LEMMA EofInv == ASSUME IInv, yy_input_eof PROVE IInv'
<1>1. pc = "read" /\ nread = Len(stream)
  BY EofRead DEF yy_input_eof
<1>2. /\ yy_n_chars = 0 /\ pc' = "eof" /\ yy_n_chars' = 0 /\ yy_buffer_status' = "new"
      /\ yy_bp' = 0 /\ yy_cp' = 0 /\ yy_hold_char' = 0
      /\ UNCHANGED <<stream, nread, yy_buf_size, yy_current_state,
                     yy_last_accepting, tokens, heap>>
  BY DEF yy_input_eof, yyrestart, yy_flush_buffer, yy_load_buffer_state
<1>3. TypeInv /\ HeapInv /\ BufferInv /\ TokensInv
  BY DEF IInv
<1>4. TypeInv'
  BY <1>1, <1>2, <1>3 DEF TypeInv, Pcs, Over, Byte
<1>5. HeapInv' /\ MatchInv'
  BY <1>1, <1>2, <1>3 DEF HeapInv, MatchInv, Running
<1>6. BufferInv'
  BY <1>1, <1>2, <1>3 DEF BufferInv, Running
<1>7. TokensInv'
  <2>1. yy_bp = 0 /\ nread \in Nat
    BY <1>1, <1>3 DEF BufferInv, TypeInv
  <2>2. At(yy_bp) = Len(stream) + 1
    BY <1>1, <1>2, <2>1 DEF At
  <2>3. Splits(tokens, stream, TRUE, Len(stream) + 1)
    BY <1>1, <1>3, <2>2 DEF TokensInv, TokensUpto, Upto
  <2> QED
    BY <1>2, <1>3, <2>3 DEF TokensInv
<1> QED
  BY <1>4, <1>5, <1>6, <1>7 DEF IInv

\* The NUL of the text that a mark turned out to be.
LEMMA NulInv == ASSUME IInv, end_of_buffer_nul PROVE IInv'
<1> DEFINE prev == yy_get_previous_state(Restored, yy_bp, yy_cp - 1)
           next == yy_try_NUL_trans(prev.state)
<1>1. /\ pc = "action" /\ EndOfBuffer /\ yy_cp <= yy_n_chars /\ yy_ch_buf' = Restored
      /\ yy_last_accepting' = IF yy_accept[prev.state] # 0
                              THEN [state |-> prev.state, cpos |-> yy_cp - 1] ELSE prev.last
      /\ \/ /\ next # 0 /\ pc' = "match"
            /\ yy_current_state' = next /\ yy_cp' = yy_cp
         \/ /\ next = 0 /\ pc' = "find_action"
            /\ yy_current_state' = prev.state /\ yy_cp' = yy_cp - 1
      /\ UNCHANGED <<stream, nread, yy_n_chars, yy_buf_size, yy_bp,
                     yy_hold_char, tokens, heap>>
  BY DEF end_of_buffer_nul, EndOfBuffer
<1>2. TypeInv /\ HeapInv /\ BufferInv /\ MatchInv /\ TokensInv
  BY DEF IInv
<1>3. Over' = Over /\ yy_buffer_status' \in {"new", "normal", "eof_pending"}
  BY <1>2 DEF end_of_buffer_nul, Known, Over, TypeInv
<1>4. /\ nread \in Nat /\ yy_n_chars \in Nat /\ yy_n_chars <= nread /\ stream \in Seq(Byte)
      /\ yy_bp \in Nat /\ yy_cp \in Nat /\ Len(stream) \in Nat /\ nread <= Len(stream)
  BY <1>2 DEF TypeInv
<1>5. Marked(yy_cp)
  BY <1>1, EndMarked
<1> DEFINE i == At(yy_bp)
           j == At(yy_cp - 1)
<1>6. PICK s \in States \ {0} : Live(stream, s, i) /\ Reached(stream, s, i, j)
  BY <1>5 DEF Marked, Interrupted
<1>7. s \in {1, 4, 6, 9, 10, 11}
  BY <1>6 DEF Live, Begun
<1>8. /\ yy_bp <= yy_cp - 1 /\ yy_cp - 1 \in Nat /\ j \in Nat /\ j <= nread /\ j <= Len(stream)
      /\ At(yy_cp) = j + 1 /\ At(yy_bp + 1) = i + 1 /\ stream[j] = 0
  BY <1>1, <1>4, <1>5 DEF Marked, At
<1>9. Holds(Restored, yy_n_chars, stream, nread)
  BY <1>1, <1>2 DEF BufferInv
<1>10. prev = [state |-> s,
               last |-> IF s \in Begun \ {6} THEN [state |-> 6, cpos |-> yy_bp + 1]
                        ELSE yy_last_accepting]
  <2>1. Same(stream, Restored, nread - yy_n_chars, yy_bp, yy_cp - 1)
    <3>1. nread - yy_n_chars \in Nat /\ nread - yy_n_chars + (yy_cp - 1) <= Len(stream)
      BY <1>1, <1>4
    <3>2. \A p \in yy_bp .. yy_cp - 1 - 1 : p \in 0 .. yy_n_chars - 1
      BY <1>1, <1>4
    <3> QED
      BY <1>4, <1>8, <1>9, <3>1, <3>2 DEF Same, Holds
  <2>2. Reached(stream, s, nread - yy_n_chars + yy_bp + 1, nread - yy_n_chars + (yy_cp - 1) + 1)
    BY <1>6 DEF At
  <2>3. s \in {1, 4} \cup Begun
    BY <1>7 DEF Begun
  <2> QED
    BY <1>4, <2>1, <2>2, <2>3, PreviousState
<1> HIDE DEF prev
<1>11. prev.state = s /\ (s \in Begun \ {6} => prev.last = [state |-> 6, cpos |-> yy_bp + 1])
       /\ (s \notin Begun \ {6} => prev.last = yy_last_accepting)
  BY <1>10
<1>12. TextClass(stream[j]) = 1 /\ 1 \in Classes
  BY <1>8 DEF TextClass, Classes
<1>13. next = IF s \in {4, 10, 11} THEN 0 ELSE Row(s, 1)
  <2>1. yy_trans[<<s, 1>>] = Row(s, 1)
    BY <1>12, Tables
  <2>2. Row(s, 1) = 13 <=> s \in {4, 10, 11}
    BY <1>7 DEF Row, First
  <2> QED
    BY <1>11, <2>1, <2>2 DEF yy_try_NUL_trans
<1>14. Row(s, 1) = (IF s = 1 THEN 4 ELSE IF s \in {6, 9} THEN 9 ELSE 13)
  BY <1>7 DEF Row, First
<1> HIDE DEF next, i, j
<1>15. yy_current_state' \in 0 .. 13 /\ pc' \in {"match", "find_action"}
  BY <1>1, <1>7, <1>11, <1>13, <1>14
<1>16. yy_last_accepting' \in [state : 0 .. 13, cpos : Nat]
  <2>1. prev.last \in [state : 0 .. 13, cpos : Nat]
    BY <1>2, <1>4, <1>11 DEF TypeInv
  <2>2. [state |-> s, cpos |-> yy_cp - 1] \in [state : 0 .. 13, cpos : Nat]
    BY <1>7, <1>8
  <2> QED
    BY <1>1, <1>11, <2>1, <2>2
<1>17. TypeInv'
  <2>1. yy_cp' \in Nat /\ yy_bp' <= yy_cp'
    BY <1>1, <1>4, <1>8
  <2> QED
    BY <1>1, <1>2, <1>3, <1>15, <1>16, <2>1 DEF TypeInv, Pcs
<1>18. HeapInv'
  BY <1>1, <1>2, <1>15 DEF HeapInv, Running
<1>19. BufferInv'
  BY <1>1, <1>2, <1>9, <1>15 DEF BufferInv, Running
<1>20. At(yy_bp)' = i
  BY <1>1 DEF At, i
<1>21. MatchInv'
  <2>1. CASE s \in {1, 6, 9}
    <3>1. /\ Row(s, 1) # 13 /\ Row(s, 1) # 0 /\ Row(s, 1) # 3
          /\ Row(s, 1) \in {4, 9} /\ next = Row(s, 1)
      BY <1>13, <1>14, <2>1
    <3>2. Reached(stream, Row(s, 1), i, j + 1)
      BY <1>4, <1>6, <1>8, <1>12, <2>1, <3>1, ReachedStep DEF Begun
    <3>3. pc' = "match" /\ yy_current_state' = Row(s, 1) /\ yy_cp' = yy_cp
      BY <1>1, <3>1
    <3>4. At(yy_cp)' = j + 1
      BY <1>1, <1>8, <3>3 DEF At
    <3>5. Live(stream, Row(s, 1), i)
      <4>1. s = 1 => stream[i] = 0
        BY <1>6, <1>8 DEF Reached
      <4> QED
        BY <1>14, <2>1, <4>1 DEF Live, Begun
    <3>6. Row(s, 1) = 9 => yy_last_accepting' = [state |-> 6, cpos |-> yy_bp + 1]
      <4>1. CASE s = 6
        <5>1. j = i + 1
          BY <1>4, <1>6, <4>1, DollarReached DEF Begun
        <5>2. yy_cp - 1 = yy_bp + 1
          BY <1>4, <5>1 DEF At, i, j
        <5> QED
          BY <1>1, <1>11, <4>1, <5>2, Accepts
      <4>2. CASE s = 9
        BY <1>1, <1>11, <4>2, Accepts DEF Begun
      <4> QED
        BY <1>14, <2>1, <4>1, <4>2
    <3>7. Backup(yy_current_state)'
      BY <1>1, <3>1, <3>3, <3>6 DEF Backup, Begun
    <3> QED
      BY <1>1, <1>20, <3>1, <3>2, <3>3, <3>4, <3>5, <3>7 DEF MatchInv
  <2>2. CASE s \in {4, 10, 11}
    <3>1. /\ pc' = "find_action" /\ yy_current_state' = s /\ yy_cp' = yy_cp - 1
          /\ yy_cp' <= yy_n_chars' + 2
      BY <1>1, <1>4, <1>11, <1>13, <2>2
    <3>2. nread \in 0 .. Len(stream)
      BY <1>4
    <3>3. CASE s = 4
      <4>1. Final(stream, nread, Over, 4, i, j)
        <5>1. Reached(stream, 4, i, j) /\ j <= nread + 1
          BY <1>4, <1>6, <1>8, <3>3
        <5>2. Over \/ stream[i] # 0 \/ j <= nread
          BY <1>8
        <5> QED
          BY <1>4, <3>2, <5>1, <5>2, FinalOne
      <4>2. Final(stream', nread', Over', 4, At(yy_bp)', At(yy_cp)') /\ yy_cp' \in Nat
        BY <1>1, <1>3, <1>8, <1>20, <3>1, <4>1 DEF At, j
      <4> QED
        BY <1>1, <3>1, <3>3, <4>2, Accepts DEF MatchInv, Found
    <3>4. CASE s \in {10, 11}
      <4>1. Row(s, TextClass(stream[j])) = 13
        BY <1>12, <1>14, <3>4
      <4>2. Final(stream, nread, Over, 6, i, i + 1)
        BY <1>4, <1>6, <1>8, <3>2, <3>4, <4>1, FinalGivenUp DEF Begun
      <4>3. yy_last_accepting' = [state |-> 6, cpos |-> yy_bp + 1] /\ yy_accept[s] = 0
        BY <1>1, <1>11, <3>4, Accepts DEF Begun
      <4>4. At(yy_bp + 1)' = i + 1 /\ yy_bp + 1 \in Nat
        BY <1>1, <1>4, <1>8 DEF At
      <4>5. Found(6, yy_bp + 1)'
        BY <1>1, <1>3, <1>20, <4>2, <4>4 DEF Found
      <4> QED
        BY <1>1, <3>1, <4>3, <4>5 DEF MatchInv
    <3> QED
      BY <2>2, <3>3, <3>4
  <2> QED
    BY <1>7, <2>1, <2>2
<1>22. TokensInv'
  BY <1>1, <1>2, <1>3, <1>15, <1>20 DEF TokensInv, TokensUpto, i
<1> QED
  BY <1>17, <1>18, <1>19, <1>21, <1>22 DEF IInv

\* One character of a match that has not met a mark.
LEMMA MatchStep ==
    ASSUME IInv, yy_match, yy_current_state # 3
    PROVE  MatchInv' /\ yy_last_accepting' \in [state : 0 .. 13, cpos : Nat]
                     /\ yy_current_state' \in 0 .. 13
<1> USE DEF buffer
<1> DEFINE s == yy_current_state
           c == yy_ch_buf[yy_cp]
           q == Row(s, yy_ec(c))
           i == At(yy_bp)
           j == At(yy_cp)
<1>1. /\ pc = "match" /\ yy_cp' = yy_cp + 1 /\ yy_last_accepting' = Accepting(s, yy_cp)
      /\ yy_current_state' = yy_trans[<<s, yy_ec(c)>>]
      /\ pc' = IF yy_base[yy_current_state'] # 14 THEN "match" ELSE "find_action"
      /\ UNCHANGED <<stream, nread, buffer, yy_bp, yy_hold_char, tokens, heap>>
  BY DEF yy_match
<1>2. TypeInv /\ BufferInv /\ MatchInv
  BY DEF IInv
<1>3. /\ yy_cp <= yy_n_chars /\ Live(stream, s, i) /\ Reached(stream, s, i, j) /\ Backup(s)
  BY <1>1, <1>2 DEF MatchInv
<1>4. /\ nread \in Nat /\ yy_n_chars \in Nat /\ yy_n_chars <= nread /\ stream \in Seq(Byte)
      /\ yy_bp \in Nat /\ yy_cp \in Nat /\ yy_bp <= yy_cp
      /\ Len(stream) \in Nat /\ nread <= Len(stream)
      /\ yy_last_accepting \in [state : 0 .. 13, cpos : Nat]
  BY <1>2 DEF TypeInv
<1>5. s \in {1, 4, 6, 9, 10, 11}
  BY <1>3 DEF Live, Begun
<1>6. Holds(yy_ch_buf, yy_n_chars, stream, nread) /\ c \in Byte
  <2>1. Holds(yy_ch_buf, yy_n_chars, stream, nread)
    BY <1>1, <1>2 DEF BufferInv
  <2>2. yy_cp \in 0 .. yy_n_chars + 1
    BY <1>3, <1>4
  <2> QED
    BY <2>1, <2>2 DEF Holds
<1>7. j \in Nat /\ At(yy_cp)' = j + 1 /\ At(yy_bp)' = i /\ At(yy_bp + 1) = i + 1
  BY <1>1, <1>4 DEF At
<1>8. Over' = Over
  BY <1>1 DEF Over
<1>9. yy_current_state' = q
  <2>1. s \in States \ {0} /\ yy_ec(c) \in Classes
    <3>1. CASE c = 0
      BY <1>5, <3>1, ClassOf DEF States, Classes, Byte
    <3>2. CASE c # 0
      <4>1. yy_ec(c) = TextClass(c) /\ TextClass(c) \in Classes
        BY <1>6, <3>2, ClassOf
      <4> QED
        BY <1>5, <4>1 DEF States
    <3> QED
      BY <3>1, <3>2
  <2> HIDE DEF s, c
  <2> QED
    BY <1>1, <2>1, Tables DEF q
<1> HIDE DEF c, q, i, j
<1>10. yy_last_accepting' = IF s \in {4, 6} THEN [state |-> s, cpos |-> yy_cp]
                            ELSE yy_last_accepting
  BY <1>1, <1>5, Accepts DEF Accepting
<1>11. yy_last_accepting' \in [state : 0 .. 13, cpos : Nat]
  BY <1>4, <1>5, <1>10
<1>12. CASE c = 0
  <2>1. q = 3
    BY <1>5, <1>12, ClassOf DEF q, Row, Byte
  <2>2. pc' = "match" /\ yy_current_state' = 3
    BY <1>1, <1>9, <2>1, Accepts
  <2>3. Marked(yy_cp)'
    <3>1. yy_cp' \in yy_bp' + 1 .. yy_n_chars' + 1
      BY <1>1, <1>3, <1>4
    <3>2. At(yy_cp - 1)' = j
      BY <1>1, <1>4 DEF At, j
    <3>3. yy_cp' <= yy_n_chars' => stream[j] = 0
      <4>1. yy_cp' <= yy_n_chars' => yy_cp \in 0 .. yy_n_chars - 1
        BY <1>1, <1>4
      <4> QED
        BY <1>6, <1>12, <4>1 DEF Holds, c, j, At
    <3>4. Interrupted(stream, i, j)
      BY <1>3, <1>5 DEF Interrupted, States
    <3> QED
      BY <1>1, <1>7, <3>1, <3>2, <3>3, <3>4 DEF Marked
  <2> QED
    BY <1>11, <2>2, <2>3 DEF MatchInv
<1>13. CASE c # 0
  <2>1. yy_cp <= yy_n_chars - 1 /\ yy_cp \in 0 .. yy_n_chars - 1
    BY <1>3, <1>4, <1>6, <1>13 DEF Holds, c
  <2>2. c = stream[j] /\ j <= nread /\ j <= Len(stream) /\ j + 1 <= nread + 1
    BY <1>4, <1>6, <2>1 DEF Holds, c, j, At
  <2>3. /\ q = Row(s, TextClass(stream[j])) /\ TextClass(c) \in Classes \ {0}
        /\ TextClass(c) = TextClass(stream[j])
    BY <1>6, <1>13, <2>2, ClassOf DEF q
  <2>4. nread \in 0 .. Len(stream) /\ yy_cp + 1 <= yy_n_chars + 2 /\ yy_cp + 1 <= yy_n_chars
    BY <1>4, <2>1
  <2>5. CASE s = 4
    <3>1. q = 13
      BY <2>3, <2>5 DEF Row, Classes
    <3>2. pc' = "find_action" /\ yy_accept[yy_current_state'] = 0
      BY <1>1, <1>9, <3>1, Accepts
    <3>3. Final(stream, nread, Over, 4, i, j)
      <4>1. Reached(stream, 4, i, j) /\ j <= nread + 1
        BY <1>3, <1>4, <1>7, <2>2, <2>5 DEF i, j
      <4>2. Over \/ stream[i] # 0 \/ j <= nread
        BY <2>2
      <4> QED
        BY <1>4, <2>4, <4>1, <4>2, FinalOne
    <3>4. Found(4, yy_cp)
      BY <1>4, <3>3 DEF Found, i, j
    <3>5. yy_last_accepting' = [state |-> 4, cpos |-> yy_cp]
      BY <1>10, <2>5
    <3>6. Found(yy_last_accepting.state, yy_last_accepting.cpos)'
      <4>1. yy_last_accepting'.state = 4 /\ yy_last_accepting'.cpos = yy_cp
        BY <3>5
      <4> QED
        BY <1>1, <1>8, <3>4, <4>1 DEF Found, At, Marked
    <3> QED
      BY <1>1, <1>9, <1>11, <2>4, <3>1, <3>2, <3>6 DEF MatchInv
  <2>6. CASE s \in Begun /\ q = 13
    <3>1. Final(stream, nread, Over, 6, i, i + 1)
      <4>1. Reached(stream, s, i, j) /\ j <= nread /\ Row(s, TextClass(stream[j])) = 13
        BY <1>3, <2>2, <2>3, <2>6 DEF i, j
      <4> HIDE DEF s
      <4> QED
        BY <1>4, <2>4, <2>6, <4>1, FinalGivenUp
    <3>2. yy_last_accepting' = [state |-> 6, cpos |-> yy_bp + 1]
      <4>1. CASE s = 6
        <5>1. j = i + 1
          BY <1>3, <1>4, <4>1, DollarReached DEF Begun, i, j
        <5>2. yy_cp = yy_bp + 1
          BY <1>4, <5>1 DEF At, i, j
        <5> QED
          BY <1>10, <4>1, <5>2
      <4>2. CASE s # 6
        BY <1>3, <1>10, <2>6, <4>2 DEF Backup, Begun
      <4> QED
        BY <4>1, <4>2
    <3>3. pc' = "find_action" /\ yy_accept[yy_current_state'] = 0
      BY <1>1, <1>9, <2>6, Accepts
    <3>4. Found(yy_last_accepting.state, yy_last_accepting.cpos)'
      <4>1. yy_last_accepting'.state = 6 /\ yy_last_accepting'.cpos = yy_bp + 1
        BY <3>2
      <4>2. At(yy_bp + 1)' = i + 1 /\ yy_bp + 1 \in Nat
        BY <1>1, <1>4, <1>7 DEF At
      <4>3. Found(6, yy_bp + 1)'
        BY <1>1, <1>7, <1>8, <3>1, <4>2 DEF Found
      <4> QED
        BY <1>1, <4>1, <4>3
    <3> QED
      BY <1>1, <1>9, <1>11, <2>4, <2>6, <3>3, <3>4 DEF MatchInv
  <2>7. CASE s \in {1} \cup Begun /\ q # 13
    <3>1. Reached(stream, q, i, j + 1)
      <4>1. Reached(stream, s, i, j) /\ Row(s, TextClass(stream[j])) # 13
        BY <1>3, <2>3, <2>7 DEF i, j
      <4> HIDE DEF s
      <4> QED
        BY <1>4, <2>2, <2>3, <2>7, <4>1, ReachedStep
    <3>2. /\ q \in {4, 5, 6, 7, 8, 9, 10, 11, 12}
          /\ s = 1 <=> q \in {4, 5, 6, 7, 8}
      BY <2>3, <2>7 DEF Row, First, Begun, Classes
    <3>3. CASE q \in {4, 5, 7, 8, 12}
      <4>1. pc' = "find_action" /\ yy_accept[yy_current_state'] # 0
        BY <1>1, <1>9, <3>3, Accepts
      <4>2. Final(stream, nread, Over, q, i, j + 1)
        <5>1. CASE q = 12
          BY <1>4, <2>2, <2>4, <3>1, <5>1, FinalPacket
        <5>2. CASE q # 12
          <6>1. s = 1
            BY <3>2, <3>3, <5>2
          <6>2. i = j
            BY <1>3, <6>1 DEF Reached, i, j
          <6>3. Over \/ stream[i] # 0 \/ j + 1 <= nread
            BY <1>13, <2>2, <6>2
          <6> QED
            BY <1>4, <2>2, <2>4, <3>1, <3>3, <5>2, <6>3, FinalOne
        <5> QED
          BY <5>1, <5>2
      <4>3. Found(yy_current_state, yy_cp)'
        <5>1. yy_cp' \in Nat
          BY <1>1, <1>4
        <5> QED
          BY <1>1, <1>7, <1>8, <1>9, <4>2, <5>1 DEF Found
      <4> QED
        BY <1>1, <1>9, <1>11, <2>4, <3>2, <4>1, <4>3 DEF MatchInv
    <3>4. CASE q \in Begun
      <4>1. pc' = "match"
        BY <1>1, <1>9, <3>4, Accepts DEF Begun
      <4>2. Live(stream, q, i)
        BY <3>4 DEF Live
      <4>3. Backup(yy_current_state)'
        <5>1. CASE s = 1
          BY <1>9, <3>2, <3>4, <5>1 DEF Backup, Begun
        <5>2. CASE s = 6
          <6>1. j = i + 1
            BY <1>3, <1>4, <5>2, DollarReached DEF Begun, i, j
          <6>2. yy_cp = yy_bp + 1
            BY <1>4, <6>1 DEF At, i, j
          <6> QED
            BY <1>1, <1>10, <5>2, <6>2 DEF Backup
        <5>3. CASE s \in Begun \ {6}
          BY <1>1, <1>3, <1>10, <5>3 DEF Backup, Begun
        <5> QED
          BY <2>7, <5>1, <5>2, <5>3 DEF Begun
      <4>4. q # 3 /\ q \in 0 .. 13
        BY <3>2
      <4> QED
        BY <1>1, <1>7, <1>9, <1>11, <2>4, <3>1, <4>1, <4>2, <4>3, <4>4 DEF MatchInv
    <3> QED
      BY <3>2, <3>3, <3>4 DEF Begun
  <2>8. s = 1 => q # 13
    BY <2>3 DEF Row, First, Classes
  <2> QED
    BY <1>5, <2>5, <2>6, <2>7, <2>8 DEF Begun
<1> QED
  BY <1>12, <1>13

\* After a mark the match jams, and is taken back to it.
LEMMA MarkStep ==
    ASSUME IInv, yy_match, yy_current_state = 3
    PROVE  MatchInv' /\ yy_last_accepting' \in [state : 0 .. 13, cpos : Nat]
                     /\ yy_current_state' \in 0 .. 13
<1> USE DEF buffer
<1>1. /\ pc = "match" /\ yy_cp' = yy_cp + 1
      /\ yy_last_accepting' = [state |-> 3, cpos |-> yy_cp]
      /\ yy_current_state' = yy_trans[<<3, yy_ec(yy_ch_buf[yy_cp])>>]
      /\ pc' = IF yy_base[yy_current_state'] # 14 THEN "match" ELSE "find_action"
      /\ UNCHANGED <<stream, nread, buffer, yy_bp, yy_hold_char, tokens, heap>>
  BY Accepts DEF yy_match, Accepting
<1>2. TypeInv /\ BufferInv /\ MatchInv
  BY DEF IInv
<1>3. Marked(yy_cp) /\ Holds(yy_ch_buf, yy_n_chars, stream, nread)
  BY <1>1, <1>2 DEF MatchInv, BufferInv
<1>4. yy_cp \in 0 .. yy_n_chars + 1 /\ yy_cp \in Nat /\ yy_n_chars \in Nat
  BY <1>2, <1>3 DEF TypeInv, Marked
<1>5. yy_current_state' = 13
  <2>1. yy_ch_buf[yy_cp] \in Byte
    BY <1>3, <1>4 DEF Holds
  <2>2. yy_ec(yy_ch_buf[yy_cp]) \in Classes
    BY <2>1 DEF yy_ec, Classes
  <2>3. 3 \in States \ {0} /\ \A c \in Classes : Row(3, c) = 13
    BY DEF States, Classes, Row
  <2> QED
    BY <1>1, <2>2, <2>3, Tables
<1>6. pc' = "find_action" /\ yy_accept[yy_current_state'] = 0
  BY <1>1, <1>5, Accepts
<1>7. Found(yy_last_accepting.state, yy_last_accepting.cpos)'
  <2>1. yy_last_accepting'.state = 3 /\ yy_last_accepting'.cpos = yy_cp
    BY <1>1
  <2> QED
    BY <1>1, <1>3, <2>1 DEF Found, Marked, At
<1>8. yy_cp' <= yy_n_chars' + 2
  BY <1>1, <1>4
<1> QED
  BY <1>1, <1>4, <1>5, <1>6, <1>7, <1>8 DEF MatchInv

LEMMA MatchActionInv == ASSUME IInv, yy_match PROVE IInv'
<1> USE DEF buffer
<1>1. MatchInv' /\ yy_last_accepting' \in [state : 0 .. 13, cpos : Nat]
                /\ yy_current_state' \in 0 .. 13
  BY MatchStep, MarkStep
<1>2. /\ pc = "match" /\ yy_cp' = yy_cp + 1 /\ pc' \in {"match", "find_action"}
      /\ UNCHANGED <<stream, nread, buffer, yy_bp, yy_hold_char, tokens, heap>>
  BY DEF yy_match
<1>3. TypeInv /\ HeapInv /\ BufferInv /\ TokensInv
  BY DEF IInv
<1>4. TypeInv'
  BY <1>1, <1>2, <1>3 DEF TypeInv, Pcs, Over
<1>5. HeapInv' /\ BufferInv'
  BY <1>2, <1>3 DEF HeapInv, BufferInv, Running
<1>6. TokensInv'
  BY <1>2, <1>3 DEF TokensInv, TokensUpto, Over, At
<1> QED
  BY <1>1, <1>4, <1>5, <1>6 DEF IInv

LEMMA StutterInv == ASSUME IInv, UNCHANGED vars PROVE IInv'
<1>1. UNCHANGED <<stream, nread, pc, yy_ch_buf, yy_n_chars, yy_buf_size, yy_buffer_status,
                  yy_bp, yy_cp, yy_hold_char, yy_current_state, yy_last_accepting, tokens, heap>>
  BY DEF vars, buffer, match
<1>2. TypeInv' /\ HeapInv'
  BY <1>1 DEF IInv, TypeInv, HeapInv, Running, Over
<1>3. BufferInv'
  BY <1>1 DEF IInv, BufferInv, Running, Over, Restored, num_to_read, At
<1>4. MatchInv'
  BY <1>1 DEF IInv, MatchInv, Found, Marked, Backup, Over, At
<1>5. TokensInv'
  BY <1>1 DEF IInv, TokensInv, TokensUpto, Over, At
<1> QED
  BY <1>2, <1>3, <1>4, <1>5 DEF IInv

\* The invariant holds in every state of the scanner.
THEOREM Invariance == Spec => []IInv
<1>1. Init => IInv
  BY InitInv
<1>2. IInv /\ [Next]_vars => IInv'
  <2> SUFFICES ASSUME IInv, [Next]_vars PROVE IInv'
    OBVIOUS
  <2>1. CASE gdb_scanner \/ yy_fatal_error \/ yylex_destroy
    BY <2>1, QuietInv
  <2>2. CASE yylex_first
    BY <2>2, FirstInv
  <2>3. CASE yylex_token
    BY <2>3, TokenInv
  <2>4. CASE yy_match
    BY <2>4, MatchActionInv
  <2>5. CASE yy_find_action
    BY <2>5, FindActionInv
  <2>6. CASE yylex_rule
    BY <2>6, RuleInv
  <2>7. CASE end_of_buffer_nul
    BY <2>7, NulInv
  <2>8. CASE yy_get_next_buffer
    BY <2>8, NextBufferInv
  <2>9. CASE \E n \in 1 .. Len(stream) : yy_input(n)
    BY <2>9, InputInv
  <2>10. CASE yy_input_last
    BY <2>10, LastInv
  <2>11. CASE yy_input_eof
    BY <2>11, EofInv
  <2>12. CASE Terminated \/ UNCHANGED vars
    BY <2>12, StutterInv DEF Terminated
  <2> QED
    BY <2>1, <2>2, <2>3, <2>4, <2>5, <2>6, <2>7, <2>8, <2>9, <2>10, <2>11, <2>12 DEF Next
<1> QED
  BY <1>1, <1>2, PTL DEF Spec

-----------------------------------------------------------------------------
\* For every stream of bytes, size of the buffer and size of a read, positions
\* stay in the text and its two marks, the text stays in the buffer, and what
\* was allocated is there while the scanner runs and freed when the connection
\* is closed (scanner.c:989-1047 and 1860-1887).
THEOREM ScannerTypes == Spec => []TypeOK
<1>1. IInv => TypeOK
  <2> SUFFICES ASSUME IInv PROVE TypeOK
    OBVIOUS
  <2>1. TypeInv /\ HeapInv /\ BufferInv /\ MatchInv
    BY DEF IInv
  <2>2. yy_current_state \in 0 .. 14 /\ yy_act \in 0 .. 6
    <3>1. yy_current_state \in 0 .. 13
      BY <2>1 DEF TypeInv
    <3>2. \/ yy_current_state \in {0, 1, 2, 9, 10, 11, 13}
          \/ yy_current_state \in {3, 4, 5, 6, 7, 8, 12}
      BY <3>1
    <3>3. yy_accept[yy_current_state] \in 0 .. 6
      BY <3>2, Accepts
    <3> QED
      BY <3>1, <3>3 DEF yy_act
  <2>3. pc \in Pcs /\ nread \in 0 .. Len(stream) /\ yy_bp <= yy_cp
        /\ yy_n_chars \in Nat /\ yy_buf_size \in Nat
    BY <2>1 DEF TypeInv
  <2>4. ASSUME pc \notin {"start", "init", "done", "exit"}
        PROVE  heap = {"guts", "stack", "buffer", "chars"} /\ yy_n_chars <= yy_buf_size
    BY <2>1, <2>3, <2>4 DEF HeapInv, BufferInv, Running, Pcs
  <2>5. ASSUME pc \in {"token", "match", "find_action", "action"}
        PROVE  DOMAIN yy_ch_buf = 0 .. yy_n_chars + 1
    BY <2>1, <2>5 DEF BufferInv, Holds
  <2>6. ASSUME pc \in {"token", "match", "find_action", "action"}
        PROVE  yy_cp <= yy_n_chars + (IF pc = "find_action" THEN 2 ELSE 1)
    <3>1. yy_cp \in Nat
      BY <2>1 DEF TypeInv
    <3>2. CASE pc = "action"
      BY <2>1, <3>2, FoundPlace DEF MatchInv
    <3>3. CASE pc = "match"
      BY <2>1, <2>3, <3>1, <3>3 DEF MatchInv, Marked
    <3>4. CASE pc \in {"token", "find_action"}
      BY <2>1, <2>3, <3>1, <3>4 DEF MatchInv
    <3> QED
      BY <2>6, <3>2, <3>3, <3>4
  <2> QED
    BY <2>1, <2>2, <2>3, <2>4, <2>5, <2>6 DEF TypeOK, HeapInv, Pcs
<1> QED
  BY <1>1, Invariance, PTL

\* The reference counts tokens from the first byte on.
LEMMA ReferenceTokens ==
    ASSUME NEW x, NEW ended
    PROVE  TokensOf(x, ended) = From(x, ended)[1]
  BY DEF TokensOf, From, FromBody

\* For every stream of bytes and every way the reads and the buffer cut it, the
\* rules run are those of the longest matches of scanner.l, in order, on their
\* bytes, and all of them once the stream has ended (scanner.c:727-1151).
THEOREM LongestMatch == Spec => []LongestMatches
<1>1. IInv => LongestMatches
  <2> SUFFICES ASSUME IInv PROVE LongestMatches
    OBVIOUS
  <2> DEFINE all == From(stream, TRUE)[1]
  <2>1. stream \in Seq(Byte) /\ tokens \in Seq(Token) /\ TokensInv /\ Len(stream) \in Nat
    BY DEF IInv, TypeInv
  <2>2. TokensOf(stream, TRUE) = all
    BY ReferenceTokens
  <2>3. IsPrefix(tokens, all)
    <3>1. PICK i \in 1 .. Len(stream) + 1 : Splits(tokens, stream, TRUE, i)
      BY <2>1 DEF TokensInv
    <3> DEFINE rest == From(stream, TRUE)[i]
    <3>2. rest \in Seq(Token) /\ all = tokens \o rest
      BY <2>1, <3>1, FromType DEF Splits
    <3> HIDE DEF rest, all
    <3>3. /\ all \in Seq(Token) /\ Len(tokens) <= Len(all)
          /\ \A k \in 1 .. Len(tokens) : all[k] = tokens[k]
      BY <2>1, <3>2
    <3>4. SubSeq(tokens, 1, Len(tokens)) = SubSeq(all, 1, Len(tokens))
      <4> DEFINE n == Len(tokens)
                 a == SubSeq(tokens, 1, n)
                 b == SubSeq(all, 1, n)
      <4>1. n \in Nat /\ \A k \in 1 .. n : tokens[k] \in Token /\ all[k] \in Token
        BY <2>1, <3>3
      <4>2. /\ a \in Seq(Token) /\ b \in Seq(Token) /\ Len(a) = n /\ Len(b) = n
            /\ \A k \in 1 .. n : a[k] = tokens[k] /\ b[k] = all[k]
        <5> HIDE DEF n
        <5> QED
          BY <4>1, SubSeqProperties
      <4> HIDE DEF a, b
      <4>3. a = b
        BY <3>3, <4>1, <4>2, SeqEqual
      <4> QED
        BY <4>3 DEF a, b
    <3> QED
      BY <3>3, <3>4 DEF IsPrefix
  <2>4. ASSUME pc = "eof" PROVE tokens = all
    <3>1. tokens \o From(stream, TRUE)[Len(stream) + 1] = all
      BY <2>1, <2>4 DEF TokensInv, Splits
    <3>2. Len(stream) + 1 \in 1 .. Len(stream) + 1 /\ Len(stream) + 1 > Len(stream)
      BY <2>1
    <3>3. From(stream, TRUE)[Len(stream) + 1] =
            FromBody(From(stream, TRUE), stream, TRUE, Len(stream) + 1)
      BY <2>1, <3>2, FromEquation
    <3>4. From(stream, TRUE)[Len(stream) + 1] = <<>>
      BY <3>2, <3>3 DEF FromBody
    <3> HIDE DEF all
    <3> QED
      BY <2>1, <3>1, <3>4, ConcatEmptySeq
  <2> QED
    BY <2>2, <2>3, <2>4 DEF LongestMatches
<1> QED
  BY <1>1, Invariance, PTL

\* For every stream of bytes, however it is cut, the scanner that waits for
\* bytes has run the rule of every token that those read decide: no packet gdb
\* wants acknowledged is held back (scanner.l:56; scanner.c:757).
THEOREM NoneHeldBack == Spec => []NoTokenHeldBack
<1>1. IInv => NoTokenHeldBack
  <2> SUFFICES ASSUME IInv, pc = "read", ~Over
               PROVE  tokens = TokensOf(SubSeq(stream, 1, nread), FALSE)
    BY DEF NoTokenHeldBack, Over
  <2> DEFINE y == SubSeq(stream, 1, nread)
             i == At(yy_bp)
  <2>1. /\ stream \in Seq(Byte) /\ tokens \in Seq(Token) /\ nread \in 0 .. Len(stream)
        /\ nread \in Nat /\ yy_n_chars \in Nat /\ yy_cp = yy_n_chars
    BY DEF IInv, TypeInv, BufferInv
  <2>2. At(yy_cp) = nread + 1
    BY <2>1 DEF At
  <2>3. Interrupted(stream, i, nread + 1)
    BY <2>2 DEF IInv, MatchInv
  <2>4. From(y, FALSE)[i] = <<>>
    BY <2>1, <2>3, Waiting
  <2>5. Splits(tokens, y, FALSE, i)
    <3>1. Upto(tokens, stream, nread, Over, i)
      BY DEF IInv, TokensInv, TokensUpto
    <3>2. nread \in nread .. Len(stream)
      BY <2>1
    <3> QED
      BY <3>1, <3>2 DEF Upto
  <2>6. tokens = From(y, FALSE)[1]
    <3>1. tokens \o <<>> = From(y, FALSE)[1]
      BY <2>4, <2>5 DEF Splits
    <3>2. tokens \o <<>> = tokens
      BY <2>1, ConcatEmptySeq
    <3> QED
      BY <3>1, <3>2
  <2> QED
    BY <2>6, ReferenceTokens
<1> QED
  BY <1>1, Invariance, PTL

=============================================================================
