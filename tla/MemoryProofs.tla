----------------------------- MODULE MemoryProofs -----------------------------
(***************************************************************************)
(* memory.c for every size that is a multiple of 4 and every sequence of   *)
(* calls: accesses stay inside the allocated bytes, registers look to gdb  *)
(* like memory, and the memory is that of the target.                      *)
(***************************************************************************)
EXTENDS Memory, TLAPS

\* An access whose first byte is in memory and whose address is a multiple of
\* its width ends in memory, because the size is a multiple of every width
\* (memory.c:56-72).
LEMMA AlignedAccessFits ==
    ASSUME NEW a \in Nat, NEW n \in {1, 2, 4},
           ~OutOfRange(a), ~Misaligned(a, n)
    PROVE  Bytes(a, n) \subseteq 0 .. Size - 1
<1>1. a < Size /\ a % n = 0 /\ Size \in Nat /\ Size % 4 = 0
  BY MemoryAssumption DEF OutOfRange, Misaligned, memory_get_size
<1>2. CASE n = 1
  BY <1>1, <1>2 DEF Bytes
<1>3. CASE n = 2
  <2>1. a + 1 < Size
    BY <1>1, <1>3
  <2> QED
    BY <1>1, <1>3, <2>1 DEF Bytes
<1>4. CASE n = 4
  <2>1. a + 3 < Size
    BY <1>1, <1>4
  <2> QED
    BY <1>1, <1>4, <2>1 DEF Bytes
<1> QED
  BY <1>2, <1>3, <1>4

\* A call that is refused touches nothing.
LEMMA RefusedTouchesNothing ==
    ASSUME NEW a, NEW n, Refused(a, n)
    PROVE  InBounds'
  BY DEF Refused, InBounds

\* One call keeps the accesses in bounds.
LEMMA CallInBounds == InBounds /\ [Next]_vars => InBounds'
<1> SUFFICES ASSUME InBounds, [Next]_vars PROVE InBounds'
  OBVIOUS
<1>1. CASE UNCHANGED vars
  BY <1>1 DEF InBounds, vars
<1>2. CASE Next
  <2>1. PICK a \in Addresses :
            \/ memory_read_byte(a) \/ memory_read_half(a) \/ memory_read_word(a)
            \/ \E v \in [Digits(1) -> Byte] : memory_write_byte(a, v)
            \/ \E v \in [Digits(2) -> Byte] : memory_write_half(a, v)
            \/ \E v \in [Digits(4) -> Byte] : memory_write_word(a, v)
    BY <1>2 DEF Next
  <2>2. a \in Nat
    BY MemoryAssumption
  <2>3. ~Misaligned(a, 1)
    BY <2>2 DEF Misaligned
  <2>4. CASE memory_read_byte(a)
    BY <2>2, <2>3, <2>4, AlignedAccessFits DEF memory_read_byte, InBounds
  <2>5. CASE memory_read_half(a)
    BY <2>2, <2>5, AlignedAccessFits, RefusedTouchesNothing
    DEF memory_read_half, memory_read, InBounds
  <2>6. CASE memory_read_word(a)
    BY <2>2, <2>6, AlignedAccessFits, RefusedTouchesNothing
    DEF memory_read_word, memory_read, InBounds
  <2>7. CASE \E v \in [Digits(1) -> Byte] : memory_write_byte(a, v)
    BY <2>2, <2>3, <2>7, AlignedAccessFits DEF memory_write_byte, InBounds
  <2>8. CASE \E v \in [Digits(2) -> Byte] : memory_write_half(a, v)
    BY <2>2, <2>8, AlignedAccessFits, RefusedTouchesNothing
    DEF memory_write_half, memory_write, InBounds
  <2>9. CASE \E v \in [Digits(4) -> Byte] : memory_write_word(a, v)
    BY <2>2, <2>9, AlignedAccessFits, RefusedTouchesNothing
    DEF memory_write_word, memory_write, InBounds
  <2> QED
    BY <2>1, <2>4, <2>5, <2>6, <2>7, <2>8, <2>9
<1> QED
  BY <1>1, <1>2

\* No access of any width reaches outside the allocated bytes
\* (memory.c:50-98).
THEOREM AccessesInBounds == Spec => []InBounds
<1>1. memory_create => InBounds
  BY DEF memory_create, InBounds
<1> QED
  BY <1>1, CallInBounds, PTL DEF Spec

\* The byte orders never change once the memory is created.
ByteOrders == host \in BOOLEAN /\ big \in BOOLEAN

LEMMA OrdersKept == ByteOrders /\ [Next]_vars => ByteOrders'
BY DEF ByteOrders, Next, vars, memory_read_byte, memory_read_half, memory_read_word,
       memory_write_byte, memory_write_half, memory_write_word

\* In each of the four pairs of byte orders the digits of a loaded word are
\* those of its bytes, and reading them back undoes writing them.
LEMMA DigitsOfWord == ByteOrders => RegistersLookLikeMemory
<1> SUFFICES ASSUME ByteOrders, NEW a \in 0 .. Size - 1
             PROVE  LET word == IF host # big THEN reverse(4, Load(a, 4)) ELSE Load(a, 4)
                    IN  /\ write_uint32(word) = [d \in Digits(4) |-> data[a + d]]
                        /\ read_uint32(write_uint32(word)) = word
  BY DEF RegistersLookLikeMemory
<1>0. a \in Nat
  BY MemoryAssumption
<1> DEFINE word == IF host # big THEN reverse(4, Load(a, 4)) ELSE Load(a, 4)
<1>1. word = [k \in Digits(4) |-> data[a + (IF big THEN 3 - k ELSE k)]]
  BY <1>0 DEF ByteOrders, reverse, Load, Digits
<1>2. \A d \in Digits(4) : HostByte(Walk(d)) = (IF big THEN 3 - d ELSE d)
  BY DEF ByteOrders, HostByte, Walk, Digits
<1>3. \A d \in Digits(4) : Walk(HostByte(d)) = (IF big THEN 3 - d ELSE d)
  BY DEF ByteOrders, HostByte, Walk, Digits
<1>4. write_uint32(word) = [d \in Digits(4) |-> data[a + d]]
  BY <1>0, <1>1, <1>2 DEF write_uint32, Digits, ByteOrders
<1>5. read_uint32(write_uint32(word)) = word
  BY <1>0, <1>1, <1>3, <1>4 DEF read_uint32, Digits, ByteOrders
<1> QED
  BY <1>4, <1>5

\* A word looks the same to gdb in a register and in memory, whatever the byte
\* orders of host and target (gdb_protocol.c:75-136).
THEOREM RegisterDigits == Spec => []RegistersLookLikeMemory
<1>1. memory_create => ByteOrders
  BY DEF memory_create, ByteOrders
<1> QED
  BY <1>1, OrdersKept, DigitsOfWord, PTL DEF Spec

-----------------------------------------------------------------------------
(***************************************************************************)
(* The memory of the host implements that of the target                    *)
(***************************************************************************)
\* The tests of memory.c accept exactly the accesses the target accepts.
LEMMA SameAccepted ==
    ASSUME NEW a \in Nat, NEW n \in {1, 2, 4}
    PROVE  Target!Accepted(a, n) <=> ~OutOfRange(a) /\ ~Misaligned(a, n)
  BY MemoryAssumption
  DEF Target!Accepted, Target!Address, OutOfRange, Misaligned, memory_get_size

\* A value loaded by the host and reversed where the orders differ has the
\* bytes of the target in the order of the target.
LEMMA ReadIsTarget ==
    ASSUME ByteOrders, NEW a \in Nat, NEW n \in {1, 2, 4}
    PROVE  (IF host # big THEN reverse(n, Load(a, n)) ELSE Load(a, n))
            = [k \in 0 .. n - 1 |-> data[a + Target!Significance(n, k)]]
<1>1. \A k \in 0 .. n - 1 : n - 1 - k \in 0 .. n - 1 /\ n - 1 - (n - 1 - k) = k
  OBVIOUS
<1> QED
  BY <1>1 DEF ByteOrders, reverse, Load, Digits, Target!Significance

\* What the host stores are the bytes the target would have.
LEMMA WriteIsTarget ==
    ASSUME ByteOrders, NEW a \in Nat, NEW n \in {1, 2, 4}, NEW v, memory_write(a, n, v)
    PROVE  data' = [x \in Target!Address |->
                       IF x - a \in 0 .. n - 1 THEN v[Target!Significance(n, x - a)]
                                               ELSE data[x]]
<1>1. ASSUME NEW x \in 0 .. Size - 1
      PROVE  /\ a <= x /\ x < a + n <=> x - a \in 0 .. n - 1
             /\ x - a \in 0 .. n - 1 =>
                    /\ n - 1 - (x - a) \in 0 .. n - 1
                    /\ n - 1 - (n - 1 - (x - a)) = x - a
  BY MemoryAssumption
<1> QED
  BY <1>1
  DEF ByteOrders, memory_write, reverse, Store, Digits, Target!Address, Target!Significance

\* A refused call is refused by the target.
LEMMA RefusedIsTarget ==
    ASSUME NEW a \in Nat, NEW n \in {1, 2, 4}, Refused(a, n), UNCHANGED <<big, host>>
    PROVE  Target!Refuse(a, n)
  BY SameAccepted DEF Refused, Target!Refuse

\* One byte has no order.
LEMMA ByteIsTarget ==
    ASSUME ByteOrders, NEW a \in Nat
    PROVE  /\ memory_read_byte(a) => Target!Read(a, 1) \/ Target!Refuse(a, 1)
           /\ \A v : memory_write_byte(a, v) => Target!Write(a, 1, v) \/ Target!Refuse(a, 1)
<1>1. ~Misaligned(a, 1)
  BY DEF Misaligned
<1>2. Load(a, 1) = [k \in 0 .. 1 - 1 |-> data[a + Target!Significance(1, k)]]
  BY DEF ByteOrders, Load, Digits, Target!Significance
<1>3. \A v : Store(a, 1, v) = [x \in Target!Address |->
                  IF x - a \in 0 .. 1 - 1 THEN v[Target!Significance(1, x - a)]
                                          ELSE data[x]]
  BY MemoryAssumption DEF ByteOrders, Store, Target!Address, Target!Significance
<1>4. ASSUME memory_read_byte(a) PROVE Target!Read(a, 1) \/ Target!Refuse(a, 1)
  BY <1>1, <1>2, <1>4, SameAccepted DEF memory_read_byte, Target!Read, Target!Refuse
<1>5. ASSUME NEW v, memory_write_byte(a, v)
      PROVE  Target!Write(a, 1, v) \/ Target!Refuse(a, 1)
  BY <1>1, <1>3, <1>5, SameAccepted DEF memory_write_byte, Target!Write, Target!Refuse
<1> QED
  BY <1>4, <1>5

\* A call of memory.c is one step of the target's memory.
LEMMA CallIsTarget == ByteOrders /\ [Next]_vars => [Target!Next]_Target!vars
<1> SUFFICES ASSUME ByteOrders, [Next]_vars PROVE [Target!Next]_Target!vars
  OBVIOUS
<1>1. CASE UNCHANGED vars
  BY <1>1 DEF vars, Target!vars
<1>2. CASE Next
  <2>1. PICK a \in Addresses :
            \/ memory_read_byte(a) \/ memory_read_half(a) \/ memory_read_word(a)
            \/ \E v \in [Digits(1) -> Byte] : memory_write_byte(a, v)
            \/ \E v \in [Digits(2) -> Byte] : memory_write_half(a, v)
            \/ \E v \in [Digits(4) -> Byte] : memory_write_word(a, v)
    BY <1>2 DEF Next
  <2>2. a \in Nat
    BY MemoryAssumption
  <2>3. ASSUME NEW n \in {1, 2, 4},
               \/ Target!Read(a, n) \/ Target!Refuse(a, n)
               \/ \E v \in [Digits(n) -> Byte] : Target!Write(a, n, v)
        PROVE  Target!Next
    BY <2>3 DEF Target!Next, Target!Widths, Target!Value, Digits
  <2>4. ASSUME NEW n \in {1, 2, 4}, memory_read(a, n), UNCHANGED <<big, host>>
        PROVE  Target!Read(a, n)
    BY <2>2, <2>4, ReadIsTarget, SameAccepted DEF memory_read, Target!Read
  <2>5. ASSUME NEW n \in {1, 2, 4}, NEW v, memory_write(a, n, v), UNCHANGED <<big, host>>
        PROVE  Target!Write(a, n, v)
    <3>1. data' = [x \in Target!Address |->
                      IF x - a \in 0 .. n - 1 THEN v[Target!Significance(n, x - a)]
                                              ELSE data[x]]
      BY <2>2, <2>5, WriteIsTarget
    <3> QED
      BY <2>2, <2>5, <3>1, SameAccepted DEF memory_write, Target!Write
  <2>6. CASE memory_read_byte(a) \/ \E v \in [Digits(1) -> Byte] : memory_write_byte(a, v)
    BY <2>2, <2>3, <2>6, ByteIsTarget
  <2>7. CASE memory_read_half(a) \/ memory_read_word(a)
    BY <2>2, <2>3, <2>4, <2>7, RefusedIsTarget DEF memory_read_half, memory_read_word
  <2>8. CASE \E v \in [Digits(2) -> Byte] : memory_write_half(a, v)
    BY <2>2, <2>3, <2>5, <2>8, RefusedIsTarget DEF memory_write_half
  <2>9. CASE \E v \in [Digits(4) -> Byte] : memory_write_word(a, v)
    BY <2>2, <2>3, <2>5, <2>9, RefusedIsTarget DEF memory_write_word
  <2> QED
    BY <2>1, <2>6, <2>7, <2>8, <2>9
<1> QED
  BY <1>1, <1>2

\* On a host of either byte order memory is the target's: which byte order the
\* simulator runs on cannot be observed through reads and writes of any width
\* (memory.c:50-98).
THEOREM HostHidden == Spec => HostIndependent
<1>1. memory_create => ByteOrders /\ Target!Init
  BY MemoryAssumption
  DEF memory_create, ByteOrders, Digits, Target!Init, Target!Address, Target!Value
<1> QED
  BY <1>1, OrdersKept, CallIsTarget, PTL DEF Spec, HostIndependent, Target!Spec
=============================================================================
