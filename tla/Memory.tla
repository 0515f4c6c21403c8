-------------------------------- MODULE Memory --------------------------------
(***************************************************************************)
(* memory.c: reads and writes of 1, 2 and 4 bytes that load and store host *)
(* integers and reverse them when the host and the target disagree on byte *)
(* order.  A value is the function of its bytes, byte 0 the least          *)
(* significant, so that reverse_2 and reverse_4 are exact.                 *)
(***************************************************************************)
EXTENDS Integers

CONSTANTS
    Size,       \* memory_create's size, 0x20000 in the simulator
    Byte,       \* the values of a uint8_t
    Addresses,  \* the addresses programs use, in and out of memory
    Contents,   \* what malloc may leave in the bytes
    MaxCalls    \* bound on the calls

ASSUME MemoryAssumption ==
    /\ Size \in Nat /\ Size > 0 /\ Size % 4 = 0
    /\ Addresses \subseteq Nat
    /\ Contents \subseteq [0 .. Size - 1 -> Byte]
    /\ MaxCalls \in Nat

VARIABLES
    data,       \* mem->data
    big,        \* mem->is_big_endian
    host,       \* is_big_endian(): the byte order of the host
    ret,        \* result of the last call
    value,      \* *value of the last successful read
    touched,    \* the bytes of data the last call loaded or stored
    calls       \* calls made

vars == <<data, big, host, ret, value, touched, calls>>

Digits(n) == 0 .. n - 1

\* memory_create does not initialise the bytes.
memory_create ==
    /\ data \in Contents
    /\ big \in BOOLEAN
    /\ host \in BOOLEAN
    /\ ret = 0 /\ value \in [Digits(1) -> Byte] /\ touched = {} /\ calls = 0

memory_get_size == Size

\* reverse_2, reverse_4
reverse(n, v) == [k \in Digits(n) |-> v[n - 1 - k]]

\* A host integer of n bytes loaded from, or stored at, data + a.
Load(a, n) ==
    [k \in Digits(n) |-> data[a + (IF host THEN n - 1 - k ELSE k)]]

Store(a, n, v) ==
    [x \in 0 .. Size - 1 |->
        IF a <= x /\ x < a + n
        THEN v[IF host THEN n - 1 - (x - a) ELSE x - a]
        ELSE data[x]]

Bytes(a, n) == a .. a + n - 1

OutOfRange(a) == a >= memory_get_size

Misaligned(a, n) == a % n # 0

Refused(a, n) ==
    /\ OutOfRange(a) \/ Misaligned(a, n)
    /\ ret' = -1 /\ touched' = {}
    /\ UNCHANGED <<data, value>>

memory_read_byte(a) ==
    /\ \/ OutOfRange(a) /\ ret' = -1 /\ touched' = {} /\ UNCHANGED value
       \/ /\ ~OutOfRange(a)
          /\ ret' = 0 /\ value' = Load(a, 1) /\ touched' = Bytes(a, 1)
    /\ UNCHANGED <<data, big, host>>

\* Mutant: the value is delivered in the byte order of the host.
memory_read_host(a, n) ==
    /\ ~OutOfRange(a) /\ ~Misaligned(a, n)
    /\ ret' = 0 /\ touched' = Bytes(a, n)
    /\ value' = Load(a, n)
    /\ UNCHANGED data

memory_read(a, n) ==
    LET v == Load(a, n)
    IN  /\ ~OutOfRange(a) /\ ~Misaligned(a, n)
        /\ ret' = 0 /\ touched' = Bytes(a, n)
        /\ value' = IF host # big THEN reverse(n, v) ELSE v
        /\ UNCHANGED data

memory_read_half(a) ==
    (memory_read(a, 2) \/ Refused(a, 2)) /\ UNCHANGED <<big, host>>

memory_read_word(a) ==
    (memory_read(a, 4) \/ Refused(a, 4)) /\ UNCHANGED <<big, host>>

memory_write_byte(a, v) ==
    /\ \/ OutOfRange(a) /\ ret' = -1 /\ touched' = {} /\ UNCHANGED data
       \/ /\ ~OutOfRange(a)
          /\ ret' = 0 /\ data' = Store(a, 1, v) /\ touched' = Bytes(a, 1)
    /\ UNCHANGED <<value, big, host>>

\* Mutant: the alignment is not tested.
memory_write_unaligned(a, n, v) ==
    /\ ~OutOfRange(a)
    /\ ret' = 0 /\ touched' = Bytes(a, n)
    /\ data' = Store(a, n, IF host # big THEN reverse(n, v) ELSE v)
    /\ UNCHANGED value

memory_write(a, n, v) ==
    /\ ~OutOfRange(a) /\ ~Misaligned(a, n)
    /\ ret' = 0 /\ touched' = Bytes(a, n)
    /\ data' = Store(a, n, IF host # big THEN reverse(n, v) ELSE v)
    /\ UNCHANGED value

memory_write_half(a, v) ==
    (memory_write(a, 2, v) \/ Refused(a, 2)) /\ UNCHANGED <<big, host>>

memory_write_word(a, v) ==
    (memory_write(a, 4, v) \/ Refused(a, 4)) /\ UNCHANGED <<big, host>>

\* The union of write_uint32 and read_uint32: byte i of a host integer.
HostByte(i) == IF host THEN 3 - i ELSE i

\* The byte the digits at position d stand for, from the first or the last on.
Walk(d) == IF host = big THEN d ELSE 3 - d

\* Mutant: the bytes are walked in the order of the target alone.
write_uint32_target(v) == [d \in Digits(4) |-> v[HostByte(IF big THEN 3 - d ELSE d)]]

\* gdb_protocol.c: a register as the pairs of digits of its bytes, and back.
write_uint32(v) == [d \in Digits(4) |-> v[HostByte(Walk(d))]]
read_uint32(digits) == [k \in Digits(4) |-> digits[Walk(HostByte(k))]]

Next ==
    /\ calls < MaxCalls /\ calls' = calls + 1
    /\ \E a \in Addresses :
        \/ memory_read_byte(a) \/ memory_read_half(a) \/ memory_read_word(a)
        \/ \E v \in [Digits(1) -> Byte] : memory_write_byte(a, v)
        \/ \E v \in [Digits(2) -> Byte] : memory_write_half(a, v)
        \/ \E v \in [Digits(4) -> Byte] : memory_write_word(a, v)

Spec == memory_create /\ [][Next]_vars

-----------------------------------------------------------------------------
\* No access reaches outside the allocated bytes: testing the first address
\* and the alignment is enough because the size is a multiple of 4
\* (memory.c:50-98).
InBounds == touched \subseteq 0 .. Size - 1

\* gdb sees a word the same way in a register and in memory, on a host of
\* either byte order: the digits sent for the register a word is loaded into
\* are those of the bytes the word is made of, in their order, and the digits
\* gdb sends back give the same word (gdb_protocol.c:75-136, memory.c:65-72).
RegistersLookLikeMemory ==
    \A a \in {x \in 0 .. Size - 1 : ~Misaligned(x, 4)} :
        LET word == IF host # big THEN reverse(4, Load(a, 4)) ELSE Load(a, 4)
        IN  /\ write_uint32(word) = [d \in Digits(4) |-> data[a + d]]
            /\ read_uint32(write_uint32(word)) = word

Target == INSTANCE TargetMemory

\* On a host of either byte order memory is the target's: what is written
\* with one width and read with another does not depend on the host
\* (memory.c:56-98).
HostIndependent == Target!Spec
=============================================================================
