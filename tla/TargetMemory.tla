----------------------------- MODULE TargetMemory -----------------------------
(***************************************************************************)
(* The memory of the simulated machine as its programs see it: a value of  *)
(* 1, 2 or 4 bytes occupies consecutive addresses in the byte order of the *)
(* target, whatever machine the simulator runs on.  A value is the         *)
(* function of its bytes, byte 0 the least significant.                    *)
(***************************************************************************)
EXTENDS Integers

CONSTANTS
    Size,       \* bytes of memory, a multiple of 4
    Byte,       \* the values of a byte
    Addresses   \* the addresses programs use

VARIABLES
    data,   \* the bytes of memory
    big,    \* the target is big endian
    ret,    \* what the last access returned: 0 or -1
    value   \* the value the last successful read delivered

vars == <<data, big, ret, value>>

Address == 0 .. Size - 1
Widths == {1, 2, 4}
Value(n) == [0 .. n - 1 -> Byte]

\* The significance of the byte at offset k of a value of n bytes.
Significance(n, k) == IF big THEN n - 1 - k ELSE k

Accepted(a, n) == a \in Address /\ a % n = 0

Init ==
    /\ data \in [Address -> Byte]
    /\ big \in BOOLEAN
    /\ ret = 0 /\ value \in Value(1)

Read(a, n) ==
    /\ Accepted(a, n)
    /\ value' = [k \in 0 .. n - 1 |-> data[a + Significance(n, k)]]
    /\ ret' = 0
    /\ UNCHANGED <<data, big>>

Write(a, n, v) ==
    /\ Accepted(a, n)
    /\ data' = [x \in Address |->
                    IF x - a \in 0 .. n - 1 THEN v[Significance(n, x - a)]
                                            ELSE data[x]]
    /\ ret' = 0
    /\ UNCHANGED <<big, value>>

\* Outside memory or not aligned: nothing happens and the caller is told.
Refuse(a, n) ==
    /\ ~Accepted(a, n)
    /\ ret' = -1
    /\ UNCHANGED <<data, big, value>>

Next ==
    \E n \in Widths, a \in Addresses :
        \/ Read(a, n)
        \/ \E v \in Value(n) : Write(a, n, v)
        \/ Refuse(a, n)

Spec == Init /\ [][Next]_vars
=============================================================================
