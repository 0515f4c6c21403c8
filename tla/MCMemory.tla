------------------------------- MODULE MCMemory -------------------------------
(***************************************************************************)
(* Two words of one-bit bytes, addresses on both sides of the end.         *)
(***************************************************************************)
EXTENDS Memory

MCContents ==
    {[x \in 0 .. Size - 1 |-> x % 2], [x \in 0 .. Size - 1 |-> (x \div 3) % 2]}
=============================================================================
