------------------------------ MODULE MCScanner -------------------------------
(***************************************************************************)
(* Streams put together from pieces that start, break off, continue and    *)
(* end packets: '$', "#A" and "f", a NUL, a newline, '+' and '-', so that  *)
(* every prefix of a packet meets every other piece.                       *)
(***************************************************************************)
EXTENDS Scanner

CONSTANT MaxPieces

Pieces == {<<36>>, <<35, 65>>, <<102>>, <<0>>, <<10>>, <<43>>, <<45>>}

MCStreams ==
    {FlattenSeq(p) : p \in UNION {[1 .. n -> Pieces] : n \in 0 .. MaxPieces}}
    \cup {<<36, 0, 49, 50, 35, 65, 102, 35, 43>>,
          <<36, 36, 49, 35, 49, 36, 50, 35, 102, 102>>}
=============================================================================
