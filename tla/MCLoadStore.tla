------------------------------ MODULE MCLoadStore ------------------------------
(***************************************************************************)
(* One-bit bytes, so that words and addresses are 0 .. 15; three words of  *)
(* memory; r0 is the base, anywhere in and around memory.                  *)
(***************************************************************************)
EXTENDS LoadStore, TLC

MCStarts ==
    {[reg |-> (0 :> b @@ 1 :> x @@ 2 :> y @@ 3 :> 4), N |-> 0, Z |-> z, C |-> c,
      V |-> 0, T |-> 0, mem |-> [a \in Address |-> (a \div d) % 2]] :
        b \in {0, 1, 2, 4, 8, 10, 12, 15}, x \in {1, 4, 11}, y \in {2, 14},
        z \in {0, 1}, c \in {1}, d \in {1, 3}}

Immediates == [kind : {"immediate"}, value : {2, 5}]

Scaled == [kind : {"scaled"}, rm : {1}, type : {0, 1}, count : {0, 1}]

Halves == Immediates \cup [kind : {"scaled"}, rm : {2}]

\* Of the options that do not matter to each other one at a time varies.
MCTransfers ==
    [class : {"single"}, cond : {"AL"}, load : BOOLEAN, byte : BOOLEAN,
     before : BOOLEAN, up : {TRUE}, write : BOOLEAN, rn : {0}, rd : {1},
     offset : {[kind |-> "immediate", value |-> 4]}]
    \cup [class : {"single"}, cond : {"AL", "EQ"}, load : {TRUE}, byte : {FALSE},
          before : {TRUE}, up : {FALSE}, write : {TRUE}, rn : {0}, rd : {1, PC},
          offset : Immediates \cup Scaled]
    \cup [class : {"multiple"}, cond : {"AL"}, load : BOOLEAN, before : BOOLEAN,
          up : BOOLEAN, write : {TRUE}, rn : {0}, list : {{1, 2}, {0, 1}}]
    \cup [class : {"multiple"}, cond : {"EQ"}, load : BOOLEAN, before : {FALSE},
          up : {TRUE}, write : BOOLEAN, rn : {0}, list : {{PC}, {2, PC}, {}}]
    \cup [class : {"half"}, cond : {"EQ"}, load : BOOLEAN, before : BOOLEAN,
          up : {TRUE}, write : BOOLEAN, rn : {0}, rd : {1}, offset : Halves]
=============================================================================
