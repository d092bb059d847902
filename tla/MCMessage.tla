------------------------------- MODULE MCMessage -------------------------------
(* Small instances of Message. *)
EXTENDS Message, TLC

CONSTANTS m1, m2, b1, b2, b3

Symmetric == Permutations({m1, m2}) \cup Permutations({b1, b2, b3})

PlainAndRough == {{}, {"pop", "onto", "shrink", "past"}, {"typed"}}

SomeValues ==
  {[type |-> "int8", value |-> <<200>>],
   [type |-> "int16", value |-> <<1, 2>>],
   [type |-> "float", value |-> <<1, 2, 3, 4>>],
   [type |-> "uint64", value |-> <<1, 2, 3, 4, 5, 6, 7, 8>>],
   [type |-> "int64", value |-> Signal(7)],
   [type |-> "bool", value |-> <<1>>],
   [type |-> "string", value |-> <<104, 105>>],
   [type |-> "signal", value |-> Signal(1)]}
===============================================================================
