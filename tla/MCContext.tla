------------------------------ MODULE MCContext -------------------------------
(* Small instances of Socket and Context. *)
EXTENDS Context, TLC

CONSTANTS o1, o2, h1, h2, c1, c2, z1, z2, req, rep

AroundZero == -1..2

PlainSharedAndContexts == {{}, {"assign", "threads"}, {"contexts", "assign"}}

Symmetric ==
  Permutations(Objects) \cup Permutations(Handles) \cup Permutations(Owners)
    \cup Permutations(Contexts)
===============================================================================
