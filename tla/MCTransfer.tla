------------------------------ MODULE MCTransfer ------------------------------
(* Small instances of Transfer. *)
EXTENDS Transfer

CONSTANTS short, long

OneAndThree == [m \in {short, long} |-> IF m = short THEN 1 ELSE 3]
===============================================================================
