-------------------------------- MODULE Lists ---------------------------------
(***************************************************************************)
(* The vectors and lists that zmqpp::loop and zmqpp::reactor walk and      *)
(* erase from (items_, timers_): what is left of a sequence after          *)
(* std::remove_if and erase.                                               *)
(***************************************************************************)
EXTENDS Integers, Sequences, FiniteSets, Functions

(* How many positions of P there are up to i. *)
PlaceIn(P, i) == 1 + Cardinality({j \in P : j < i})

(* The elements of s at the positions P, in their order. *)
Only(s, P) == [n \in 1..Cardinality(P) |-> s[CHOOSE i \in P : PlaceIn(P, i) = n]]

(* Mutant: std::find for std::remove_if. *)
ErasedFirst(s, x) == Only(s, {i \in DOMAIN s : s[i] # x \/ \E j \in 1..(i - 1) : s[j] = x})

(* s without the elements x. *)
Erased(s, x) == Only(s, {i \in DOMAIN s : s[i] # x})
===============================================================================
