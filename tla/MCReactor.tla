------------------------------- MODULE MCReactor -------------------------------
(* Reactor.tla with a socket and a descriptor. *)
EXTENDS Reactor

CONSTANTS s1, f1

OneSocket == {s1}
OneFd == {f1}
InOrPri == {{"in"}, {"pri"}}

FourKinds == {{}, {"grow", "nest"}, {"readd"}, {"throw", "bypass"}}
===============================================================================
