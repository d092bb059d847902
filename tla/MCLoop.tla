-------------------------------- MODULE MCLoop --------------------------------
(* Loop.tla on small worlds: three keys and a timer, or two timers and a    *)
(* socket.                                                                 *)
EXTENDS Loop, TLC

CONSTANTS s1, s2, f1, t1, t2

NoKeys == {}
OneSocket == {s1}
TwoSockets == {s1, s2}
OneFd == {f1}
InMask == {{"in"}}
InAndPri == {{"in", "pri"}}

OneTimer == {t1}
TwoTimers == {t1, t2}

ItemUses == {{"restart"}, {"restart", "throw", "grow"}}
TimerUses == {{}, {"selfreset"}}

Symmetric == Permutations({s1, s2})
===============================================================================
