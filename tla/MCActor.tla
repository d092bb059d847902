-------------------------------- MODULE MCActor --------------------------------
(* Actor.tla with two objects, and with one pipe or two. *)
EXTENDS Actor, TLC

CONSTANTS a1, a2, p1, p2

TwoObjects == {a1, a2}
OnePipe == {p1}
TwoPipes == {p1, p2}

Plain == {{}}
ThreeKinds ==
  {{"flood"}, {"assign", "self", "exhausted"}, {"late", "ownko", "mute", "signals"}}

Symmetric == Permutations({a1, a2}) \cup Permutations({p1, p2})
===============================================================================
