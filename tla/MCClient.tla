------------------------------- MODULE MCClient -------------------------------
(* Client.tla, and a poller of two sockets and a descriptor whose masks    *)
(* change.                                                                 *)
EXTENDS Client

CONSTANTS s1, s2, f1

MCSockets == {s1, s2}
MCFds == {f1}
MCMasks == {{"in"}, {}, {"pri"}}
===============================================================================
