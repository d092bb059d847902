--------------------------------- MODULE MCAuth ---------------------------------
(* Small instances of Auth. *)
EXTENDS Auth

CONSTANTS a1, a2, here, there, u1, good, bad, k1, k2

Plain(address, word) ==
  [address |-> address, mechanism |-> "PLAIN", credential |-> <<u1, word>>]
Curve(address, key) == [address |-> address, mechanism |-> "CURVE", credential |-> key]
Other(address, mechanism) == [address |-> address, mechanism |-> mechanism, credential |-> ""]

SomeRequests == {Plain(here, good), Plain(there, bad), Curve(here, k1), Curve(there, k2),
                 Other(here, "NULL"), Other(there, "GSSAPI")}
OneRequest == {Other(here, "NULL")}

OnlyPlain == {{}}
ThreeKinds == {{}, {"eintr"}, {"again"}}
===============================================================================
