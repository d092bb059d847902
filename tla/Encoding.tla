-------------------------------- MODULE Encoding --------------------------------
(***************************************************************************)
(* What message writes into a part and reads out of it                     *)
(* (src/src/zmqpp/message.cpp, inet.hpp, signal.hpp).  A value is the      *)
(* sequence of its bytes, the most significant first, which holds for       *)
(* signed and for floating point numbers as for others; memory has the     *)
(* bytes in the order of the host, and a part has them in the order of the *)
(* network, which is big endian, whatever host wrote it.                   *)
(***************************************************************************)
EXTENDS Integers, Sequences

Byte == 0..255
ByteOrders == {"big", "little"}

Reversed(s) == [i \in DOMAIN s |-> s[Len(s) + 1 - i]]

(* A value in the memory of a host, and back. *)
Memory(order, value) == IF order = "big" THEN value ELSE Reversed(value)
Value(order, bytes) == Memory(order, bytes)

(* htons, htonl, ntohs and ntohl. *)
Htonl(order, value) == IF order = "big" THEN value ELSE Reversed(value)

-------------------------------------------------------------------------------
(* 64 bits: htonll and ntohll are swap_if_needed.                          *)

HostOrder(order) == IF Htonl(order, <<0, 0, 0, 42>>) = <<0, 0, 0, 42>> THEN "big" ELSE "little"

Swap(s, i, j) == [s EXCEPT ![i] = s[j], ![j] = s[i]]

(* Mutant: the bytes in the middle are not exchanged. *)
SwapIfNeededShort(order, value) ==
  IF HostOrder(order) = "big" THEN value
  ELSE Value(order, Swap(Swap(Swap(Memory(order, value), 1, 8), 2, 7), 3, 6))

SwapIfNeeded(order, value) ==
  IF HostOrder(order) = "big" THEN value
  ELSE Value(order, Swap(Swap(Swap(Swap(Memory(order, value), 1, 8), 2, 7), 3, 6), 4, 5))

-------------------------------------------------------------------------------
(* The types; a float and a double pass through the integers of their size, *)
(* a signal is an int64_t, a char const* is a string.                      *)

Wide == {"int64", "uint64", "double", "signal"}
Narrow == {"int16", "uint16", "int32", "uint32", "float"}

(* To the order of the network, and from it. *)
Network(order, type, value) ==
  CASE type \in Wide -> SwapIfNeeded(order, value)
    [] type \in Narrow -> Htonl(order, value)
    [] OTHER -> value

(* operator<<, add and push_front: the bytes of the part.  Those of a string *)
(* are in the order they have.                                             *)
Put(order, type, value) ==
  CASE type = "string" -> value
    [] type = "bool" -> IF value = <<0>> THEN <<0>> ELSE <<1>>
    [] OTHER -> Memory(order, Network(order, type, value))

(* get and operator>>. *)
Get(order, type, bytes) ==
  CASE type = "string" -> bytes
    [] type = "bool" -> IF bytes = <<0>> THEN <<0>> ELSE <<1>>
    [] OTHER -> Network(order, type, Value(order, bytes))

-------------------------------------------------------------------------------
(* Signals: the number signal::header, shifted by a byte, and the signal's  *)
(* own number.                                                             *)

SignalHeader == <<0, 119, 102, 85, 68, 51, 34, 17>>
Signal(n) == Tail(SignalHeader) \o <<n>>

(* The values of a type: of a string, any bytes. *)
IsOf(type, value) ==
  /\ value \in Seq(Byte)
  /\ type \in Wide => Len(value) = 8
  /\ type \in {"int8", "uint8"} => Len(value) = 1
  /\ type \in {"int16", "uint16"} => Len(value) = 2
  /\ type \in {"int32", "uint32", "float"} => Len(value) = 4
  /\ type = "bool" => value \in {<<0>>, <<1>>}
  /\ type = "signal" => \E n \in Byte : value = Signal(n)
  /\ type \in Wide \cup Narrow \cup {"int8", "uint8", "bool", "string"}

(* An int64_t shifted right by a byte keeps its sign. *)
ShiftedRight(value) == <<IF value[1] < 128 THEN 0 ELSE 255>> \o SubSeq(value, 1, 7)

(* Mutant: the first part decides. *)
IsSignalFirst(order, parts) ==
  /\ parts # <<>> /\ Len(parts[1]) = 8
  /\ ShiftedRight(Get(order, "int64", parts[1])) = SignalHeader

(* is_signal(), of the parts' bytes. *)
IsSignal(order, parts) ==
  /\ Len(parts) = 1 /\ Len(parts[1]) = 8
  /\ ShiftedRight(Get(order, "int64", parts[1])) = SignalHeader
===============================================================================
