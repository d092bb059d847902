----------------------------- MODULE MessageQueue -----------------------------
(***************************************************************************)
(* What zmqpp::socket promises of messages (message.hpp:39-41: "either the *)
(* whole message or none of the message will be delivered"): a queue of    *)
(* whole messages between one sender and one receiver.                     *)
(***************************************************************************)
EXTENDS Integers, Sequences

CONSTANTS
  Msgs,    \* the messages
  Size     \* message -> number of its parts

VARIABLES
  queue,   \* the messages sent and not yet received
  ack,     \* what the sender was told of its last send
  got,     \* the parts the receiver's last call gave it
  closed   \* whether the receiver is gone

qvars == <<queue, ack, got, closed>>

Whole(m) == [n \in 1..Size[m] |-> <<m, n>>]

QInit == queue = <<>> /\ ack = "none" /\ got = <<>> /\ closed = FALSE

(* A call begins: what the last one left is gone. *)
Asks == ack' = "none" /\ UNCHANGED <<queue, got, closed>>
Listens == got' = <<>> /\ UNCHANGED <<queue, ack, closed>>

Puts(m) ==
  /\ ack' = "true" /\ UNCHANGED <<got, closed>>
  /\ queue' = IF closed THEN <<>> ELSE Append(queue, m)

PutsNothing == ack' \in {"false", "throw"} /\ UNCHANGED <<queue, got, closed>>

Takes ==
  /\ queue # <<>>
  /\ got' = Whole(Head(queue)) /\ queue' = Tail(queue)
  /\ UNCHANGED <<ack, closed>>

(* The receiver goes, and with it what it has not taken. *)
Closes == closed' = TRUE /\ queue' = <<>> /\ got' = <<>> /\ UNCHANGED ack

QNext ==
  Asks \/ Listens \/ (\E m \in Msgs : Puts(m)) \/ PutsNothing \/ Takes \/ Closes

QSpec == QInit /\ [][QNext]_qvars
===============================================================================
