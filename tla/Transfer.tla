------------------------------- MODULE Transfer -------------------------------
(***************************************************************************)
(* Messages from one zmqpp::socket to another (src/src/zmqpp/socket.cpp):  *)
(* a message object goes part by part with send(message) and comes with    *)
(* receive(message); a caller may also move the parts itself, with         *)
(* send(string, flags) or send_raw and receive(string) or receive_raw.     *)
(* Between the two is the pipe of libzmq, which shows a message to the     *)
(* receiver when its last part came in, and any call of which a signal may *)
(* interrupt.  Whether a call waits or not only decides when it is refused. *)
(* A third thread terminates the context of both (context.cpp) and waits   *)
(* until their threads have destroyed them.                                *)
(***************************************************************************)
EXTENDS Integers, Sequences

CONSTANTS
  Msgs,    \* the messages
  Size,    \* message -> number of its parts
  Hwm,     \* how many messages the pipe takes
  MaxLeft  \* bound: no message begins when so many parts lie unfinished

ASSUME TransferAssumption == Size \in [Msgs -> Nat \ {0}] /\ Hwm \in Nat \ {0} /\ MaxLeft \in Nat

VARIABLES
  signals,   \* whether signals interrupt a send after the first part, or the
             \* termination of the context
  sender,    \* what the sender is in: no call, "send" or "parts"; "over" when a
             \* call threw for the end of the context, "gone" without its socket
  msg,       \* the message under way
  done,      \* how many of its parts are dealt with
  under,     \* what libzmq has of a message whose last part it has not
  wire,      \* the messages the receiver can have, of the first what is left of it
  receiver,  \* likewise: "receive", "parts", or "again", while(!receive(message))
  inbox,     \* the parts of its message object, or those it took itself
  ack,       \* what the last send answered
  ctx,       \* their context: "open", "terminating", "interrupted" in it, or "over"
  stopped    \* the sides whose socket knows of the termination

senderVars == <<sender, msg, done, under, ack>>
receiverVars == <<receiver, inbox>>
ctxVars == <<ctx, stopped>>
transferVars == <<signals, senderVars, wire, receiverVars, ctxVars>>

TransferInit ==
  /\ signals \in BOOLEAN
  /\ sender = "no" /\ msg \in Msgs /\ done = 0 /\ under = <<>> /\ wire = <<>>
  /\ receiver = "no" /\ inbox = <<>>
  /\ ack = "none"
  /\ ctx = "open" /\ stopped = {}

-------------------------------------------------------------------------------
(* libzmq. *)

Room == receiver # "gone" /\ Len(wire) < Hwm

(* zmq_msg_send or zmq_send takes a part; a message whose receiver went     *)
(* away after an earlier one is dropped.                                   *)
Accept(part, more) ==
  LET all == Append(under, [part |-> part, more |-> more])
  IN  IF more THEN under' = all /\ UNCHANGED wire
      ELSE under' = <<>> /\ wire' = IF receiver = "gone" THEN <<>> ELSE Append(wire, all)

-------------------------------------------------------------------------------
(* The sender. *)

Sending == sender \in {"send", "parts"}
Busy == Sending /\ "sender" \notin stopped

Begin(m, by) ==
  /\ sender = "no" /\ Len(under) <= MaxLeft
  /\ sender' = by /\ msg' = m /\ done' = 0
  /\ ack' = "none"
  /\ UNCHANGED <<signals, under, wire, receiverVars, ctxVars>>

(* Mutants: the flag is missing after the first part; one part too many. *)
MoreOnFirst == done = 0 /\ Size[msg] > 1
MoreTooLong == done < Size[msg]

(* send_more, for every part but the last. *)
More == done < Size[msg] - 1

(* Past part done + 1: the next one, or the answer after the last. *)
Past ==
  IF More THEN done' = done + 1 /\ UNCHANGED <<sender, ack>>
  ELSE done' = 0 /\ sender' = "no" /\ ack' = "true"

(* Room is asked for where a message begins. *)
PartGoes ==
  /\ Busy /\ (under = <<>> => Room)
  /\ Accept(<<msg, done + 1>>, More)
  /\ Past
  /\ UNCHANGED <<signals, msg, receiverVars, ctxVars>>

(* The first part would have to wait, or a signal came: nothing was sent.  *)
(* A caller that sends the parts itself repeats a later one.               *)
SendRefused ==
  /\ Busy /\ done = 0
  /\ sender' = "no" /\ ack' = "false"
  /\ UNCHANGED <<signals, msg, done, under, wire, receiverVars, ctxVars>>

(* A signal at a later part: send(message) goes on with the next. *)
SendInterrupted ==
  /\ signals /\ Busy /\ sender = "send" /\ done > 0
  /\ Past
  /\ UNCHANGED <<signals, msg, under, wire, receiverVars, ctxVars>>

(* Another error: of the socket's state at the first part, or the end of   *)
(* the context at any.                                                     *)
SendThrows ==
  /\ Sending /\ ("sender" \in stopped \/ done = 0)
  /\ ack' = "throw" /\ done' = 0
  /\ sender' = IF "sender" \in stopped THEN "over" ELSE "no"
  /\ UNCHANGED <<signals, msg, under, wire, receiverVars, ctxVars>>

-------------------------------------------------------------------------------
(* The receiver. *)

Listening == receiver \in {"receive", "parts", "again"}
Heard == Listening /\ "receiver" \notin stopped

(* What the message held is swapped away. *)
Listen(by) ==
  /\ receiver = "no"
  /\ receiver' = by
  /\ inbox' = <<>>
  /\ UNCHANGED <<signals, senderVars, wire, ctxVars>>

First == Head(Head(wire))

(* Mutant: the option is read from the second part on. *)
StillMoreLate == inbox = <<>> \/ First.more

(* get(receive_more) after each part. *)
StillMore == First.more

PartComes ==
  /\ Heard /\ wire # <<>>
  /\ inbox' = Append(inbox, First.part)
  /\ wire' = IF Len(Head(wire)) = 1 THEN Tail(wire) ELSE [wire EXCEPT ![1] = Tail(@)]
  /\ receiver' = IF StillMore THEN receiver ELSE "no"
  /\ UNCHANGED <<signals, senderVars, ctxVars>>

(* Before the first part: nothing is there, or a signal came.  A signal at *)
(* a later part makes receive() ask again, as "again" does at the first.   *)
ReceiveRefused ==
  /\ Heard /\ inbox = <<>> /\ receiver # "again"
  /\ receiver' = "no"
  /\ UNCHANGED <<signals, senderVars, wire, inbox, ctxVars>>

(* Mutant: every error before the first part is answered false. *)
ReceiveRefusesAtEnd ==
  /\ Listening /\ "receiver" \in stopped
  /\ receiver' = IF inbox # <<>> THEN "over" ELSE IF receiver = "again" THEN "again" ELSE "no"
  /\ UNCHANGED <<signals, senderVars, wire, inbox, ctxVars>>

(* The end of the context: the message object keeps the parts it got. *)
ReceiveThrows ==
  /\ Listening /\ "receiver" \in stopped
  /\ receiver' = "over"
  /\ UNCHANGED <<signals, senderVars, wire, inbox, ctxVars>>

-------------------------------------------------------------------------------
(* The end of the sockets and of their context. *)

(* ~socket, of a thread between two calls or that a call threw out of, or   *)
(* close().  A message that misses parts is given up.                      *)
SenderCloses ==
  /\ sender \in {"no", "over"}
  /\ sender' = "gone" /\ under' = <<>>
  /\ UNCHANGED <<signals, msg, done, ack, wire, receiverVars, ctxVars>>

ReceiverCloses ==
  /\ receiver \in {"no", "over"}
  /\ receiver' = "gone" /\ wire' = <<>>
  /\ UNCHANGED <<signals, senderVars, inbox, ctxVars>>

(* terminate() or ~context: libzmq stops the sockets and waits until both   *)
(* were closed.  A signal that comes while it waits makes terminate() call *)
(* it again.                                                               *)
Closed == sender = "gone" /\ receiver = "gone"

Terminates(from, to) ==
  ctx = from /\ ctx' = to /\ UNCHANGED <<signals, senderVars, wire, receiverVars, stopped>>

TerminateBegins == Terminates("open", "terminating")
TerminateIsInterrupted == signals /\ ~Closed /\ Terminates("terminating", "interrupted")
TerminateRepeats == Terminates("interrupted", "terminating")
TerminateComesBack == Closed /\ Terminates("terminating", "over")

(* A socket finds the order to stop. *)
Stops(side) ==
  /\ ctx # "open" /\ side \notin stopped
  /\ stopped' = stopped \cup {side}
  /\ UNCHANGED <<signals, senderVars, wire, receiverVars, ctx>>

-------------------------------------------------------------------------------
TransferNext ==
  \/ \E m \in Msgs, by \in {"send", "parts"} : Begin(m, by)
  \/ PartGoes \/ SendRefused \/ SendInterrupted \/ SendThrows
  \/ \E by \in {"receive", "parts", "again"} : Listen(by)
  \/ PartComes \/ ReceiveRefused \/ ReceiveThrows
  \/ SenderCloses \/ ReceiverCloses
  \/ TerminateBegins \/ TerminateIsInterrupted \/ TerminateRepeats \/ TerminateComesBack
  \/ \E side \in {"sender", "receiver"} : Stops(side)

TransferSpec == TransferInit /\ [][TransferNext]_transferVars

(* The three threads run and libzmq stops the sockets; a thread that a call *)
(* threw out of, or whose context is terminated between two calls, destroys *)
(* its socket.  Nobody has to send or to receive.                          *)
FairTransferSpec ==
  /\ TransferSpec
  /\ WF_transferVars(TerminateRepeats) /\ WF_transferVars(TerminateComesBack)
  /\ \A side \in {"sender", "receiver"} : WF_transferVars(Stops(side))
  /\ WF_transferVars("sender" \in stopped /\ (SendThrows \/ SenderCloses))
  /\ WF_transferVars("receiver" \in stopped /\ (ReceiveThrows \/ ReceiverCloses))

-------------------------------------------------------------------------------
(* The pipe as a queue of messages, and the last one received whole. *)
Queue ==
  INSTANCE MessageQueue
    WITH queue <- [k \in DOMAIN wire |-> Head(wire[k]).part[1]],
         got <- IF receiver = "no" THEN inbox ELSE <<>>,
         closed <- receiver = "gone"

(* socket.cpp:187-189 and message.hpp:40: every send puts a whole message  *)
(* into the queue and says so, or nothing; every receive gives the oldest  *)
(* message whole, with its parts in order.                                 *)
DeliversWhole == Queue!QSpec

(* The same of every step, unless a signal interrupts a send in the middle *)
(* of a message.                                                           *)
DeliversWholeUninterrupted ==
  [][~signals => Queue!QNext \/ UNCHANGED Queue!qvars]_transferVars

(* assert(EAGAIN != zmq_errno()), socket.cpp:251: after a message's first  *)
(* part receive() never waits for another, nor is refused one.             *)
NeverStarves == Listening /\ inbox # <<>> => wire # <<>>

(* context.hpp:91 "Any blocking calls other than a socket close will return *)
(* with an error.": terminate() comes back, though signals interrupt it,   *)
(* whatever calls its sockets are in, loops of receives included, as their *)
(* threads give up the sockets when a call throws (context.cpp:22-35).     *)
TerminateReturns == ctx = "terminating" ~> ctx = "over"
===============================================================================
