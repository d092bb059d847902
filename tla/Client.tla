--------------------------------- MODULE Client ---------------------------------
(***************************************************************************)
(* The command line client (src/src/client/main.cpp), the one user of      *)
(* zmqpp::poller in the repository outside the library: it passes lines of *)
(* the standard input to a socket and messages of the socket to the        *)
(* standard output, and for request and reply sockets by turns.  It owns a *)
(* Poller and calls its members; the other behaviours of this module have  *)
(* a poller that anybody calls.                                            *)
(***************************************************************************)
EXTENDS Poller

CONSTANTS
  TheSocket, Stdin,   \* the client's keys of the poller
  MaxLines,           \* bound: lines of the standard input
  MaxInbox            \* bound: messages that wait at the socket

ASSUME ClientAssumption ==
  /\ TheSocket \in Sockets /\ Stdin \in Fds /\ {{}, {"in"}} \subseteq Masks
  /\ MaxLines \in Nat /\ MaxInbox \in Nat

VARIABLES
  options,    \* the type of socket, or "none" when there is no client; singlepart;
              \* whether the input is a terminal or a file, which shows its end
              \* as input, or a pipe, which hangs up; whether signals interrupt calls
  pc,         \* where main() is
  can_send, can_recv,
  message,    \* the lines of the message, by their numbers
  lines,      \* the input so far: "text" and "blank" lines
  closed,     \* the input has ended
  buffered,   \* how many lines stdio has read from the descriptor,
  taken,      \* ... and fgets returned
  inbox,      \* messages waiting at the socket
  turn,       \* what a request or reply socket may do next
  sent        \* the messages sent

switches == <<can_send, can_recv>>
input == <<lines, closed, buffered, taken>>
clientVars == <<options, pc, switches, message, input, inbox, turn, sent>>
allVars == <<vars, clientVars>>

Toggles == options.type \in {"request", "reply"}
MayStill(do) == Toggles => turn = do
HasStdin == options.type # "pull"

ClientInit ==
  /\ Init
  /\ \/ options = [type |-> "none", singlepart |-> FALSE, terminal |-> FALSE, signals |-> FALSE]
     \/ options \in [type : {"push", "pull", "request", "reply"}, singlepart : BOOLEAN,
                     terminal : BOOLEAN, signals : BOOLEAN]
  /\ pc = "start"
  /\ can_send = (options.type \in {"push", "request"})
  /\ can_recv = (options.type \in {"pull", "reply"})
  /\ message = <<>> /\ sent = <<>>
  /\ lines = <<>> /\ closed = FALSE /\ buffered = 0 /\ taken = 0
  /\ inbox = 0 /\ turn = IF options.type = "request" THEN "send" ELSE "recv"

-------------------------------------------------------------------------------
(* The world outside. *)

Running == options.type # "none" /\ pc \notin {"left", "failed", "refused"}

Type(line) ==
  /\ Running /\ HasStdin /\ ~closed /\ Len(lines) < MaxLines
  /\ lines' = Append(lines, line)
  /\ UNCHANGED <<vars, options, pc, switches, message, closed, buffered, taken, inbox, turn, sent>>

EndInput ==
  /\ Running /\ HasStdin /\ ~closed
  /\ closed' = TRUE
  /\ UNCHANGED <<vars, options, pc, switches, message, lines, buffered, taken, inbox, turn, sent>>

(* A reply only after its request. *)
Arrives ==
  /\ Running /\ options.type # "push" /\ inbox < MaxInbox
  /\ options.type = "request" => turn = "recv"
  /\ inbox' = inbox + 1
  /\ UNCHANGED <<vars, options, pc, switches, message, input, turn, sent>>

-------------------------------------------------------------------------------
(* main(). *)

Goes(from, to) == options.type # "none" /\ pc = from /\ pc' = to

(* bind() and connect() may throw. *)
Connects ==
  /\ \E to \in {"add", "refused"} : Goes("start", to)
  /\ UNCHANGED <<vars, options, switches, message, input, inbox, turn, sent>>

AddSocket ==
  /\ Goes("add", IF HasStdin THEN "addStdin" ELSE "tune") /\ Add(TheSocket, {"in"})
  /\ UNCHANGED <<options, switches, message, input, inbox, turn, sent>>

AddStdin ==
  /\ Goes("addStdin", "tune") /\ Add(Stdin, {"in"})
  /\ UNCHANGED <<options, switches, message, input, inbox, turn, sent>>

WhatIf(enabled) == IF enabled THEN {"in"} ELSE {}

TuneSocket ==
  /\ Goes("tune", IF HasStdin THEN "tuneStdin" ELSE "poll")
  /\ CheckFor(TheSocket, WhatIf(can_recv))
  /\ UNCHANGED <<options, switches, message, input, inbox, turn, sent>>

(* Mutant: the input is watched all the time. *)
TuneStdinAlways ==
  /\ Goes("tuneStdin", "poll") /\ CheckFor(Stdin, {"in"})
  /\ UNCHANGED <<options, switches, message, input, inbox, turn, sent>>

TuneStdin ==
  /\ Goes("tuneStdin", "poll") /\ CheckFor(Stdin, WhatIf(can_send))
  /\ UNCHANGED <<options, switches, message, input, inbox, turn, sent>>

(* What zmq_poll finds: a socket with a message it may receive; input that  *)
(* stdio has not read, the end of a terminal's or a file's, and the end of *)
(* a pipe, which is no input and is seen whether asked for or not.         *)
Ready(k) ==
  IF k = TheSocket THEN WhatIf(inbox > 0 /\ MayStill("recv"))
  ELSE WhatIf(buffered < Len(lines) \/ (closed /\ options.terminal))
         \cup IF closed /\ ~options.terminal THEN {"err"} ELSE {}

PollsReady ==
  LET rev == [i \in DOMAIN poller.items |->
                Ready(poller.items[i].key)
                  \cap Raisable(poller.items[i].key, poller.items[i].events)]
  IN  /\ Goes("poll", "socket")
      /\ \E i \in DOMAIN rev : rev[i] # {}
      /\ poller' = PollerRaise(poller, rev) /\ answer' = Bool(TRUE)
      /\ UNCHANGED <<options, switches, message, input, inbox, turn, sent>>

(* ... and when a signal interrupts it, nothing. *)
PollInterrupted ==
  /\ Goes("poll", "tune") /\ options.signals
  /\ answer' = Bool(FALSE)
  /\ UNCHANGED <<poller, options, switches, message, input, inbox, turn, sent>>

(* All parts of a message are received and printed; the socket flips. *)
ReceiveMessage ==
  /\ Goes("socket", "stdin") /\ HasInput(poller, TheSocket)
  /\ Events(TheSocket)
  /\ inbox' = inbox - 1 /\ turn' = IF Toggles THEN "send" ELSE turn
  /\ IF Toggles THEN can_recv' = FALSE /\ can_send' = TRUE ELSE UNCHANGED switches
  /\ UNCHANGED <<options, message, input, sent>>

(* A signal interrupts the receive: nothing came, the switches flip.        *)
ReceiveInterrupted ==
  /\ Goes("socket", "stdin") /\ HasInput(poller, TheSocket) /\ options.signals
  /\ Events(TheSocket)
  /\ IF Toggles THEN can_recv' = FALSE /\ can_send' = TRUE ELSE UNCHANGED switches
  /\ UNCHANGED <<options, message, input, inbox, turn, sent>>

NoMessage ==
  /\ Goes("socket", "stdin") /\ ~HasInput(poller, TheSocket)
  /\ Events(TheSocket)
  /\ UNCHANGED <<options, switches, message, input, inbox, turn, sent>>

(* Without input a client that only sends leaves. *)
LooksAtStdin ==
  /\ IF ~HasStdin THEN Goes("stdin", "tune") /\ UNCHANGED vars
     ELSE /\ Events(Stdin)
          /\ Goes("stdin", IF HasInput(poller, Stdin) THEN "gets"
                           ELSE IF can_send /\ ~can_recv THEN "left" ELSE "tune")
  /\ UNCHANGED <<options, switches, message, input, inbox, turn, sent>>

(* fgets: a line that stdio has, or what it reads when it has none: a line  *)
(* of a terminal, all there is of a pipe or of input that has ended.       *)
Reads ==
  \/ buffered > taken /\ UNCHANGED buffered
  \/ /\ buffered = taken /\ buffered < Len(lines)
     /\ buffered' = IF options.terminal /\ ~closed THEN buffered + 1 ELSE Len(lines)

AtEnd == closed /\ taken = Len(lines)

(* A line is a part, a blank one the end of the message. *)
GetsLine ==
  /\ Reads
  /\ taken' = taken + 1
  /\ IF lines[taken'] = "blank"
       THEN Goes("gets", "send") /\ UNCHANGED message
       ELSE /\ message' = Append(message, taken')
            /\ Goes("gets", IF options.singlepart THEN "send" ELSE "gets")
  /\ UNCHANGED <<vars, options, switches, lines, closed, inbox, turn, sent>>

(* The end of the input ends a message; before one, it is an error. *)
GetsNothing ==
  /\ AtEnd /\ Goes("gets", IF message = <<>> THEN "failed" ELSE "send")
  /\ UNCHANGED <<vars, options, switches, message, input, inbox, turn, sent>>

Flips == IF Toggles THEN can_recv' = TRUE /\ can_send' = FALSE ELSE UNCHANGED switches

(* Mutant: it is not sent again when it would have to wait. *)
SendMessageOnce ==
  /\ Goes("send", "tune") /\ message # <<>>
  /\ sent' \in {sent, Append(sent, message)} /\ message' = <<>>
  /\ turn' = IF Toggles THEN "recv" ELSE turn
  /\ Flips
  /\ UNCHANGED <<vars, options, input, inbox>>

(* The socket takes the message, at once or when it can. *)
SendMessage ==
  /\ Goes("send", "tune") /\ message # <<>>
  /\ sent' = Append(sent, message) /\ message' = <<>>
  /\ turn' = IF Toggles THEN "recv" ELSE turn
  /\ Flips
  /\ UNCHANGED <<vars, options, input, inbox>>

(* A signal interrupts the wait: the message is dropped, the socket flips.  *)
SendInterrupted ==
  /\ Goes("send", "tune") /\ message # <<>> /\ options.signals
  /\ message' = <<>>
  /\ Flips
  /\ UNCHANGED <<vars, options, input, inbox, turn, sent>>

(* Mutant: the client leaves. *)
NothingLeaves ==
  /\ Goes("send", "left") /\ message = <<>>
  /\ UNCHANGED <<vars, options, switches, message, input, inbox, turn, sent>>

NothingToSend ==
  /\ Goes("send", "tune") /\ message = <<>>
  /\ UNCHANGED <<vars, options, switches, message, input, inbox, turn, sent>>

-------------------------------------------------------------------------------
Main ==
  \/ Connects \/ AddSocket \/ AddStdin \/ TuneSocket \/ TuneStdin
  \/ PollsReady \/ PollInterrupted \/ ReceiveMessage \/ ReceiveInterrupted \/ NoMessage
  \/ LooksAtStdin \/ GetsLine \/ GetsNothing
  \/ SendMessage \/ SendInterrupted \/ NothingToSend

ClientNext ==
  \/ options.type = "none" /\ UniqueNext /\ UNCHANGED clientVars
  \/ Main
  \/ \E line \in {"text", "blank"} : Type(line)
  \/ EndInput \/ Arrives

ClientSpec == ClientInit /\ [][ClientNext]_allVars

(* main() runs, and libzmq takes what is sent to it. *)
FairClientSpec == ClientSpec /\ WF_allVars(Main)

-------------------------------------------------------------------------------
(* The assertions of main.cpp:176, :210 and :230, and what request and     *)
(* reply sockets ask for: the client receives and reads lines only when    *)
(* that is enabled, starts with an empty message, and sends and receives   *)
(* by turns, though the masks follow the switches only once a round and    *)
(* signals interrupt polls, receives and sends.                            *)
KeepsItsTurns ==
  /\ pc = "socket" /\ HasInput(poller, TheSocket) => can_recv /\ MayStill("recv")
  /\ pc = "stdin" => message = <<>>
  /\ pc = "gets" => can_send
  /\ pc = "send" => MayStill("send")

(* Messages with the lines S between them, each once and in their order. *)
Splits(all, S) ==
  /\ S = UNION {{all[m][i] : i \in DOMAIN all[m]} : m \in DOMAIN all}
  /\ \A m, n \in DOMAIN all : \A i \in DOMAIN all[m], j \in DOMAIN all[n] :
       m < n \/ (m = n /\ i < j) => all[m][i] < all[n][j]

TextTaken == {i \in 1..taken : lines[i] = "text"}

(* main.cpp:128 "data entered on standard in will be sent to the 0mq       *)
(* socket": no line that fgets returned is lost, doubled or out of order,   *)
(* unless a signal interrupts a send; and when a client leaves whose       *)
(* socket only sends and whose input is no pipe, it has read all of it.    *)
LosesNoLine ==
  options.type # "none" /\ ~options.signals =>
    /\ Splits(Append(sent, message), TextTaken)
    /\ pc \in {"left", "failed"} /\ options.terminal /\ ~Toggles => AtEnd

(* Lines are not left waiting: what is entered at a terminal in front of a *)
(* socket that only sends is read, when signals do not go on interrupting. *)
ReadsOn ==
  \A n \in 1..MaxLines :
    options.type = "push" /\ options.terminal /\ ~options.signals /\ Len(lines) >= n ~> taken >= n \/ pc = "refused"
===============================================================================
