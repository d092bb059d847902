-------------------------------- MODULE Message --------------------------------
(***************************************************************************)
(* zmqpp::message and its frames (src/src/zmqpp/message.cpp, frame.cpp):   *)
(* who owns the storage behind the parts, where a reader is, and what      *)
(* typed reads make of the bytes.  Storage is a buffer that the caller     *)
(* gave away with move() or add_nocopy(), or one that libzmq allocated for *)
(* a copy; libzmq counts the zmq_msg_t that refer to it and releases it    *)
(* with the last one.                                                      *)
(***************************************************************************)
EXTENDS Encoding, FiniteSets

CONSTANTS
  Messages,   \* message objects
  Buffers,    \* storage, each used for one part
  MaxWire,    \* bound: messages that libzmq has
  MaxRefs,    \* bound: references to a buffer, lost ones included
  MaxPast,    \* bound: how far a reader goes past the end
  Values,     \* the types and values that callers write as "typed" parts
  MaxTyped,   \* bound: how many such parts they write
  Uses        \* the sets of what callers do beyond the plain use:
              \*   "pop"     a part is removed from in front of others
              \*   "onto"    copy(source) onto a message that has parts
              \*   "shrink"  a part is removed that was read already
              \*   "past"    a reader goes on past the last part
              \*   "typed"   parts are written and read by their types, and the
              \*             messages may be in processes of two byte orders;
              \*             otherwise all are in one, and bytes are not looked at

ASSUME MessageBounds ==
  /\ MaxPast \in Nat /\ MaxWire \in Nat /\ MaxRefs \in Nat /\ MaxTyped \in Nat

Empty == "empty"      \* a zmq_msg_t without storage

ASSUME EmptyAssumption == Empty \notin Buffers

ASSUME ValuesAreTyped == \A v \in Values : IsOf(v.type, v.value)

VARIABLES
  use,        \* which of Uses it is
  order,      \* the byte order of the process an object is in
  content,    \* the bytes in a buffer, and the typed value written there
  parts,      \* _parts of each object: the storage of each frame
  cursor,     \* _read_cursor
  wire,       \* the messages libzmq has
  refs,       \* how many zmq_msg_t refer to a buffer, for libzmq
  given,      \* the buffers that became a part
  released    \* how often each was released

written == <<use, order, content>>
vars == <<written, parts, cursor, wire, refs, given, released>>

(* Nobody looks at the bytes. *)
Opaque == [type |-> "string", value |-> <<>>, bytes |-> <<>>, order |-> "little"]

Init ==
  /\ use \in Uses
  /\ order \in IF "typed" \in use THEN [Messages -> ByteOrders] ELSE [Messages -> {"little"}]
  /\ content = [b \in Buffers |-> Opaque]
  /\ parts = [m \in Messages |-> <<>>] /\ cursor = [m \in Messages |-> 0]
  /\ wire = <<>>
  /\ refs = [b \in Buffers |-> 0] /\ given = {} /\ released = [b \in Buffers |-> 0]

-------------------------------------------------------------------------------
(* libzmq's count of references. *)

Count(b, s) == Cardinality({i \in DOMAIN s : s[i] = b})

(* zmq_msg_close on what s holds. *)
Closed(s) ==
  /\ refs' = [b \in Buffers |-> refs[b] - Count(b, s)]
  /\ released' = [b \in Buffers |->
       IF refs[b] > 0 /\ refs'[b] = 0 THEN released[b] + 1 ELSE released[b]]

(* Nothing is closed: a zmq_msg_t that is overwritten takes its reference  *)
(* with it.                                                                *)
Overwritten == UNCHANGED <<refs, released>>

-------------------------------------------------------------------------------
(* Parts. *)

Without(s, i) == SubSeq(s, 1, i - 1) \o SubSeq(s, i + 1, Len(s))

(* What a part of m has when v is written: add, operator<< and push_front. *)
Written(m, v) ==
  [type |-> v.type, value |-> v.value, bytes |-> Put(order[m], v.type, v.value), order |-> order[m]]

(* add, add_raw, move, add_nocopy, operator<<, raw_new_msg at the back, or *)
(* push_front.                                                             *)
Add(m, b, front) ==
  /\ b \notin given
  /\ IF "typed" \in use
       THEN Cardinality(given) < MaxTyped /\ \E v \in Values : content' = [content EXCEPT ![b] = Written(m, v)]
       ELSE UNCHANGED content
  /\ given' = given \cup {b}
  /\ refs' = [refs EXCEPT ![b] = 1]
  /\ parts' = [parts EXCEPT ![m] = IF front THEN <<b>> \o @ ELSE Append(@, b)]
  /\ UNCHANGED <<use, order, cursor, wire, released>>

(* pop_back, pop_front and remove(i): vector::erase assigns each later     *)
(* frame to the one before it, and frame's operator= initialises its       *)
(* zmq_msg_t anew without closing it; the last frame is destroyed.         *)
Remove(m, i) ==
  /\ i \in DOMAIN parts[m]
  /\ i < Len(parts[m]) => "pop" \in use
  /\ Len(parts[m]) = cursor[m] => "shrink" \in use
  /\ parts' = [parts EXCEPT ![m] = Without(@, i)]
  /\ IF i = Len(parts[m]) THEN Closed(<<parts[m][i]>>) ELSE Overwritten
  /\ UNCHANGED <<written, cursor, wire, given>>

-------------------------------------------------------------------------------
(* Whole messages. *)

(* Mutants: the source keeps its cursor; the target's parts are not destroyed. *)
MoveKeepsCursor(m, n) ==
  /\ m # n
  /\ parts' = [parts EXCEPT ![n] = parts[m], ![m] = <<>>]
  /\ cursor' = [cursor EXCEPT ![n] = cursor[m]]
  /\ Closed(parts[n])
  /\ UNCHANGED <<written, wire, given>>

MoveOverwrites(m, n) ==
  /\ m # n
  /\ parts' = [parts EXCEPT ![n] = parts[m], ![m] = <<>>]
  /\ cursor' = [cursor EXCEPT ![n] = cursor[m], ![m] = 0]
  /\ Overwritten
  /\ UNCHANGED <<written, wire, given>>

(* message(message&&) and operator=(message&&). *)
Move(m, n) ==
  /\ m # n /\ order[m] = order[n]
  /\ parts' = [parts EXCEPT ![n] = parts[m], ![m] = <<>>]
  /\ cursor' = [cursor EXCEPT ![n] = cursor[m], ![m] = 0]
  /\ Closed(parts[n])
  /\ UNCHANGED <<written, wire, given>>

(* Mutant: the parts of the copy do not count. *)
CopyUncounted(m, n) ==
  /\ parts[n] # <<>> => "onto" \in use
  /\ parts' = [parts EXCEPT ![n] = parts[m]]
  /\ UNCHANGED <<written, refs, cursor, wire, given, released>>

(* copy(source): the parts beyond the source's are destroyed by resize(),  *)
(* the others overwritten by frame's operator=; the copies share storage,  *)
(* and the cursor stays.                                                   *)
Copy(m, n) ==
  LET kept == Len(parts[m])
      cut  == SubSeq(parts[n], kept + 1, Len(parts[n]))
      now(b) == refs[b] + Count(b, parts[m]) - Count(b, cut)
  IN  /\ order[m] = order[n]
      /\ parts[n] # <<>> => "onto" \in use
      /\ \A b \in Buffers : now(b) <= MaxRefs
      /\ cursor[n] > kept => "shrink" \in use
      /\ parts' = [parts EXCEPT ![n] = parts[m]]
      /\ refs' = [b \in Buffers |-> now(b)]
      /\ released' = [b \in Buffers |->
           IF refs[b] > 0 /\ now(b) = 0 THEN released[b] + 1 ELSE released[b]]
      /\ UNCHANGED <<written, cursor, wire, given>>

(* ~message, and an object constructed in its place; a receive() that is    *)
(* refused comes to the same.                                              *)
Destroy(m) ==
  /\ parts' = [parts EXCEPT ![m] = <<>>] /\ cursor' = [cursor EXCEPT ![m] = 0]
  /\ Closed(parts[m])
  /\ UNCHANGED <<written, wire, given>>

(* socket::send: libzmq takes the parts, the object is swapped with a new  *)
(* one.  sent() asserts that no part was sent before.                      *)
Send(m) ==
  /\ parts[m] # <<>> /\ Len(wire) < MaxWire
  /\ \A i \in DOMAIN parts[m] : parts[m][i] # Empty
  /\ wire' = Append(wire, parts[m])
  /\ parts' = [parts EXCEPT ![m] = <<>>] /\ cursor' = [cursor EXCEPT ![m] = 0]
  /\ UNCHANGED <<written, refs, given, released>>

(* ... or it throws after the first k: those frames are empty now. *)
SendThrows(m, k) ==
  /\ k \in 1..(Len(parts[m]) - 1)
  /\ parts' = [parts EXCEPT ![m] = [i \in DOMAIN @ |-> IF i <= k THEN Empty ELSE @[i]]]
  /\ Closed(SubSeq(parts[m], 1, k))
  /\ UNCHANGED <<written, cursor, wire, given>>

(* Who sent the first message was a process of that byte order. *)
Near(m) == \A i \in DOMAIN Head(wire) : content[Head(wire)[i]].order = order[m]

(* socket::receive of what this process sent, over inproc: an old message  *)
(* is swapped with a new one and destroyed, an empty one stays.            *)
Receive(m) ==
  /\ wire # <<>> /\ Near(m)
  /\ wire' = Tail(wire)
  /\ parts' = [parts EXCEPT ![m] = Head(wire)]
  /\ cursor' = IF parts[m] # <<>> THEN [cursor EXCEPT ![m] = 0] ELSE cursor
  /\ Closed(parts[m])
  /\ UNCHANGED <<written, given>>

(* ... of what another process sent: libzmq has storage of its own for it. *)
ReceiveRemote(m) ==
  /\ wire # <<>> /\ ~Near(m)
  /\ wire' = Tail(wire)
  /\ \E fresh \in [DOMAIN Head(wire) -> Buffers \ given] :
       LET sent(b) == {i \in DOMAIN fresh : fresh[i] = b}
           received(b) == content[Head(wire)[CHOOSE i \in sent(b) : TRUE]]
           gone == parts[m] \o Head(wire)
       IN  /\ \A b \in Buffers : Cardinality(sent(b)) <= 1
           /\ parts' = [parts EXCEPT ![m] = fresh]
           /\ given' = given \cup {b \in Buffers : sent(b) # {}}
           /\ content' = [b \in Buffers |->
                IF sent(b) = {} THEN content[b] ELSE [received(b) EXCEPT !.order = order[m]]]
           /\ refs' = [b \in Buffers |->
                IF sent(b) = {} THEN refs[b] - Count(b, gone) ELSE 1]
           /\ released' = [b \in Buffers |->
                IF refs[b] > 0 /\ refs'[b] = 0 THEN released[b] + 1 ELSE released[b]]
  /\ cursor' = IF parts[m] # <<>> THEN [cursor EXCEPT ![m] = 0] ELSE cursor
  /\ UNCHANGED <<use, order>>

(* libzmq is through with a message, which went to another process. *)
Gone ==
  /\ wire # <<>>
  /\ wire' = Tail(wire)
  /\ Closed(Head(wire))
  /\ UNCHANGED <<written, parts, cursor, given>>

-------------------------------------------------------------------------------
(* The reader. *)

Steps(m, to) == cursor' = [cursor EXCEPT ![m] = to] /\ UNCHANGED <<written, parts, wire, refs, given, released>>

(* operator>> steps on before it reads, also when get() throws; next() does not read. *)
Read(m) ==
  /\ cursor[m] < IF "past" \in use THEN Len(parts[m]) + MaxPast ELSE Len(parts[m])
  /\ Steps(m, cursor[m] + 1)

Reset(m) == Steps(m, 0)

-------------------------------------------------------------------------------
Next ==
  \/ \E m \in Messages :
       \/ \E b \in Buffers, front \in BOOLEAN : Add(m, b, front)
       \/ \E i \in DOMAIN parts[m] : Remove(m, i) \/ SendThrows(m, i)
       \/ \E n \in Messages : Move(m, n) \/ Copy(m, n)
       \/ Destroy(m) \/ Send(m) \/ Receive(m) \/ ReceiveRemote(m) \/ Read(m) \/ Reset(m)
  \/ Gone

Spec == Init /\ [][Next]_vars

-------------------------------------------------------------------------------
(* The frames of several messages that refer to a buffer, and how many     *)
(* there are that somebody will still close.                               *)
Slots(lists, b) ==
  {f \in UNION {{x} \X DOMAIN lists[x] : x \in DOMAIN lists} : lists[f[1]][f[2]] = b}
Holders(b) == Cardinality(Slots(parts, b)) + Cardinality(Slots(wire, b))

(* message.hpp:89-90: whatever is removed, copied or sent, a buffer that a *)
(* part still shows was not released, and none is released twice.          *)
NotReleasedInUse ==
  \A b \in Buffers : released[b] <= IF Holders(b) > 0 THEN 0 ELSE 1

(* message.hpp:49 "The release function will be called on any void* moved  *)
(* part.": when neither a message nor libzmq has it any more.              *)
ReleasedWhenUnused == \A b \in given : Holders(b) = 0 => released[b] = 1

(* So it is when parts are only taken off the back, and copies go into     *)
(* empty messages: else a frame is overwritten (frame.cpp:82-89) and what  *)
(* it had is never released.                                               *)
ReleasedUnlessOverwritten == use \cap {"pop", "onto"} = {} => ReleasedWhenUnused

(* The bytes a message shows, part by part. *)
Bytes(m) == [i \in DOMAIN parts[m] |-> IF parts[m][i] = Empty THEN <<>> ELSE content[parts[m][i]].bytes]

(* A part read by the type it was written with gives the value that was    *)
(* written, wherever the message has been moved, copied or sent, also to a *)
(* host of the other byte order (message.cpp:113-328, inet.hpp:62-186).    *)
ReadsWhatWasWritten ==
  \A m \in Messages : \A i \in DOMAIN parts[m] \ {j \in DOMAIN parts[m] : parts[m][j] = Empty} :
    LET c == content[parts[m][i]] IN Get(order[m], c.type, c.bytes) = c.value

(* signal.hpp:20 "7 first bytes acts as a magic number so we can           *)
(* distinguish signal from other message": is_signal() is true of the      *)
(* messages of one part that was written as a signal, and otherwise only   *)
(* of 8 bytes that have the magic number in front.                         *)
SignalsAreSignals ==
  \A m \in Messages :
    IsSignal(order[m], Bytes(m)) <=>
      /\ Len(parts[m]) = 1 /\ parts[m][1] # Empty
      /\ LET c == content[parts[m][1]]
         IN  c.type = "signal" \/ (Len(c.value) = 8 /\ ShiftedRight(c.value) = SignalHeader)

(* message.hpp:349 "Gets the remaining number of parts in the message.":   *)
(* remaining() subtracts the cursor from the size, and neither a move nor  *)
(* a send or receive leaves a cursor behind that is beyond it.  A read     *)
(* past the end does, and the removal of a part that was read.             *)
RemainingCounts ==
  use \cap {"past", "shrink"} = {} => \A m \in Messages : cursor[m] <= Len(parts[m])
===============================================================================
