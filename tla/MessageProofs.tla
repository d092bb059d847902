----------------------------- MODULE MessageProofs -----------------------------
(***************************************************************************)
(* Theorems about zmqpp::message for every set of messages, buffers and    *)
(* typed values: what a typed read gives back, and who releases storage.   *)
(***************************************************************************)
EXTENDS Message, FiniteSetTheorems, FunctionTheorems, SequenceTheorems,
        TLAPS

-------------------------------------------------------------------------------
(* The order of bytes. *)

(* Reversing twice changes nothing. *)
LEMMA ReversedTwice ==
  ASSUME NEW A, NEW s \in Seq(A)
  PROVE  Reversed(s) \in Seq(A) /\ Len(Reversed(s)) = Len(s) /\ Reversed(Reversed(s)) = s
<1>1. PICK n \in Nat : n = Len(s) /\ DOMAIN s = 1..n /\ s = [i \in 1..n |-> s[i]]
  OBVIOUS
<1>2. PICK t : t = Reversed(s)
  OBVIOUS
<1>3. t = [i \in 1..n |-> s[n + 1 - i]]
  BY <1>1, <1>2 DEF Reversed
<1>4. \A i \in 1..n : n + 1 - i \in 1..n /\ n + 1 - (n + 1 - i) = i /\ s[n + 1 - i] \in A
  BY <1>1
<1>5. t \in Seq(A) /\ Len(t) = n /\ DOMAIN t = 1..n
  BY <1>3, <1>4
<1>6. Reversed(t) = [i \in 1..n |-> t[n + 1 - i]]
  BY <1>5 DEF Reversed
<1>7. \A i \in 1..n : t[n + 1 - i] = s[i]
  BY <1>3, <1>4
<1> QED
  BY <1>1, <1>2, <1>5, <1>6, <1>7

(* One byte has no order. *)
LEMMA ReversedOne ==
  ASSUME NEW A, NEW s \in Seq(A), Len(s) = 1
  PROVE  Reversed(s) = s
BY DEF Reversed

(* swap_if_needed exchanges all of the 8 bytes. *)
LEMMA SwapsReverse ==
  ASSUME NEW A, NEW s \in Seq(A), Len(s) = 8
  PROVE  Swap(Swap(Swap(Swap(s, 1, 8), 2, 7), 3, 6), 4, 5) = Reversed(s)
<1>1. s \in [1..8 -> A] /\ DOMAIN s = 1..8
  <2>1. s \in [1..Len(s) -> A] /\ DOMAIN s = 1..Len(s)
    BY LenProperties
  <2> QED
    BY <2>1
<1>2. PICK p : p = Swap(Swap(s, 1, 8), 2, 7)
  OBVIOUS
<1>3. PICK q : q = Swap(Swap(p, 3, 6), 4, 5)
  OBVIOUS
<1>4. /\ p \in [1..8 -> A]
      /\ p[1] = s[8] /\ p[2] = s[7] /\ p[3] = s[3] /\ p[4] = s[4]
      /\ p[5] = s[5] /\ p[6] = s[6] /\ p[7] = s[2] /\ p[8] = s[1]
  BY <1>1, <1>2 DEF Swap
<1>5. /\ q \in [1..8 -> A]
      /\ q[1] = p[1] /\ q[2] = p[2] /\ q[3] = p[6] /\ q[4] = p[5]
      /\ q[5] = p[4] /\ q[6] = p[3] /\ q[7] = p[7] /\ q[8] = p[8]
  BY <1>3, <1>4 DEF Swap
<1>6. Reversed(s) = [i \in 1..8 |-> s[9 - i]]
  BY <1>1 DEF Reversed
<1>7. \A i \in 1..8 : q[i] = s[9 - i]
  BY <1>4, <1>5
<1> QED
  BY <1>2, <1>3, <1>5, <1>6, <1>7

(* A host finds out its own order. *)
LEMMA HostOrderIsKnown ==
  ASSUME NEW host \in ByteOrders
  PROVE  HostOrder(host) = host
<1>1. Reversed(<<0, 0, 0, 42>>)[1] = 42
  BY DEF Reversed
<1> QED
  BY <1>1 DEF HostOrder, Htonl, ByteOrders

(* What Memory makes of bytes. *)
LEMMA MemoryTwice ==
  ASSUME NEW A, NEW host \in ByteOrders, NEW s \in Seq(A)
  PROVE  /\ Memory(host, s) \in Seq(A) /\ Len(Memory(host, s)) = Len(s)
         /\ Memory(host, Memory(host, s)) = s
BY ReversedTwice DEF Memory

(* htonll and ntohll, on every host. *)
LEMMA SwapIsMemory ==
  ASSUME NEW host \in ByteOrders, NEW value \in Seq(Byte), Len(value) = 8
  PROVE  SwapIfNeeded(host, value) = Memory(host, value)
<1>1. CASE host = "big"
  BY <1>1, HostOrderIsKnown DEF SwapIfNeeded, Memory
<1>2. CASE host = "little"
  <2>1. HostOrder(host) # "big"
    BY <1>2, HostOrderIsKnown
  <2>2. PICK s : s = Memory(host, value) /\ s \in Seq(Byte) /\ Len(s) = 8
    BY MemoryTwice
  <2>3. Swap(Swap(Swap(Swap(s, 1, 8), 2, 7), 3, 6), 4, 5) = Reversed(s)
    BY <2>2, SwapsReverse
  <2>4. SwapIfNeeded(host, value) = Reversed(Reversed(s))
    BY <1>2, <2>1, <2>2, <2>3 DEF SwapIfNeeded, Value, Memory
  <2> QED
    BY <2>2, <2>4, ReversedTwice
<1> QED
  BY <1>1, <1>2 DEF ByteOrders

(* A part has the bytes in the order of the network on every host, and a   *)
(* read on any host gives the value back (message.cpp:113-328).            *)
LEMMA PutAndGet ==
  ASSUME NEW host \in ByteOrders, NEW type, NEW value, IsOf(type, value)
  PROVE  Put(host, type, value) = value /\ Get(host, type, value) = value
<1>1. value \in Seq(Byte)
  BY DEF IsOf
<1>a. Memory(host, Memory(host, value)) = value
  BY <1>1, MemoryTwice
<1>2. CASE type \in Wide
  <2>1. Len(value) = 8 /\ type # "string" /\ type # "bool" /\ type \notin Narrow
    BY <1>2 DEF IsOf, Wide, Narrow
  <2>2. /\ SwapIfNeeded(host, value) = Memory(host, value)
        /\ Memory(host, value) \in Seq(Byte) /\ Len(Memory(host, value)) = 8
    BY <1>1, <2>1, MemoryTwice, SwapIsMemory
  <2>3. \A v : Network(host, type, v) = SwapIfNeeded(host, v)
    BY <1>2, <2>1 DEF Network
  <2>4. Put(host, type, value) = Memory(host, SwapIfNeeded(host, value))
    BY <2>1, <2>3 DEF Put
  <2>5. Get(host, type, value) = SwapIfNeeded(host, Memory(host, value))
    BY <2>1, <2>3 DEF Get, Value
  <2> QED
    BY <1>a, <2>1, <2>2, <2>4, <2>5, SwapIsMemory
<1>3. CASE type \in Narrow
  <2>1. type # "string" /\ type # "bool" /\ type \notin Wide
    BY <1>3 DEF Narrow, Wide
  <2>2. \A v : Network(host, type, v) = Memory(host, v)
    BY <1>3, <2>1 DEF Network, Htonl, Memory
  <2> QED
    BY <1>a, <2>1, <2>2 DEF Put, Get, Value
<1>4. CASE type \in {"int8", "uint8"}
  <2>1. type # "string" /\ type # "bool" /\ type \notin Wide /\ type \notin Narrow /\ Len(value) = 1
    BY <1>4 DEF Narrow, Wide, IsOf
  <2>2. \A v : Network(host, type, v) = v
    BY <2>1 DEF Network
  <2>3. Memory(host, value) = value
    BY <1>1, <2>1, ReversedOne DEF Memory
  <2> QED
    BY <2>1, <2>2, <2>3 DEF Put, Get, Value
<1>5. CASE type \in {"bool", "string"}
  BY <1>5 DEF IsOf, Put, Get
<1> QED
  BY <1>2, <1>3, <1>4, <1>5 DEF IsOf

-------------------------------------------------------------------------------
(* What the parts and the buffers have in them. *)

Frame == Buffers \cup {Empty}
Types == Wide \cup Narrow \cup {"int8", "uint8", "bool", "string"}
Content == [type : Types, value : Seq(Byte), bytes : Seq(Byte), order : ByteOrders]

(* The bytes of a buffer are the value that was written there. *)
AsWritten(c) == c \in Content /\ IsOf(c.type, c.value) /\ c.bytes = c.value

(* Parts and the messages that libzmq has consist of storage.  What libzmq *)
(* has was sent, and so has no empty frame.                                *)
Shaped == parts \in [Messages -> Seq(Frame)] /\ wire \in Seq(Seq(Buffers))

WrittenInv ==
  /\ order \in [Messages -> ByteOrders]
  /\ content \in [Buffers -> Content]
  /\ \A b \in Buffers : AsWritten(content[b])

(* Removing one part. *)
LEMMA WithoutTyped ==
  ASSUME NEW A, NEW s \in Seq(A), NEW i \in DOMAIN s
  PROVE  Without(s, i) \in Seq(A) /\ Len(Without(s, i)) = Len(s) - 1
<1>1. i \in 1..Len(s) /\ Len(s) \in Nat
  OBVIOUS
<1>2. /\ SubSeq(s, 1, i - 1) \in Seq(A) /\ Len(SubSeq(s, 1, i - 1)) = i - 1
      /\ SubSeq(s, i + 1, Len(s)) \in Seq(A) /\ Len(SubSeq(s, i + 1, Len(s))) = Len(s) - i
  BY <1>1
<1>3. PICK r, t : /\ r \in Seq(A) /\ Len(r) = i - 1 /\ t \in Seq(A) /\ Len(t) = Len(s) - i
                  /\ Without(s, i) = r \o t
  BY <1>2 DEF Without
<1>4. r \o t \in Seq(A) /\ Len(r \o t) = Len(r) + Len(t)
  BY <1>3, ConcatProperties
<1> QED
  BY <1>1, <1>3, <1>4

(* The frames of a message of which the first k were sent. *)
Emptied(s, k) == [i \in DOMAIN s |-> IF i <= k THEN Empty ELSE s[i]]

(* It has as many, and they are frames. *)
LEMMA EmptiedTyped ==
  ASSUME NEW s \in Seq(Frame), NEW k
  PROVE  Emptied(s, k) \in Seq(Frame) /\ Len(Emptied(s, k)) = Len(s)
<1>1. PICK n \in Nat : n = Len(s) /\ DOMAIN s = 1..n
  OBVIOUS
<1>2. \A i \in 1..n : s[i] \in Frame /\ Empty \in Frame
  BY <1>1 DEF Frame
<1>3. PICK t : t = [i \in 1..n |-> IF i <= k THEN Empty ELSE s[i]]
  OBVIOUS
<1>4. \A i \in 1..n : t[i] \in Frame
  BY <1>2, <1>3
<1>5. t \in Seq(Frame) /\ Len(t) = n
  BY <1>3, <1>4
<1> QED
  BY <1>1, <1>3, <1>5 DEF Emptied

(* Without parts there is no frame. *)
LEMMA ShapedInit == Init => Shaped
BY DEF Init, Shaped

(* Frames stay frames: every call and every step of libzmq, also a send    *)
(* that throws between two parts, leaves storage or empty frames.          *)
LEMMA ShapedNext == Shaped /\ [Next]_vars => Shaped'
<1> SUFFICES ASSUME Shaped, [Next]_vars  PROVE Shaped'
  OBVIOUS
<1>0. parts \in [Messages -> Seq(Frame)] /\ wire \in Seq(Seq(Buffers))
  BY DEF Shaped
<1>a. \A b \in Buffers : b \in Frame
  BY DEF Frame
<1>b. \A s \in Seq(Buffers) : s \in Seq(Frame)
  BY <1>a
<1>1. ASSUME NEW m \in Messages, NEW s \in Seq(Frame), parts' = [parts EXCEPT ![m] = s],
             UNCHANGED wire \/ (wire # <<>> /\ wire' = Tail(wire))
      PROVE  Shaped'
  <2>1. wire' \in Seq(Seq(Buffers))
    <3>1. CASE UNCHANGED wire
      BY <1>0, <3>1
    <3>2. CASE wire # <<>> /\ wire' = Tail(wire)
      BY <1>0, <3>2, HeadTailProperties
    <3> QED
      BY <1>1, <3>1, <3>2
  <2>2. parts' \in [Messages -> Seq(Frame)]
    BY <1>0, <1>1
  <2> QED
    BY <2>1, <2>2 DEF Shaped
<1>2. ASSUME NEW m \in Messages, NEW b \in Buffers, NEW front \in BOOLEAN, Add(m, b, front)
      PROVE  Shaped'
  <2>1. PICK s : s = parts[m] /\ s \in Seq(Frame)
    BY <1>0
  <2>2. <<b>> \o s \in Seq(Frame) /\ Append(s, b) \in Seq(Frame)
    BY <1>a, <2>1
  <2>3. UNCHANGED wire /\ \E t \in {<<b>> \o s, Append(s, b)} : parts' = [parts EXCEPT ![m] = t]
    BY <1>2, <2>1 DEF Add
  <2> QED
    BY <1>1, <2>2, <2>3
<1>3. ASSUME NEW m \in Messages, NEW i \in DOMAIN parts[m], Remove(m, i)  PROVE Shaped'
  <2>1. parts[m] \in Seq(Frame)
    BY <1>0
  <2>2. Without(parts[m], i) \in Seq(Frame)
    BY <2>1, WithoutTyped
  <2> QED
    BY <1>1, <1>3, <2>2 DEF Remove
<1>4. ASSUME NEW m \in Messages, NEW k \in DOMAIN parts[m], SendThrows(m, k)  PROVE Shaped'
  <2>1. parts[m] \in Seq(Frame)
    BY <1>0
  <2>2. Emptied(parts[m], k) \in Seq(Frame)
    BY <2>1, EmptiedTyped
  <2>3. UNCHANGED wire /\ parts' = [parts EXCEPT ![m] = Emptied(parts[m], k)]
    BY <1>4 DEF SendThrows, Emptied
  <2> QED
    BY <1>1, <2>2, <2>3
<1>5. ASSUME NEW m \in Messages, NEW n \in Messages, Move(m, n)  PROVE Shaped'
  <2>1. UNCHANGED wire /\ parts' = [parts EXCEPT ![n] = parts[m], ![m] = <<>>]
    BY <1>5 DEF Move
  <2>2. parts[m] \in Seq(Frame) /\ <<>> \in Seq(Frame)
    BY <1>0
  <2> QED
    BY <1>0, <2>1, <2>2 DEF Shaped
<1>6. ASSUME NEW m \in Messages, NEW n \in Messages, Copy(m, n)  PROVE Shaped'
  <2>1. UNCHANGED wire /\ parts' = [parts EXCEPT ![n] = parts[m]] /\ parts[m] \in Seq(Frame)
    BY <1>0, <1>6 DEF Copy
  <2> QED
    BY <1>1, <2>1
<1>7. ASSUME NEW m \in Messages, Destroy(m)  PROVE Shaped'
  <2>1. <<>> \in Seq(Frame)
    OBVIOUS
  <2> QED
    BY <1>1, <1>7, <2>1 DEF Destroy
<1>8. ASSUME NEW m \in Messages, Send(m)  PROVE Shaped'
  <2>1. /\ wire' = Append(wire, parts[m]) /\ parts' = [parts EXCEPT ![m] = <<>>]
        /\ \A i \in DOMAIN parts[m] : parts[m][i] # Empty
    BY <1>8 DEF Send
  <2>2. PICK s : s = parts[m] /\ s \in Seq(Frame)
    BY <1>0
  <2>3. s \in Seq(Buffers)
    <3>1. \A i \in DOMAIN s : s[i] \in Buffers
      <4>1. \A i \in DOMAIN s : s[i] \in Frame
        BY <2>2
      <4> QED
        BY <2>1, <2>2, <4>1 DEF Frame
    <3> QED
      BY <2>2, <3>1
  <2>4. <<>> \in Seq(Frame)
    OBVIOUS
  <2> QED
    BY <1>0, <2>1, <2>2, <2>3, <2>4 DEF Shaped
<1>9. ASSUME NEW m \in Messages, Receive(m)  PROVE Shaped'
  <2>1. wire # <<>> /\ wire' = Tail(wire) /\ parts' = [parts EXCEPT ![m] = Head(wire)]
    BY <1>9 DEF Receive
  <2>2. Head(wire) \in Seq(Buffers)
    BY <1>0, <2>1
  <2> QED
    BY <1>1, <1>b, <2>1, <2>2
<1>10. ASSUME NEW m \in Messages, ReceiveRemote(m)  PROVE Shaped'
  <2>1. PICK fresh \in [DOMAIN Head(wire) -> Buffers \ given] :
          wire # <<>> /\ wire' = Tail(wire) /\ parts' = [parts EXCEPT ![m] = fresh]
    BY <1>10 DEF ReceiveRemote
  <2>2. Head(wire) \in Seq(Buffers)
    BY <1>0, <2>1
  <2>3. fresh \in Seq(Buffers)
    <3>1. PICK n \in Nat : DOMAIN Head(wire) = 1..n
      BY <2>2
    <3> QED
      BY <3>1
  <2> QED
    BY <1>1, <1>b, <2>1, <2>3
<1>11. ASSUME Gone  PROVE Shaped'
  BY <1>0, <1>11 DEF Gone, Shaped
<1>12. ASSUME NEW m \in Messages, Read(m) \/ Reset(m)  PROVE Shaped'
  BY <1>0, <1>12 DEF Read, Reset, Steps, Shaped
<1>13. ASSUME UNCHANGED vars  PROVE Shaped'
  BY <1>0, <1>13 DEF vars, Shaped
<1> QED
  BY <1>2, <1>3, <1>4, <1>5, <1>6, <1>7, <1>8, <1>9, <1>10, <1>11, <1>12, <1>13 DEF Next

(* A buffer that nobody wrote to shows nothing. *)
LEMMA WrittenInit == Init => WrittenInv
<1> SUFFICES ASSUME Init  PROVE WrittenInv
  OBVIOUS
<1>1. order \in [Messages -> ByteOrders]
  BY DEF Init, ByteOrders
<1>2. content = [b \in Buffers |-> Opaque]
  BY DEF Init
<1>3. Opaque \in Content /\ Opaque.type = "string" /\ Opaque.value = <<>> /\ Opaque.bytes = <<>>
  BY DEF Opaque, Content, Types, ByteOrders
<1>4. IsOf("string", <<>>)
  BY DEF IsOf, Wide
<1> QED
  BY <1>1, <1>2, <1>3, <1>4 DEF WrittenInv, AsWritten

(* The storage of what is written stays the storage of that value: a part  *)
(* has the bytes of its value in every process it comes to.                *)
LEMMA WrittenNext == Shaped /\ WrittenInv /\ [Next]_vars => WrittenInv'
<1> SUFFICES ASSUME Shaped, WrittenInv, [Next]_vars  PROVE WrittenInv'
  OBVIOUS
<1>0. /\ order \in [Messages -> ByteOrders] /\ content \in [Buffers -> Content]
      /\ \A b \in Buffers : AsWritten(content[b])
  BY DEF WrittenInv
<1>1. ASSUME UNCHANGED written  PROVE WrittenInv'
  BY <1>0, <1>1 DEF WrittenInv, written
<1>2. ASSUME order' = order, NEW new \in [Buffers -> Content], content' = new,
             \A b \in Buffers : AsWritten(new[b])
      PROVE  WrittenInv'
  BY <1>0, <1>2 DEF WrittenInv
<1>3. ASSUME NEW m \in Messages, NEW b \in Buffers, NEW front \in BOOLEAN, Add(m, b, front)
      PROVE  WrittenInv'
  <2>1. CASE "typed" \in use
    <3>1. PICK v \in Values : content' = [content EXCEPT ![b] = Written(m, v)] /\ UNCHANGED order
      BY <1>3, <2>1 DEF Add
    <3>2. PICK c : c = Written(m, v)
      OBVIOUS
    <3>3. IsOf(v.type, v.value) /\ order[m] \in ByteOrders
      BY <1>0, ValuesAreTyped
    <3>4. Put(order[m], v.type, v.value) = v.value
      BY <3>3, PutAndGet
    <3>5. v.type \in Types /\ v.value \in Seq(Byte)
      BY <3>3 DEF IsOf, Types
    <3>6. c = [type |-> v.type, value |-> v.value, bytes |-> v.value, order |-> order[m]]
      BY <3>2, <3>4 DEF Written
    <3>7. AsWritten(c)
      BY <3>3, <3>5, <3>6 DEF AsWritten, Content
    <3>8. content' \in [Buffers -> Content] /\ \A x \in Buffers : AsWritten(content'[x])
      BY <1>0, <3>1, <3>2, <3>7 DEF AsWritten
    <3> QED
      BY <1>2, <3>1, <3>8
  <2>2. CASE "typed" \notin use
    BY <1>1, <1>3, <2>2 DEF Add, written
  <2> QED
    BY <2>1, <2>2
<1>4. ASSUME NEW m \in Messages, ReceiveRemote(m)  PROVE WrittenInv'
  <2>1. PICK fresh \in [DOMAIN Head(wire) -> Buffers \ given] :
          /\ content' = [b \in Buffers |->
               IF {i \in DOMAIN fresh : fresh[i] = b} = {} THEN content[b]
               ELSE [content[Head(wire)[CHOOSE j \in {i \in DOMAIN fresh : fresh[i] = b} : TRUE]]
                       EXCEPT !.order = order[m]]]
          /\ wire # <<>> /\ UNCHANGED order
    BY <1>4 DEF ReceiveRemote
  <2>2. Head(wire) \in Seq(Buffers)
    BY <2>1 DEF Shaped
  <2>3. \A i \in DOMAIN Head(wire) : Head(wire)[i] \in Buffers
    BY <2>2
  <2>4. ASSUME NEW c, AsWritten(c)
        PROVE  [c EXCEPT !.order = order[m]] \in Content /\ AsWritten([c EXCEPT !.order = order[m]])
    <3>1. PICK d : d = [c EXCEPT !.order = order[m]]
      OBVIOUS
    <3>2. c \in Content /\ IsOf(c.type, c.value) /\ c.bytes = c.value /\ order[m] \in ByteOrders
      BY <1>0, <2>4 DEF AsWritten
    <3>3. d \in Content /\ d.type = c.type /\ d.value = c.value /\ d.bytes = c.bytes
      BY <3>1, <3>2 DEF Content
    <3> QED
      BY <3>1, <3>2, <3>3 DEF AsWritten
  <2>5. ASSUME NEW b \in Buffers  PROVE AsWritten(content'[b])
    <3>1. CASE {i \in DOMAIN fresh : fresh[i] = b} = {}
      BY <1>0, <2>1, <3>1
    <3>2. CASE {i \in DOMAIN fresh : fresh[i] = b} # {}
      <4>1. PICK j : /\ j = CHOOSE x \in {i \in DOMAIN fresh : fresh[i] = b} : TRUE
                     /\ j \in DOMAIN fresh
        BY <3>2
      <4>2. Head(wire)[j] \in Buffers
        BY <2>3, <4>1
      <4>3. content'[b] = [content[Head(wire)[j]] EXCEPT !.order = order[m]]
        BY <2>1, <3>2, <4>1
      <4> QED
        BY <1>0, <2>4, <4>2, <4>3
    <3> QED
      BY <3>1, <3>2
  <2>6. PICK new : new = content'
    OBVIOUS
  <2>7. new \in [Buffers -> Content]
    <3>1. \A b \in Buffers : new[b] \in Content
      BY <2>5, <2>6 DEF AsWritten
    <3>2. new = [b \in Buffers |-> new[b]]
      BY <2>1, <2>6
    <3> QED
      BY <3>1, <3>2
  <2> QED
    BY <1>2, <2>1, <2>5, <2>6, <2>7
<1>5. ASSUME NEW m \in Messages, NEW i, Remove(m, i) \/ SendThrows(m, i)  PROVE WrittenInv'
  BY <1>1, <1>5 DEF Remove, SendThrows
<1>6. ASSUME NEW m \in Messages, NEW n \in Messages, Move(m, n) \/ Copy(m, n)  PROVE WrittenInv'
  BY <1>1, <1>6 DEF Move, Copy
<1>7. ASSUME NEW m \in Messages, Destroy(m) \/ Send(m) \/ Receive(m) \/ Read(m) \/ Reset(m)
      PROVE  WrittenInv'
  BY <1>1, <1>7 DEF Destroy, Send, Receive, Read, Reset, Steps
<1>8. ASSUME Gone \/ UNCHANGED vars  PROVE WrittenInv'
  BY <1>1, <1>8 DEF Gone, vars
<1> QED
  BY <1>3, <1>4, <1>5, <1>6, <1>7, <1>8 DEF Next

(* A part reads as what was written, on hosts of either byte order and     *)
(* wherever the message was moved, copied or sent (message.cpp:113-328).   *)
THEOREM MessageReadsWhatWasWritten == Spec => []ReadsWhatWasWritten
<1>1. Init => Shaped /\ WrittenInv
  BY ShapedInit, WrittenInit
<1>2. Shaped /\ WrittenInv /\ [Next]_vars => (Shaped /\ WrittenInv)'
  BY ShapedNext, WrittenNext
<1>3. Shaped /\ WrittenInv => ReadsWhatWasWritten
  <2> SUFFICES ASSUME Shaped, WrittenInv, NEW m \in Messages,
                      NEW i \in DOMAIN parts[m], parts[m][i] # Empty
               PROVE  LET c == content[parts[m][i]] IN Get(order[m], c.type, c.bytes) = c.value
    BY DEF ReadsWhatWasWritten
  <2>1. parts[m][i] \in Buffers
    <3>1. parts[m] \in Seq(Frame)
      BY DEF Shaped
    <3>2. parts[m][i] \in Frame
      BY <3>1
    <3> QED
      BY <3>2 DEF Frame
  <2>2. PICK c : c = content[parts[m][i]] /\ AsWritten(c) /\ order[m] \in ByteOrders
    BY <2>1 DEF WrittenInv
  <2>3. IsOf(c.type, c.value) /\ c.bytes = c.value
    BY <2>2 DEF AsWritten
  <2>4. Get(order[m], c.type, c.value) = c.value
    BY <2>2, <2>3, PutAndGet
  <2> QED
    BY <2>2, <2>3, <2>4
<1> QED
  BY <1>1, <1>2, <1>3, PTL DEF Spec

(* A signal has the header in front. *)
LEMMA SignalHasHeader ==
  ASSUME NEW n \in Byte
  PROVE  Signal(n) \in Seq(Byte) /\ Len(Signal(n)) = 8 /\ ShiftedRight(Signal(n)) = SignalHeader
<1>1. PICK s, t, z, r :
        /\ t = <<119, 102, 85, 68, 51, 34, 17>> /\ z = <<0>>
        /\ s = t \o <<n>> /\ r = z \o SubSeq(s, 1, 7)
  OBVIOUS
<1>2. t \in Seq(Byte) /\ Len(t) = 7 /\ <<n>> \in Seq(Byte) /\ Len(<<n>>) = 1
  BY <1>1 DEF Byte
<1>3. s \in Seq(Byte) /\ Len(s) = 8 /\ \A i \in 1..7 : s[i] = t[i]
  <2>1. /\ s \in Seq(Byte) /\ Len(s) = Len(t) + Len(<<n>>)
        /\ \A i \in 1..Len(s) : s[i] = IF i <= Len(t) THEN t[i] ELSE <<n>>[i - Len(t)]
    BY <1>1, <1>2, ConcatProperties
  <2> QED
    BY <1>2, <2>1
<1>4. PICK u : u = SubSeq(s, 1, 7) /\ u \in Seq(Byte) /\ Len(u) = 7 /\ \A i \in 1..7 : u[i] = t[i]
  <2>1. /\ SubSeq(s, 1, 7) \in Seq(Byte) /\ Len(SubSeq(s, 1, 7)) = 7
        /\ \A i \in 1..7 : SubSeq(s, 1, 7)[i] = s[1 + i - 1]
    <3>1. s \in [1..8 -> Byte]
      BY <1>3, LenProperties
    <3>2. \A i \in 1..7 : s[i] \in Byte
      BY <3>1
    <3> QED
      BY <3>2, SubSeqProperties
  <2>2. ASSUME NEW i \in 1..7  PROVE SubSeq(s, 1, 7)[i] = t[i]
    <3>1. SubSeq(s, 1, 7)[i] = s[1 + i - 1] /\ 1 + i - 1 = i
      BY <2>1
    <3> QED
      BY <1>3, <3>1
  <2> QED
    BY <2>1, <2>2
<1>5. r \in Seq(Byte) /\ Len(r) = 8 /\ r[1] = 0 /\ \A i \in 2..8 : r[i] = t[i - 1]
  <2>1. z \in Seq(Byte) /\ Len(z) = 1 /\ z[1] = 0
    BY <1>1 DEF Byte
  <2>2. /\ r \in Seq(Byte) /\ Len(r) = Len(z) + Len(u)
        /\ \A i \in 1..Len(r) : r[i] = IF i <= Len(z) THEN z[i] ELSE u[i - Len(z)]
    BY <1>1, <1>4, <2>1, ConcatProperties
  <2> QED
    BY <1>4, <2>1, <2>2
<1>6. PICK h : h = SignalHeader
  OBVIOUS
<1>7. h \in Seq(Byte) /\ Len(h) = 8 /\ h[1] = 0 /\ \A i \in 2..8 : h[i] = t[i - 1]
  <2>1. /\ h \in Seq(Byte) /\ Len(h) = 8
        /\ h[1] = 0 /\ h[2] = 119 /\ h[3] = 102 /\ h[4] = 85
        /\ h[5] = 68 /\ h[6] = 51 /\ h[7] = 34 /\ h[8] = 17
    BY <1>6 DEF SignalHeader, Byte
  <2>2. /\ t[1] = 119 /\ t[2] = 102 /\ t[3] = 85
        /\ t[4] = 68 /\ t[5] = 51 /\ t[6] = 34 /\ t[7] = 17
    BY <1>1
  <2>3. ASSUME NEW i \in 2..8  PROVE i \in {2, 3, 4, 5, 6, 7, 8}
    OBVIOUS
  <2> QED
    BY <2>1, <2>2, <2>3
<1>8. r = h
  <2>1. ASSUME NEW i \in 1..8  PROVE r[i] = h[i]
    <3>1. i = 1 \/ i \in 2..8
      OBVIOUS
    <3> QED
      BY <1>5, <1>7, <3>1
  <2>2. Len(r) = Len(h) /\ \A i \in 1..Len(r) : r[i] = h[i]
    BY <1>5, <1>7, <2>1
  <2> QED
    BY <1>5, <1>7, <2>2, SeqEqual
<1>9. s = Signal(n)
  <2>1. Tail(SignalHeader) = t
    BY <1>1 DEF SignalHeader
  <2> QED
    BY <1>1, <2>1 DEF Signal
<1>10. s[1] = 119
  BY <1>1, <1>3
<1>11. ShiftedRight(s) = r
  BY <1>1, <1>10 DEF ShiftedRight
<1> QED
  BY <1>3, <1>6, <1>8, <1>9, <1>11

(* is_signal() is true of a single part that was written as a signal, and  *)
(* else only of 8 bytes that begin like one (signal.hpp:20).               *)
THEOREM MessageSignalsAreSignals == Spec => []SignalsAreSignals
<1>1. Init => Shaped /\ WrittenInv
  BY ShapedInit, WrittenInit
<1>2. Shaped /\ WrittenInv /\ [Next]_vars => (Shaped /\ WrittenInv)'
  BY ShapedNext, WrittenNext
<1>3. Shaped /\ WrittenInv => SignalsAreSignals
  <2> SUFFICES ASSUME Shaped, WrittenInv, NEW m \in Messages
               PROVE  IsSignal(order[m], Bytes(m)) <=>
                        /\ Len(parts[m]) = 1 /\ parts[m][1] # Empty
                        /\ LET c == content[parts[m][1]]
                           IN  c.type = "signal" \/
                               (Len(c.value) = 8 /\ ShiftedRight(c.value) = SignalHeader)
    BY DEF SignalsAreSignals
  <2>1. PICK p, bytes : p = parts[m] /\ p \in Seq(Frame) /\ bytes = Bytes(m)
    BY DEF Shaped
  <2>2. bytes = [i \in DOMAIN p |-> IF p[i] = Empty THEN <<>> ELSE content[p[i]].bytes]
    BY <2>1 DEF Bytes
  <2>3. Len(bytes) = Len(p)
    <3>1. DOMAIN bytes = 1..Len(p) /\ Len(p) \in Nat
      BY <2>1, <2>2
    <3> QED
      BY <2>2, <3>1
  <2>4. CASE Len(p) # 1
    BY <2>1, <2>3, <2>4 DEF IsSignal
  <2>5. CASE Len(p) = 1 /\ p[1] = Empty
    <3>1. bytes[1] = <<>>
      BY <2>1, <2>2, <2>5
    <3> QED
      BY <2>1, <2>5, <3>1 DEF IsSignal
  <2>6. CASE Len(p) = 1 /\ p[1] # Empty
    <3>1. p[1] \in Buffers
      BY <2>1, <2>6 DEF Frame
    <3>2. PICK c : c = content[p[1]] /\ AsWritten(c) /\ order[m] \in ByteOrders
      BY <3>1 DEF WrittenInv
    <3>3. IsOf(c.type, c.value) /\ c.bytes = c.value /\ c.value \in Seq(Byte)
      BY <3>2 DEF AsWritten, IsOf
    <3>4. bytes[1] = c.value
      BY <2>1, <2>2, <2>6, <3>2, <3>3
    <3>5. Len(c.value) = 8 => Get(order[m], "int64", c.value) = c.value
      <4>1. Len(c.value) = 8 => IsOf("int64", c.value)
        BY <3>3 DEF IsOf, Wide
      <4> QED
        BY <3>2, <4>1, PutAndGet
    <3>6. c.type = "signal" => Len(c.value) = 8 /\ ShiftedRight(c.value) = SignalHeader
      <4>1. c.type = "signal" => \E n \in Byte : c.value = Signal(n)
        BY <3>3 DEF IsOf
      <4> QED
        BY <4>1, SignalHasHeader
    <3>7. IsSignal(order[m], bytes) <=> Len(c.value) = 8 /\ ShiftedRight(c.value) = SignalHeader
      BY <2>3, <2>6, <3>4, <3>5 DEF IsSignal
    <3> QED
      BY <2>1, <2>6, <3>2, <3>6, <3>7
  <2> QED
    BY <2>4, <2>5, <2>6
<1> QED
  BY <1>1, <1>2, <1>3, PTL DEF Spec

-------------------------------------------------------------------------------
(* The reader. *)

(* Cursors count, and without reads past the end and removals of what was  *)
(* read, they do so within the message.                                    *)
CursorInv ==
  /\ cursor \in [Messages -> Nat]
  /\ use \cap {"past", "shrink"} = {} => \A m \in Messages : cursor[m] <= Len(parts[m])

(* What callers do besides is settled at the beginning. *)
LEMMA UseIsKept == [Next]_vars => use' = use
<1> SUFFICES ASSUME [Next]_vars  PROVE use' = use
  OBVIOUS
<1>1. ASSUME UNCHANGED written  PROVE use' = use
  BY <1>1 DEF written
<1>2. ASSUME NEW m, NEW b, NEW front, Add(m, b, front)  PROVE use' = use
  BY <1>2 DEF Add
<1>3. ASSUME NEW m, NEW i, Remove(m, i) \/ SendThrows(m, i)  PROVE use' = use
  BY <1>1, <1>3 DEF Remove, SendThrows
<1>4. ASSUME NEW m, NEW n, Move(m, n) \/ Copy(m, n)  PROVE use' = use
  BY <1>1, <1>4 DEF Move, Copy
<1>5. ASSUME NEW m, Destroy(m) \/ Send(m) \/ Receive(m) \/ Read(m) \/ Reset(m)  PROVE use' = use
  BY <1>1, <1>5 DEF Destroy, Send, Receive, Read, Reset, Steps
<1>6. ASSUME NEW m, ReceiveRemote(m)  PROVE use' = use
  BY <1>6 DEF ReceiveRemote
<1>7. ASSUME Gone \/ UNCHANGED vars  PROVE use' = use
  BY <1>1, <1>7 DEF Gone, vars
<1> QED
  BY <1>2, <1>3, <1>4, <1>5, <1>6, <1>7 DEF Next

(* Every call keeps the cursor within the message: what takes the parts    *)
(* away resets it, and what takes one away takes one that was not read.    *)
LEMMA CursorNext == Shaped /\ CursorInv /\ [Next]_vars => CursorInv'
<1> SUFFICES ASSUME Shaped, CursorInv, [Next]_vars  PROVE CursorInv'
  OBVIOUS
<1> DEFINE Within == use \cap {"past", "shrink"} = {}
<1>0. /\ parts \in [Messages -> Seq(Frame)] /\ cursor \in [Messages -> Nat] /\ use' = use
      /\ Within => \A m \in Messages : cursor[m] <= Len(parts[m])
  BY UseIsKept DEF Shaped, CursorInv
<1>1. \A m \in Messages : Len(parts[m]) \in Nat /\ cursor[m] \in Nat
  BY <1>0
<1>2. ASSUME NEW m \in Messages, NEW s \in Seq(Frame), NEW c \in Nat,
             parts' = [parts EXCEPT ![m] = s], cursor' = [cursor EXCEPT ![m] = c],
             Within => c <= Len(s)
      PROVE  CursorInv'
  <2>1. cursor' \in [Messages -> Nat]
    BY <1>0, <1>2
  <2>2. ASSUME Within, NEW n \in Messages  PROVE cursor'[n] <= Len(parts'[n])
    BY <1>0, <1>2, <2>2
  <2> QED
    BY <1>0, <2>1, <2>2 DEF CursorInv
<1>3. ASSUME NEW m \in Messages, NEW s \in Seq(Frame), UNCHANGED cursor,
             parts' = [parts EXCEPT ![m] = s], Within => cursor[m] <= Len(s)
      PROVE  CursorInv'
  <2>1. cursor' = [cursor EXCEPT ![m] = cursor[m]] /\ cursor[m] \in Nat
    BY <1>0, <1>3
  <2> QED
    BY <1>2, <1>3, <2>1
<1>4. ASSUME UNCHANGED <<parts, cursor>>  PROVE CursorInv'
  BY <1>0, <1>4 DEF CursorInv
<1>5. ASSUME NEW m \in Messages, NEW b \in Buffers, NEW front \in BOOLEAN, Add(m, b, front)
      PROVE  CursorInv'
  <2>1. PICK s : s = parts[m] /\ s \in Seq(Frame)
    BY <1>0
  <2>2. PICK t : /\ t \in {<<b>> \o s, Append(s, b)}
                 /\ parts' = [parts EXCEPT ![m] = t] /\ UNCHANGED cursor
    BY <1>5, <2>1 DEF Add
  <2>3. b \in Frame
    BY DEF Frame
  <2>4. t \in Seq(Frame) /\ Len(t) = Len(s) + 1
    <3>1. <<b>> \in Seq(Frame) /\ Len(<<b>>) = 1
      BY <2>3
    <3>2. <<b>> \o s \in Seq(Frame) /\ Len(<<b>> \o s) = Len(<<b>>) + Len(s)
      BY <2>1, <3>1, ConcatProperties
    <3>3. Append(s, b) \in Seq(Frame) /\ Len(Append(s, b)) = Len(s) + 1
      BY <2>1, <2>3
    <3>4. Len(s) \in Nat /\ 1 + Len(s) = Len(s) + 1
      BY <2>1
    <3>5. CASE t = <<b>> \o s
      BY <3>1, <3>2, <3>4, <3>5
    <3>6. CASE t = Append(s, b)
      BY <3>3, <3>6
    <3> QED
      BY <2>2, <3>5, <3>6
  <2>5. Within => cursor[m] <= Len(t)
    BY <1>0, <1>1, <2>1, <2>4
  <2> QED
    BY <1>3, <2>2, <2>4, <2>5
<1>6. ASSUME NEW m \in Messages, NEW i \in DOMAIN parts[m], Remove(m, i)  PROVE CursorInv'
  <2>1. PICK s : s = parts[m] /\ s \in Seq(Frame) /\ i \in DOMAIN s
    BY <1>0
  <2>2. Without(s, i) \in Seq(Frame) /\ Len(Without(s, i)) = Len(s) - 1
    BY <2>1, WithoutTyped
  <2>3. /\ parts' = [parts EXCEPT ![m] = Without(s, i)] /\ UNCHANGED cursor
        /\ Len(s) = cursor[m] => "shrink" \in use
    BY <1>6, <2>1 DEF Remove
  <2>4. Within => cursor[m] <= Len(Without(s, i))
    BY <1>0, <1>1, <2>1, <2>2, <2>3
  <2> QED
    BY <1>3, <2>2, <2>3, <2>4
<1>7. ASSUME NEW m \in Messages, NEW k \in DOMAIN parts[m], SendThrows(m, k)  PROVE CursorInv'
  <2>1. PICK s : s = parts[m] /\ s \in Seq(Frame)
    BY <1>0
  <2>2. Emptied(s, k) \in Seq(Frame) /\ Len(Emptied(s, k)) = Len(s)
    BY <2>1, EmptiedTyped
  <2>3. UNCHANGED cursor /\ parts' = [parts EXCEPT ![m] = Emptied(s, k)]
    BY <1>7, <2>1 DEF SendThrows, Emptied
  <2>4. Within => cursor[m] <= Len(Emptied(s, k))
    BY <1>0, <2>1, <2>2
  <2> QED
    BY <1>3, <2>2, <2>3, <2>4
<1>8. ASSUME NEW m \in Messages, NEW n \in Messages, Move(m, n)  PROVE CursorInv'
  <2>1. /\ parts' = [parts EXCEPT ![n] = parts[m], ![m] = <<>>]
        /\ cursor' = [cursor EXCEPT ![n] = cursor[m], ![m] = 0] /\ m # n
    BY <1>8 DEF Move
  <2>2. cursor' \in [Messages -> Nat]
    BY <1>0, <2>1
  <2>3. ASSUME Within, NEW x \in Messages  PROVE cursor'[x] <= Len(parts'[x])
    <3>1. CASE x = m
      <4>1. cursor'[x] = 0 /\ parts'[x] = <<>>
        BY <1>0, <2>1, <3>1
      <4> QED
        BY <4>1
    <3>2. CASE x = n
      BY <1>0, <2>1, <2>3, <3>2
    <3>3. CASE x \notin {m, n}
      BY <1>0, <2>1, <2>3, <3>3
    <3> QED
      BY <3>1, <3>2, <3>3
  <2> QED
    BY <1>0, <2>2, <2>3 DEF CursorInv
<1>9. ASSUME NEW m \in Messages, NEW n \in Messages, Copy(m, n)  PROVE CursorInv'
  <2>1. /\ parts' = [parts EXCEPT ![n] = parts[m]] /\ UNCHANGED cursor
        /\ cursor[n] > Len(parts[m]) => "shrink" \in use
    BY <1>9 DEF Copy
  <2>2. parts[m] \in Seq(Frame)
    BY <1>0
  <2>3. Within => cursor[n] <= Len(parts[m])
    BY <1>1, <2>1
  <2> QED
    BY <1>3, <2>1, <2>2, <2>3
<1>10. ASSUME NEW m \in Messages, Destroy(m) \/ Send(m)  PROVE CursorInv'
  <2>1. parts' = [parts EXCEPT ![m] = <<>>] /\ cursor' = [cursor EXCEPT ![m] = 0]
    BY <1>10 DEF Destroy, Send
  <2>2. <<>> \in Seq(Frame) /\ 0 \in Nat /\ 0 <= Len(<<>>)
    OBVIOUS
  <2> QED
    BY <1>2, <2>1, <2>2
<1>11. ASSUME NEW m \in Messages, NEW s \in Seq(Frame), parts' = [parts EXCEPT ![m] = s],
              cursor' = IF parts[m] # <<>> THEN [cursor EXCEPT ![m] = 0] ELSE cursor
       PROVE  CursorInv'
  <2>1. Len(s) \in Nat /\ 0 <= Len(s)
    OBVIOUS
  <2>2. CASE parts[m] # <<>>
    BY <1>2, <1>11, <2>1, <2>2
  <2>3. CASE parts[m] = <<>>
    <3>1. Within => cursor[m] <= 0
      BY <1>0, <2>3
    <3>2. Within => cursor[m] <= Len(s)
      BY <1>1, <2>1, <3>1
    <3> QED
      BY <1>3, <1>11, <2>3, <3>2
  <2> QED
    BY <2>2, <2>3
<1>12. ASSUME NEW m \in Messages, Receive(m) \/ ReceiveRemote(m)  PROVE CursorInv'
  <2>1. PICK s : /\ s = parts'[m]
                 /\ parts' = [parts EXCEPT ![m] = s]
    BY <1>0, <1>12 DEF Receive, ReceiveRemote
  <2>2. s \in Seq(Frame)
    BY <2>1, ShapedNext DEF Shaped
  <2> QED
    BY <1>11, <1>12, <2>1, <2>2 DEF Receive, ReceiveRemote
<1>13. ASSUME NEW m \in Messages, Read(m)  PROVE CursorInv'
  <2>1. /\ parts' = parts /\ cursor' = [cursor EXCEPT ![m] = cursor[m] + 1]
        /\ Within => cursor[m] < Len(parts[m])
    BY <1>13 DEF Read, Steps
  <2>2. parts' = [parts EXCEPT ![m] = parts[m]] /\ parts[m] \in Seq(Frame)
    BY <1>0, <2>1
  <2>3. cursor[m] + 1 \in Nat /\ (Within => cursor[m] + 1 <= Len(parts[m]))
    BY <1>1, <2>1
  <2> QED
    BY <1>2, <2>1, <2>2, <2>3
<1>14. ASSUME NEW m \in Messages, Reset(m)  PROVE CursorInv'
  <2>1. /\ parts' = [parts EXCEPT ![m] = parts[m]] /\ cursor' = [cursor EXCEPT ![m] = 0]
        /\ parts[m] \in Seq(Frame)
    BY <1>0, <1>14 DEF Reset, Steps
  <2>2. 0 <= Len(parts[m])
    BY <1>1
  <2> QED
    BY <1>2, <2>1, <2>2
<1>15. ASSUME Gone \/ UNCHANGED vars  PROVE CursorInv'
  BY <1>4, <1>15 DEF Gone, vars
<1> QED
  BY <1>5, <1>6, <1>7, <1>8, <1>9, <1>10, <1>12, <1>13, <1>14, <1>15 DEF Next

(* remaining() does not wrap: message.hpp:349, the cursor is not beyond    *)
(* the parts, whatever is moved, copied, sent, received and removed.       *)
THEOREM MessageRemainingCounts == Spec => []RemainingCounts
<1>1. Init => Shaped /\ CursorInv
  <2>1. Init => CursorInv
    BY DEF Init, CursorInv
  <2> QED
    BY <2>1, ShapedInit
<1>2. Shaped /\ CursorInv /\ [Next]_vars => (Shaped /\ CursorInv)'
  BY ShapedNext, CursorNext
<1>3. CursorInv => RemainingCounts
  BY DEF CursorInv, RemainingCounts
<1> QED
  BY <1>1, <1>2, <1>3, PTL DEF Spec
-------------------------------------------------------------------------------
(* Counting the frames that refer to a buffer. *)

(* g takes back what f does to S. *)
Undoes(g, f, S) == \A x \in S : g[f[x]] = x

(* Two sets that map onto one another both ways have as many elements. *)
LEMMA SameSize ==
  ASSUME NEW S, NEW T, NEW f \in [S -> T], NEW g \in [T -> S], IsFiniteSet(S),
         Undoes(g, f, S), Undoes(f, g, T)
  PROVE  IsFiniteSet(T) /\ Cardinality(T) = Cardinality(S)
<1>1. f \in Injection(S, T)
  BY DEF Injection, IsInjective, Undoes
<1>2. f \in Surjection(S, T)
  BY DEF Surjection, Undoes
<1>3. ExistsBijection(S, T)
  BY <1>1, <1>2 DEF ExistsBijection, Bijection
<1> QED
  BY <1>3, FS_Bijection

(* Where a sequence has a buffer; Count counts them. *)
At(b, s) == {i \in DOMAIN s : s[i] = b}

(* There are finitely many, and none in a message without parts. *)
LEMMA CountIsNatural ==
  ASSUME NEW A, NEW s \in Seq(A), NEW b
  PROVE  IsFiniteSet(At(b, s)) /\ Count(b, s) = Cardinality(At(b, s)) /\ Count(b, s) \in Nat
<1>1. Len(s) \in Nat /\ DOMAIN s = 1..Len(s)
  BY LenProperties
<1>2. IsFiniteSet(1..Len(s))
  BY <1>1, FS_Interval
<1>3. At(b, s) \in SUBSET (1..Len(s))
  BY <1>1 DEF At
<1>4. IsFiniteSet(At(b, s))
  BY <1>2, <1>3, FS_Subset
<1>5. Count(b, s) = Cardinality(At(b, s))
  BY DEF Count, At
<1> QED
  BY <1>4, <1>5, FS_CardinalityType

(* Nothing refers to a buffer that does not occur. *)
LEMMA CountAbsent ==
  ASSUME NEW s, NEW b, \A i \in DOMAIN s : s[i] # b
  PROVE  Count(b, s) = 0
<1>1. {i \in DOMAIN s : s[i] = b} = {}
  OBVIOUS
<1> QED
  BY <1>1, FS_EmptySet DEF Count

(* One frame. *)
LEMMA CountOne ==
  ASSUME NEW c, NEW b
  PROVE  Count(b, <<c>>) = IF c = b THEN 1 ELSE 0
<1>1. CASE c = b
  <2>1. {i \in DOMAIN <<c>> : <<c>>[i] = b} = {1}
    BY <1>1
  <2> QED
    BY <1>1, <2>1, FS_Singleton DEF Count
<1>2. CASE c # b
  <2>1. \A i \in DOMAIN <<c>> : <<c>>[i] # b
    BY <1>2
  <2> QED
    BY <1>2, <2>1, CountAbsent
<1> QED
  BY <1>1, <1>2

(* A sequence put behind another adds its frames. *)
LEMMA CountConcat ==
  ASSUME NEW A, NEW r \in Seq(A), NEW s \in Seq(A), NEW b
  PROVE  Count(b, r \o s) = Count(b, r) + Count(b, s)
<1>1. PICK t, k, n : t = r \o s /\ k = Len(r) /\ n = Len(s)
  OBVIOUS
<1>2. /\ k \in Nat /\ n \in Nat /\ DOMAIN r = 1..k /\ DOMAIN s = 1..n
  BY <1>1, LenProperties
<1>3. /\ t \in Seq(A) /\ Len(t) = k + n
      /\ \A i \in 1..(k + n) : t[i] = IF i <= k THEN r[i] ELSE s[i - k]
  BY <1>1, ConcatProperties
<1>4. DOMAIN t = 1..(k + n)
  BY <1>3, LenProperties
<1>5. PICK T : T = {i \in At(b, t) : i > k}
  OBVIOUS
<1>6. At(b, t) = At(b, r) \cup T /\ At(b, r) \cap T = {}
  <2>1. ASSUME NEW i \in 1..k  PROVE i \in At(b, t) <=> i \in At(b, r)
    BY <1>2, <1>3, <1>4 DEF At
  <2>2. At(b, r) \subseteq 1..k /\ At(b, t) \subseteq 1..(k + n)
    BY <1>2, <1>4 DEF At
  <2>3. \A i \in 1..(k + n) : i \in 1..k \/ i > k
    BY <1>2
  <2>4. \A i \in 1..k : ~ (i > k)
    BY <1>2
  <2> QED
    BY <1>5, <2>1, <2>2, <2>3, <2>4
<1>7. \A i \in Int : i \in T <=> i - k \in At(b, s)
  <2>1. ASSUME NEW i \in Int  PROVE i \in T <=> i - k \in At(b, s)
    <3>1. CASE i \in (k + 1)..(k + n)
      <4>1. i \in 1..(k + n) /\ i - k \in 1..n /\ t[i] = s[i - k] /\ i > k
        BY <1>2, <1>3, <3>1
      <4> QED
        BY <1>2, <1>4, <1>5, <4>1 DEF At
    <3>2. CASE i \notin (k + 1)..(k + n)
      <4>1. i - k \notin 1..n /\ ~ (i \in 1..(k + n) /\ i > k)
        BY <1>2, <3>2
      <4> QED
        BY <1>2, <1>4, <1>5, <4>1 DEF At
    <3> QED
      BY <3>1, <3>2
  <2> QED
    BY <2>1
<1>8. T \subseteq Int /\ At(b, s) \subseteq Int
  BY <1>2, <1>4, <1>5 DEF At
<1>9. IsFiniteSet(T) /\ Cardinality(T) = Cardinality(At(b, s))
  <2>1. PICK f : f = [i \in At(b, s) |-> i + k]
    OBVIOUS
  <2>2. PICK g : g = [i \in T |-> i - k]
    OBVIOUS
  <2>3. \A i \in At(b, s) : i + k \in Int /\ (i + k) - k = i
    BY <1>2, <1>8
  <2>4. \A i \in T : i - k \in At(b, s) /\ (i - k) + k = i
    BY <1>2, <1>7, <1>8
  <2>5. f \in [At(b, s) -> T]
    BY <1>7, <2>1, <2>3
  <2>6. g \in [T -> At(b, s)]
    BY <2>2, <2>4
  <2>7. Undoes(g, f, At(b, s))
    BY <2>1, <2>2, <2>3, <2>5 DEF Undoes
  <2>8. Undoes(f, g, T)
    BY <2>1, <2>2, <2>4, <2>6 DEF Undoes
  <2>9. IsFiniteSet(At(b, s))
    BY CountIsNatural
  <2> QED
    BY <2>5, <2>6, <2>7, <2>8, <2>9, SameSize
<1>10. /\ IsFiniteSet(At(b, r)) /\ Count(b, r) = Cardinality(At(b, r))
       /\ Count(b, s) = Cardinality(At(b, s)) /\ Count(b, r) \in Nat /\ Count(b, s) \in Nat
  BY CountIsNatural
<1>11. Count(b, t) = Cardinality(At(b, t))
  BY <1>3, CountIsNatural
<1>12. Cardinality(At(b, r) \cup T)
        = Cardinality(At(b, r)) + Cardinality(T) - Cardinality(At(b, r) \cap T)
  BY <1>9, <1>10, FS_Union
<1>13. Cardinality(At(b, r) \cap T) = 0
  BY <1>6, FS_EmptySet
<1> QED
  BY <1>1, <1>6, <1>9, <1>10, <1>11, <1>12, <1>13

(* A sequence in two pieces. *)
LEMMA CountSplit ==
  ASSUME NEW A, NEW s \in Seq(A), NEW k \in 0..Len(s), NEW b
  PROVE  /\ SubSeq(s, 1, k) \in Seq(A) /\ SubSeq(s, k + 1, Len(s)) \in Seq(A)
         /\ Len(SubSeq(s, 1, k)) = k /\ Len(SubSeq(s, k + 1, Len(s))) = Len(s) - k
         /\ Count(b, s) = Count(b, SubSeq(s, 1, k)) + Count(b, SubSeq(s, k + 1, Len(s)))
<1>1. PICK n \in Nat : n = Len(s) /\ DOMAIN s = 1..n /\ k \in 0..n
  BY LenProperties
<1>2. \A i \in 1..n : s[i] \in A
  BY <1>1
<1>3. PICK p, q : p = SubSeq(s, 1, k) /\ q = SubSeq(s, k + 1, n)
  OBVIOUS
<1>4. p \in Seq(A) /\ Len(p) = k /\ \A i \in 1..k : p[i] = s[i]
  <2>1. \A i \in 1..k : s[i] \in A
    BY <1>1, <1>2
  <2>2. /\ p \in Seq(A) /\ Len(p) = IF 1 <= k THEN k - 1 + 1 ELSE 0
        /\ \A i \in 1..(k - 1 + 1) : p[i] = s[1 + i - 1]
    BY <1>1, <1>3, <2>1, SubSeqProperties
  <2>3. k - 1 + 1 = k /\ (IF 1 <= k THEN k - 1 + 1 ELSE 0) = k /\ \A i \in 1..k : 1 + i - 1 = i
    BY <1>1
  <2> QED
    BY <2>2, <2>3
<1>5. q \in Seq(A) /\ Len(q) = n - k /\ \A i \in 1..(n - k) : q[i] = s[k + i]
  <2>1. \A i \in (k + 1)..n : s[i] \in A
    BY <1>1, <1>2
  <2>2. /\ q \in Seq(A) /\ Len(q) = IF k + 1 <= n THEN n - (k + 1) + 1 ELSE 0
        /\ \A i \in 1..(n - (k + 1) + 1) : q[i] = s[(k + 1) + i - 1]
    BY <1>1, <1>3, <2>1, SubSeqProperties
  <2>3. /\ n - (k + 1) + 1 = n - k /\ (IF k + 1 <= n THEN n - (k + 1) + 1 ELSE 0) = n - k
        /\ \A i \in 1..(n - k) : (k + 1) + i - 1 = k + i
    BY <1>1
  <2> QED
    BY <2>2, <2>3
<1>6. p \o q = s
  <2>1. PICK t : t = p \o q
    OBVIOUS
  <2>2. /\ t \in Seq(A) /\ Len(t) = k + (n - k)
        /\ \A i \in 1..(k + (n - k)) : t[i] = IF i <= k THEN p[i] ELSE q[i - k]
    BY <1>4, <1>5, <2>1, ConcatProperties
  <2>3. k + (n - k) = n
    BY <1>1
  <2>4. ASSUME NEW i \in 1..n  PROVE t[i] = s[i]
    <3>1. CASE i <= k
      BY <1>1, <1>4, <2>2, <2>3, <3>1
    <3>2. CASE ~ (i <= k)
      <4>1. i - k \in 1..(n - k) /\ k + (i - k) = i
        BY <1>1, <3>2
      <4>2. t[i] = q[i - k]
        BY <2>2, <2>3, <3>2
      <4>3. q[i - k] = s[k + (i - k)]
        BY <1>5, <4>1
      <4> QED
        BY <4>1, <4>2, <4>3
    <3> QED
      BY <3>1, <3>2
  <2>5. t = s
    BY <1>1, <2>2, <2>3, <2>4, SeqEqual
  <2> QED
    BY <2>1, <2>5
<1>7. Count(b, p \o q) = Count(b, p) + Count(b, q)
  BY <1>4, <1>5, CountConcat
<1> QED
  BY <1>1, <1>3, <1>4, <1>5, <1>6, <1>7
(* A part added at the back or in front counts for its storage. *)
LEMMA CountAdded ==
  ASSUME NEW A, NEW s \in Seq(A), NEW c \in A, NEW b
  PROVE  /\ Count(b, Append(s, c)) = Count(b, s) + Count(b, <<c>>)
         /\ Count(b, <<c>> \o s) = Count(b, <<c>>) + Count(b, s)
<1>1. <<c>> \in Seq(A)
  OBVIOUS
<1>2. Append(s, c) = s \o <<c>>
  BY AppendIsConcat
<1>3. Count(b, s \o <<c>>) = Count(b, s) + Count(b, <<c>>)
  BY <1>1, CountConcat
<1>4. Count(b, <<c>> \o s) = Count(b, <<c>>) + Count(b, s)
  BY <1>1, CountConcat
<1> QED
  BY <1>2, <1>3, <1>4

(* A part that is removed counts no more. *)
LEMMA CountWithout ==
  ASSUME NEW A, NEW s \in Seq(A), NEW i \in DOMAIN s, NEW b
  PROVE  Count(b, s) = Count(b, Without(s, i)) + Count(b, <<s[i]>>)
<1>1. PICK n \in Nat : n = Len(s) /\ DOMAIN s = 1..n /\ i \in 1..n
  BY LenProperties
<1>2. PICK p, u, q : p = SubSeq(s, 1, i - 1) /\ u = SubSeq(s, 1, i) /\ q = SubSeq(s, i + 1, n)
  OBVIOUS
<1>3. /\ u \in Seq(A) /\ q \in Seq(A) /\ Len(u) = i
      /\ Count(b, s) = Count(b, u) + Count(b, q)
  <2>1. i \in 0..Len(s)
    BY <1>1
  <2> QED
    BY <1>1, <1>2, <2>1, CountSplit
<1>4. p \in Seq(A) /\ Len(p) = i - 1
  <2>1. i - 1 \in 0..Len(s)
    BY <1>1
  <2> QED
    BY <1>2, <2>1, CountSplit
<1>5. s[i] \in A
  BY <1>1
<1>6. u = Append(p, s[i])
  <2>1. /\ Append(p, s[i]) \in Seq(A) /\ Len(Append(p, s[i])) = i
        /\ Append(p, s[i])[i] = s[i] /\ \A j \in 1..(i - 1) : Append(p, s[i])[j] = p[j]
    BY <1>1, <1>4, <1>5
  <2>2. ASSUME NEW j \in 1..i  PROVE u[j] = s[j]
    BY <1>1, <1>2, <2>2
  <2>3. ASSUME NEW j \in 1..(i - 1)  PROVE p[j] = s[j]
    BY <1>1, <1>2, <2>3
  <2>4. ASSUME NEW j \in 1..i  PROVE u[j] = Append(p, s[i])[j]
    <3>1. j = i \/ j \in 1..(i - 1)
      BY <1>1
    <3> QED
      BY <2>1, <2>2, <2>3, <3>1
  <2>5. PICK t : t = Append(p, s[i]) /\ t \in Seq(A) /\ Len(t) = i
    BY <2>1
  <2>6. Len(u) = Len(t) /\ \A j \in 1..Len(u) : u[j] = t[j]
    BY <1>3, <2>4, <2>5
  <2>7. u = t
    BY <1>3, <2>5, <2>6, SeqEqual
  <2> QED
    BY <2>5, <2>7
<1>7. Count(b, u) = Count(b, p) + Count(b, <<s[i]>>)
  BY <1>4, <1>5, <1>6, CountAdded
<1>8. Count(b, Without(s, i)) = Count(b, p) + Count(b, q)
  BY <1>1, <1>2, <1>3, <1>4, CountConcat DEF Without
<1>9. /\ Count(b, p) \in Nat /\ Count(b, q) \in Nat /\ Count(b, <<s[i]>>) \in Nat
  <2>1. <<s[i]>> \in Seq(A)
    BY <1>5
  <2> QED
    BY <1>3, <1>4, <2>1, CountIsNatural
<1> QED
  BY <1>3, <1>7, <1>8, <1>9

(* Frames that were sent count no more. *)
LEMMA CountEmptied ==
  ASSUME NEW s \in Seq(Frame), NEW k \in 0..Len(s), NEW b \in Buffers
  PROVE  Count(b, s) = Count(b, SubSeq(s, 1, k)) + Count(b, Emptied(s, k))
<1>1. PICK n \in Nat : n = Len(s) /\ DOMAIN s = 1..n /\ k \in 0..n
  BY LenProperties
<1>2. PICK p, q : p = SubSeq(s, 1, k) /\ q = SubSeq(s, k + 1, n)
  OBVIOUS
<1>3. /\ p \in Seq(Frame) /\ q \in Seq(Frame) /\ Len(p) = k /\ Len(q) = n - k
      /\ Count(b, s) = Count(b, p) + Count(b, q)
  BY <1>1, <1>2, CountSplit
<1>4. PICK e : e = Emptied(s, k)
  OBVIOUS
<1>5. e \in Seq(Frame) /\ Len(e) = n
  BY <1>1, <1>4, EmptiedTyped
<1>6. \A i \in 1..n : e[i] = IF i <= k THEN Empty ELSE s[i]
  BY <1>1, <1>4 DEF Emptied
<1>7. PICK f, g : f = SubSeq(e, 1, k) /\ g = SubSeq(e, k + 1, n)
  OBVIOUS
<1>8. /\ f \in Seq(Frame) /\ g \in Seq(Frame) /\ Len(f) = k /\ Len(g) = n - k
      /\ Count(b, e) = Count(b, f) + Count(b, g)
  <2>1. k \in 0..Len(e) /\ g = SubSeq(e, k + 1, Len(e)) /\ Len(e) - k = n - k
    BY <1>1, <1>5, <1>7
  <2>2. /\ SubSeq(e, 1, k) \in Seq(Frame) /\ SubSeq(e, k + 1, Len(e)) \in Seq(Frame)
        /\ Len(SubSeq(e, 1, k)) = k /\ Len(SubSeq(e, k + 1, Len(e))) = Len(e) - k
        /\ Count(b, e) = Count(b, SubSeq(e, 1, k)) + Count(b, SubSeq(e, k + 1, Len(e)))
    BY <1>5, <2>1, CountSplit
  <2> QED
    BY <1>7, <2>1, <2>2
<1>9. Count(b, f) = 0
  <2>1. ASSUME NEW i \in 1..k  PROVE f[i] = Empty
    <3>1. i \in 1..n /\ f[i] = e[i]
      BY <1>1, <1>5, <1>7
    <3> QED
      BY <1>1, <1>6, <3>1
  <2>2. DOMAIN f = 1..k
    BY <1>8, LenProperties
  <2>3. \A i \in DOMAIN f : f[i] # b
    BY <2>1, <2>2, EmptyAssumption
  <2> QED
    BY <2>3, CountAbsent
<1>10. g = q
  <2>1. ASSUME NEW i \in 1..(n - k)  PROVE g[i] = q[i]
    <3>1. k + i \in 1..n /\ g[i] = e[k + i]
      BY <1>1, <1>5, <1>7
    <3>2. q[i] = s[k + i]
      BY <1>1, <1>2, <3>1
    <3>3. ~ (k + i <= k)
      BY <1>1
    <3> QED
      BY <1>6, <3>1, <3>2, <3>3
  <2> QED
    BY <1>3, <1>8, <2>1, SeqEqual
<1>11. Count(b, g) \in Nat /\ Count(b, p) \in Nat
  BY <1>3, <1>8, CountIsNatural
<1> QED
  BY <1>1, <1>2, <1>3, <1>4, <1>8, <1>9, <1>10, <1>11
-------------------------------------------------------------------------------
(* The frames of several messages. *)

(* The frames of one message that refer to a buffer. *)
Row(L, x, b) == {x} \X At(b, L[x])

(* A frame is a message and a place there. *)
LEMMA SlotsAre ==
  ASSUME NEW L, NEW b
  PROVE  /\ \A x, i : <<x, i>> \in Slots(L, b) <=> x \in DOMAIN L /\ i \in At(b, L[x])
         /\ \A f \in Slots(L, b) : f = <<f[1], f[2]>>
<1>1. ASSUME NEW x, NEW i  PROVE <<x, i>> \in Slots(L, b) <=> x \in DOMAIN L /\ i \in At(b, L[x])
  BY DEF Slots, At
<1>2. ASSUME NEW f \in Slots(L, b)  PROVE f = <<f[1], f[2]>>
  <2>1. PICK x \in DOMAIN L : f \in {x} \X DOMAIN L[x]
    BY DEF Slots
  <2> QED
    BY <2>1
<1> QED
  BY <1>1, <1>2

(* A message has as many of them as its list of parts. *)
LEMMA RowSize ==
  ASSUME NEW L, NEW x, NEW b, NEW A, L[x] \in Seq(A)
  PROVE  IsFiniteSet(Row(L, x, b)) /\ Cardinality(Row(L, x, b)) = Count(b, L[x])
<1>1. PICK S : S = At(b, L[x])
  OBVIOUS
<1>2. IsFiniteSet(S) /\ Count(b, L[x]) = Cardinality(S)
  BY <1>1, CountIsNatural
<1>3. PICK f, g : f = [i \in S |-> <<x, i>>] /\ g = [p \in {x} \X S |-> p[2]]
  OBVIOUS
<1>4. f \in [S -> {x} \X S] /\ g \in [{x} \X S -> S]
  BY <1>3
<1>5. Undoes(g, f, S)
  BY <1>3, <1>4 DEF Undoes
<1>6. Undoes(f, g, {x} \X S)
  BY <1>3, <1>4 DEF Undoes
<1>7. IsFiniteSet({x} \X S) /\ Cardinality({x} \X S) = Cardinality(S)
  BY <1>2, <1>4, <1>5, <1>6, SameSize
<1> QED
  BY <1>1, <1>2, <1>7 DEF Row

(* The frames of K are those of L but for x, which has s there. *)
Replaced(L, K, x, s, b) ==
  /\ IsFiniteSet(Slots(K, b))
  /\ Cardinality(Slots(L, b)) \in Nat /\ Count(b, L[x]) \in Nat /\ Count(b, s) \in Nat
  /\ Count(b, L[x]) <= Cardinality(Slots(L, b))
  /\ Cardinality(Slots(K, b)) = Cardinality(Slots(L, b)) - Count(b, L[x]) + Count(b, s)

(* When one message gets other parts, the frames of the others stay. *)
LEMMA SlotsReplaced ==
  ASSUME NEW L \in [Messages -> Seq(Frame)], NEW x \in Messages, NEW s \in Seq(Frame), NEW b,
         IsFiniteSet(Slots(L, b)), NEW K, K = [L EXCEPT ![x] = s]
  PROVE  Replaced(L, K, x, s, b)
<1>1. K = [L EXCEPT ![x] = s]
  OBVIOUS
<1>2. /\ K \in [Messages -> Seq(Frame)] /\ K[x] = s /\ DOMAIN L = Messages /\ DOMAIN K = Messages
      /\ L[x] \in Seq(Frame) /\ \A y \in Messages \ {x} : K[y] = L[y]
  BY <1>1
<1>3. PICK old, new, before, after :
        /\ old = Row(L, x, b) /\ new = Row(K, x, b)
        /\ before = Slots(L, b) /\ after = Slots(K, b)
  OBVIOUS
<1>4. /\ IsFiniteSet(old) /\ Cardinality(old) = Count(b, L[x])
      /\ IsFiniteSet(new) /\ Cardinality(new) = Count(b, s)
  BY <1>2, <1>3, RowSize
<1>5. old \subseteq before
  <2>1. ASSUME NEW f \in old  PROVE f \in before
    <3>1. PICK i \in At(b, L[x]) : f = <<x, i>>
      BY <1>3 DEF Row
    <3> QED
      BY <1>2, <1>3, <3>1, SlotsAre
  <2> QED
    BY <2>1
<1>6. PICK rest : rest = before \ old
  OBVIOUS
<1>7. rest \cap new = {}
  <2>1. ASSUME NEW f \in new, f \in before  PROVE f \in old
    <3>1. PICK i \in At(b, K[x]) : f = <<x, i>>
      BY <1>3 DEF Row
    <3>2. i \in At(b, L[x])
      BY <1>3, <2>1, <3>1, SlotsAre
    <3> QED
      BY <1>3, <3>1, <3>2 DEF Row
  <2> QED
    BY <1>6, <2>1
<1>8. after = rest \cup new
  <2>1. ASSUME NEW f \in after  PROVE f \in rest \cup new
    <3>1. PICK y, i : f = <<y, i>>
      BY <1>3, SlotsAre
    <3>2. y \in Messages /\ i \in At(b, K[y])
      BY <1>2, <1>3, <2>1, <3>1, SlotsAre
    <3>3. CASE y = x
      BY <1>3, <3>1, <3>2, <3>3 DEF Row
    <3>4. CASE y # x
      <4>1. K[y] = L[y]
        BY <1>2, <3>2, <3>4
      <4>2. f \in before
        BY <1>2, <1>3, <3>1, <3>2, <4>1, SlotsAre
      <4>3. f \notin old
        BY <1>3, <3>1, <3>4 DEF Row
      <4> QED
        BY <1>6, <4>2, <4>3
    <3> QED
      BY <3>3, <3>4
  <2>2. ASSUME NEW f \in new  PROVE f \in after
    <3>1. PICK i \in At(b, K[x]) : f = <<x, i>>
      BY <1>3 DEF Row
    <3> QED
      BY <1>2, <1>3, <3>1, SlotsAre
  <2>3. ASSUME NEW f \in rest  PROVE f \in after
    <3>1. PICK y, i : f = <<y, i>>
      BY <1>3, <1>6, SlotsAre
    <3>2. y \in Messages /\ i \in At(b, L[y])
      BY <1>2, <1>3, <1>6, <2>3, <3>1, SlotsAre
    <3>3. y # x
      BY <1>3, <1>6, <2>3, <3>1, <3>2 DEF Row
    <3>4. K[y] = L[y]
      BY <1>2, <3>2, <3>3
    <3> QED
      BY <1>2, <1>3, <3>1, <3>2, <3>4, SlotsAre
  <2> QED
    BY <2>1, <2>2, <2>3
<1>9. /\ IsFiniteSet(before) /\ Cardinality(before) \in Nat
      /\ Cardinality(old) \in Nat /\ Cardinality(new) \in Nat
  BY <1>3, <1>4, FS_CardinalityType
<1>10. Cardinality(old) <= Cardinality(before)
  BY <1>5, <1>9, FS_Subset
<1>11. IsFiniteSet(rest) /\ Cardinality(rest) = Cardinality(before) - Cardinality(old)
  <2>1. IsFiniteSet(before \ old)
        /\ Cardinality(before \ old) = Cardinality(before) - Cardinality(before \cap old)
    BY <1>9, FS_Difference
  <2>2. before \cap old = old
    BY <1>5
  <2> QED
    BY <1>6, <2>1, <2>2
<1>12. /\ IsFiniteSet(rest \cup new)
       /\ Cardinality(rest \cup new) = Cardinality(rest) + Cardinality(new)
  <2>1. /\ IsFiniteSet(rest \cup new)
        /\ Cardinality(rest \cup new)
             = Cardinality(rest) + Cardinality(new) - Cardinality(rest \cap new)
    BY <1>4, <1>11, FS_Union
  <2>2. Cardinality(rest \cap new) = 0
    BY <1>7, FS_EmptySet
  <2>3. Cardinality(rest) \in Nat
    BY <1>11, FS_CardinalityType
  <2> QED
    BY <1>9, <2>1, <2>2, <2>3
<1>13. Cardinality(after) = Cardinality(before) - Cardinality(old) + Cardinality(new)
  BY <1>8, <1>11, <1>12
<1> QED
  BY <1>3, <1>4, <1>8, <1>9, <1>10, <1>12, <1>13 DEF Replaced

(* A message that is sent, which nobody has yet. *)
LEMMA SlotsAppended ==
  ASSUME NEW A, NEW W \in Seq(Seq(A)), NEW s \in Seq(A), NEW b, IsFiniteSet(Slots(W, b))
  PROVE  /\ IsFiniteSet(Slots(Append(W, s), b))
         /\ Cardinality(Slots(Append(W, s), b)) = Cardinality(Slots(W, b)) + Count(b, s)
<1>1. PICK K, n : K = Append(W, s) /\ n = Len(W)
  OBVIOUS
<1>2. /\ K \in Seq(Seq(A)) /\ n \in Nat /\ DOMAIN W = 1..n /\ DOMAIN K = 1..(n + 1)
      /\ K[n + 1] = s /\ \A y \in 1..n : K[y] = W[y]
  BY <1>1
<1>3. PICK new, before, after :
        new = Row(K, n + 1, b) /\ before = Slots(W, b) /\ after = Slots(K, b)
  OBVIOUS
<1>4. IsFiniteSet(new) /\ Cardinality(new) = Count(b, s)
  BY <1>2, <1>3, RowSize
<1>5. \A y : y \in 1..(n + 1) <=> y = n + 1 \/ y \in 1..n
  BY <1>2
<1>6. n + 1 \notin 1..n
  BY <1>2
<1>7. before \cap new = {}
  <2>1. ASSUME NEW f \in new  PROVE f \notin before
    <3>1. PICK i \in At(b, K[n + 1]) : f = <<n + 1, i>>
      BY <1>3 DEF Row
    <3> QED
      BY <1>2, <1>3, <1>6, <3>1, SlotsAre
  <2> QED
    BY <2>1
<1>8. after = before \cup new
  <2>1. ASSUME NEW f \in after  PROVE f \in before \cup new
    <3>1. PICK y, i : f = <<y, i>>
      BY <1>3, SlotsAre
    <3>2. y \in 1..(n + 1) /\ i \in At(b, K[y])
      BY <1>2, <1>3, <2>1, <3>1, SlotsAre
    <3>3. CASE y = n + 1
      BY <1>3, <3>1, <3>2, <3>3 DEF Row
    <3>4. CASE y \in 1..n
      <4>1. K[y] = W[y]
        BY <1>2, <3>4
      <4> QED
        BY <1>2, <1>3, <3>1, <3>2, <3>4, <4>1, SlotsAre
    <3> QED
      BY <1>5, <3>2, <3>3, <3>4
  <2>2. ASSUME NEW f \in new  PROVE f \in after
    <3>1. PICK i \in At(b, K[n + 1]) : f = <<n + 1, i>>
      BY <1>3 DEF Row
    <3> QED
      BY <1>2, <1>3, <1>5, <3>1, SlotsAre
  <2>3. ASSUME NEW f \in before  PROVE f \in after
    <3>1. PICK y, i : f = <<y, i>>
      BY <1>3, SlotsAre
    <3>2. y \in 1..n /\ i \in At(b, W[y])
      BY <1>2, <1>3, <2>3, <3>1, SlotsAre
    <3>3. K[y] = W[y] /\ y \in 1..(n + 1)
      BY <1>2, <1>5, <3>2
    <3> QED
      BY <1>2, <1>3, <3>1, <3>2, <3>3, SlotsAre
  <2> QED
    BY <2>1, <2>2, <2>3
<1>9. /\ IsFiniteSet(before \cup new)
      /\ Cardinality(before \cup new)
           = Cardinality(before) + Cardinality(new) - Cardinality(before \cap new)
  BY <1>3, <1>4, FS_Union
<1>10. Cardinality(before \cap new) = 0
  BY <1>7, FS_EmptySet
<1>11. Cardinality(before) \in Nat /\ Cardinality(new) \in Nat
  BY <1>3, <1>4, FS_CardinalityType
<1> QED
  BY <1>1, <1>3, <1>4, <1>8, <1>9, <1>10, <1>11

(* The message that libzmq had longest is taken. *)
LEMMA SlotsTail ==
  ASSUME NEW A, NEW W \in Seq(Seq(A)), W # <<>>, NEW b, IsFiniteSet(Slots(W, b))
  PROVE  /\ IsFiniteSet(Slots(Tail(W), b))
         /\ Cardinality(Slots(W, b)) = Cardinality(Slots(Tail(W), b)) + Count(b, Head(W))
<1>1. PICK K, h, n : K = Tail(W) /\ h = Head(W) /\ n = Len(W)
  OBVIOUS
<1>2. /\ n \in Nat \ {0} /\ DOMAIN W = 1..n /\ W[1] = h /\ h \in Seq(A)
      /\ K \in Seq(Seq(A)) /\ Len(K) = n - 1 /\ DOMAIN K = 1..(n - 1)
      /\ \A y \in 1..(n - 1) : K[y] = W[y + 1]
  BY <1>1
<1>3. PICK old, before, after :
        old = Row(W, 1, b) /\ before = Slots(W, b) /\ after = Slots(K, b)
  OBVIOUS
<1>4. IsFiniteSet(old) /\ Cardinality(old) = Count(b, h)
  BY <1>2, <1>3, RowSize
<1>5. old \subseteq before
  <2>1. 1 \in 1..n
    BY <1>2
  <2>2. ASSUME NEW f \in old  PROVE f \in before
    <3>1. PICK i \in At(b, W[1]) : f = <<1, i>>
      BY <1>3 DEF Row
    <3> QED
      BY <1>2, <1>3, <2>1, <3>1, SlotsAre
  <2> QED
    BY <2>2
<1>6. PICK rest : rest = before \ old
  OBVIOUS
<1>7. IsFiniteSet(rest) /\ Cardinality(rest) = Cardinality(before) - Cardinality(old)
  <2>1. IsFiniteSet(before \ old)
        /\ Cardinality(before \ old) = Cardinality(before) - Cardinality(before \cap old)
    BY <1>3, FS_Difference
  <2>2. before \cap old = old
    BY <1>5
  <2> QED
    BY <1>6, <2>1, <2>2
<1>8. PICK f, g : /\ f = [p \in rest |-> <<p[1] - 1, p[2]>>]
                  /\ g = [p \in after |-> <<p[1] + 1, p[2]>>]
  OBVIOUS
<1>9. ASSUME NEW p \in rest
      PROVE  \E y, i : y \in Int /\ p = <<y, i>> /\ <<y - 1, i>> \in after
  <2>1. PICK y, i : p = <<y, i>>
    BY <1>3, <1>6, SlotsAre
  <2>2. y \in 1..n /\ i \in At(b, W[y])
    BY <1>2, <1>3, <1>6, <1>9, <2>1, SlotsAre
  <2>3. y # 1
    BY <1>3, <1>6, <1>9, <2>1, <2>2 DEF Row
  <2>4. y - 1 \in 1..(n - 1) /\ y - 1 + 1 = y
    BY <1>2, <2>2, <2>3
  <2>5. K[y - 1] = W[y]
    BY <1>2, <2>4
  <2>6. <<y - 1, i>> \in after
    BY <1>2, <1>3, <2>2, <2>4, <2>5, SlotsAre
  <2>7. y \in Int
    BY <2>2
  <2> QED
    BY Zenon, <2>1, <2>6, <2>7
<1>10. ASSUME NEW p \in after
       PROVE  \E y, i : y \in Int /\ p = <<y, i>> /\ <<y + 1, i>> \in rest
  <2>1. PICK y, i : p = <<y, i>>
    BY <1>3, SlotsAre
  <2>2. y \in 1..(n - 1) /\ i \in At(b, K[y])
    BY <1>2, <1>3, <1>10, <2>1, SlotsAre
  <2>3. y + 1 \in 1..n /\ y + 1 # 1 /\ K[y] = W[y + 1]
    BY <1>2, <2>2
  <2>4. <<y + 1, i>> \in before
    BY <1>2, <1>3, <2>2, <2>3, SlotsAre
  <2>5. <<y + 1, i>> \notin old
    BY <1>3, <2>3 DEF Row
  <2>6. y \in Int /\ <<y + 1, i>> \in rest
    BY <1>6, <2>2, <2>4, <2>5
  <2> QED
    BY Zenon, <2>1, <2>6
<1>11. \A p \in rest : \A y, i : p = <<y, i>> => f[p] = <<y - 1, i>>
  BY <1>8
<1>12. \A p \in after : \A y, i : p = <<y, i>> => g[p] = <<y + 1, i>>
  BY <1>8
<1>13. f \in [rest -> after] /\ Undoes(g, f, rest)
  <2>1. ASSUME NEW p \in rest  PROVE f[p] \in after /\ g[f[p]] = p
    <3>1. PICK y, i : y \in Int /\ p = <<y, i>> /\ <<y - 1, i>> \in after
      BY <1>9
    <3>2. f[p] = <<y - 1, i>>
      BY <1>11, <3>1
    <3>3. g[f[p]] = <<y - 1 + 1, i>>
      BY <1>12, <3>1, <3>2
    <3>4. y - 1 + 1 = y
      BY <3>1
    <3>5. g[f[p]] = <<y, i>>
      BY <3>3, <3>4
    <3> QED
      BY <3>1, <3>2, <3>5
  <2> QED
    BY <1>8, <2>1 DEF Undoes
<1>14. g \in [after -> rest] /\ Undoes(f, g, after)
  <2>1. ASSUME NEW p \in after  PROVE g[p] \in rest /\ f[g[p]] = p
    <3>1. PICK y, i : y \in Int /\ p = <<y, i>> /\ <<y + 1, i>> \in rest
      BY <1>10
    <3>2. g[p] = <<y + 1, i>>
      BY <1>12, <3>1
    <3>3. f[g[p]] = <<y + 1 - 1, i>>
      BY <1>11, <3>1, <3>2
    <3>4. y + 1 - 1 = y
      BY <3>1
    <3>5. f[g[p]] = <<y, i>>
      BY <3>3, <3>4
    <3> QED
      BY <3>1, <3>2, <3>5
  <2> QED
    BY <1>8, <2>1 DEF Undoes
<1>15. IsFiniteSet(after) /\ Cardinality(after) = Cardinality(rest)
  BY <1>7, <1>13, <1>14, SameSize
<1>16. Cardinality(before) \in Nat /\ Cardinality(old) \in Nat
  BY <1>3, <1>4, FS_CardinalityType
<1> QED
  BY <1>1, <1>3, <1>4, <1>7, <1>15, <1>16
-------------------------------------------------------------------------------
(* Who releases storage. *)

(* What libzmq's count r of a buffer and the number d of its releases say, *)
(* when h frames will still be closed: r never falls below h, the buffer   *)
(* is released when r comes to 0 and only then, and r is h unless a frame  *)
(* was overwritten.                                                        *)
Account(h, r, d, b, known, rough) ==
  /\ h \in Nat /\ r \in Nat /\ h <= r /\ d \in {0, 1}
  /\ r > 0 => d = 0
  /\ b \notin known => r = 0 /\ d = 0
  /\ rough = {} => r = h /\ (b \in known /\ r = 0 => d = 1)

(* Frames are overwritten by a removal in front of others and by a copy    *)
(* onto parts.                                                             *)
Rough == use \cap {"pop", "onto"}

Finite(b) == IsFiniteSet(Slots(parts, b)) /\ IsFiniteSet(Slots(wire, b))

Accounted ==
  /\ refs \in [Buffers -> Nat] /\ released \in [Buffers -> Nat]
  /\ \A b \in Buffers : Finite(b) /\ Account(Holders(b), refs[b], released[b], b, given, Rough)

(* Closing c of the frames keeps the account. *)
LEMMA AccountClosed ==
  ASSUME NEW h, NEW r, NEW d, NEW b, NEW G, NEW R, Account(h, r, d, b, G, R),
         NEW c \in Nat, c <= h
  PROVE  Account(h - c, r - c, IF r > 0 /\ r - c = 0 THEN d + 1 ELSE d, b, G, R)
<1>1. h \in Nat /\ r \in Nat /\ h <= r /\ d \in {0, 1} /\ (r > 0 => d = 0)
  BY DEF Account
<1>2. PICK e : e = IF r > 0 /\ r - c = 0 THEN d + 1 ELSE d
  OBVIOUS
<1>3. /\ h - c \in Nat /\ r - c \in Nat /\ h - c <= r - c /\ e \in {0, 1}
      /\ r - c > 0 => e = 0
  BY <1>1, <1>2
<1>4. b \notin G => r - c = 0 /\ e = 0
  <2>1. b \notin G => r = 0 /\ d = 0
    BY DEF Account
  <2>2. r = 0 /\ d = 0 => r - c = 0 /\ e = 0
    BY <1>1, <1>2
  <2> QED
    BY <2>1, <2>2
<1>5. R = {} => r - c = h - c /\ (b \in G /\ r - c = 0 => e = 1)
  <2>1. R = {} => r = h /\ (b \in G /\ r = 0 => d = 1)
    BY DEF Account
  <2>2. CASE r = 0
    <3>1. e = d /\ c = 0 /\ r - c = 0 /\ h - c = 0
      BY <1>1, <1>2, <2>2
    <3> QED
      BY <2>1, <2>2, <3>1
  <2>3. CASE r # 0
    <3>1. r - c = 0 => e = 1
      BY <1>1, <1>2, <2>3
    <3>2. r = h => r - c = h - c
      BY <1>1
    <3> QED
      BY <2>1, <3>1, <3>2
  <2> QED
    BY <2>2, <2>3
<1> QED
  BY <1>2, <1>3, <1>4, <1>5 DEF Account

(* A step after which only the frames in c are gone. *)
Freed(c) ==
  \A b \in Buffers :
    /\ Finite(b)' /\ Count(b, c) \in Nat /\ Count(b, c) <= Holders(b)
    /\ Holders(b)' = Holders(b) - Count(b, c)

(* Closing these frames keeps the account of every buffer. *)
LEMMA ClosedAccounted ==
  ASSUME Accounted, NEW c, Freed(c), Closed(c), UNCHANGED <<use, given>>
  PROVE  Accounted'
<1>1. /\ refs' = [b \in Buffers |-> refs[b] - Count(b, c)]
      /\ released' = [b \in Buffers |->
           IF refs[b] > 0 /\ refs'[b] = 0 THEN released[b] + 1 ELSE released[b]]
  BY DEF Closed
<1>2. Rough' = Rough
  BY DEF Rough
<1>3. ASSUME NEW b \in Buffers
      PROVE  /\ Finite(b)' /\ refs'[b] \in Nat /\ released'[b] \in Nat
             /\ Account(Holders(b)', refs'[b], released'[b], b, given', Rough')
  <2>1. PICK h, r, d, n : h = Holders(b) /\ r = refs[b] /\ d = released[b] /\ n = Count(b, c)
    OBVIOUS
  <2>2. Account(h, r, d, b, given, Rough)
    BY <2>1 DEF Accounted
  <2>3. n \in Nat /\ n <= h /\ Holders(b)' = h - n /\ Finite(b)'
    BY <2>1 DEF Freed
  <2>4. PICK e : e = IF r > 0 /\ r - n = 0 THEN d + 1 ELSE d
    OBVIOUS
  <2>5. Account(h - n, r - n, e, b, given, Rough)
    BY <2>2, <2>3, <2>4, AccountClosed
  <2>6. refs'[b] = r - n
    BY <1>1, <2>1
  <2>7. released'[b] = e
    BY <1>1, <2>1, <2>4, <2>6
  <2>8. r - n \in Nat /\ e \in Nat
    BY <2>5 DEF Account
  <2> QED
    BY <1>2, <2>3, <2>5, <2>6, <2>7, <2>8
<1>4. refs' \in [Buffers -> Nat] /\ released' \in [Buffers -> Nat]
  <2>1. refs' = [b \in Buffers |-> refs'[b]] /\ released' = [b \in Buffers |-> released'[b]]
    BY <1>1
  <2> QED
    BY <1>3, <2>1
<1> QED
  BY <1>3, <1>4 DEF Accounted

(* One message gets other parts: c is what it has no more. *)
LEMMA FreedOfOne ==
  ASSUME Shaped, Accounted, UNCHANGED wire, NEW m \in Messages, NEW s \in Seq(Frame), NEW c,
         parts' = [parts EXCEPT ![m] = s],
         \A b \in Buffers : Count(b, c) \in Nat /\ Count(b, parts[m]) = Count(b, c) + Count(b, s)
  PROVE  Freed(c)
<1>1. parts \in [Messages -> Seq(Frame)]
  BY DEF Shaped
<1>2. ASSUME NEW b \in Buffers
      PROVE  /\ Finite(b)' /\ Count(b, c) \in Nat /\ Count(b, c) <= Holders(b)
             /\ Holders(b)' = Holders(b) - Count(b, c)
  <2>1. IsFiniteSet(Slots(parts, b)) /\ IsFiniteSet(Slots(wire, b))
    BY DEF Accounted, Finite
  <2>2. PICK K : K = [parts EXCEPT ![m] = s]
    OBVIOUS
  <2>3. /\ IsFiniteSet(Slots(K, b)) /\ Count(b, s) \in Nat
        /\ Cardinality(Slots(parts, b)) \in Nat /\ Count(b, parts[m]) \in Nat
        /\ Count(b, parts[m]) <= Cardinality(Slots(parts, b))
        /\ Cardinality(Slots(K, b))
             = Cardinality(Slots(parts, b)) - Count(b, parts[m]) + Count(b, s)
    <3>1. IsFiniteSet(Slots(parts, b))
      BY <2>1
    <3>2. Replaced(parts, K, m, s, b)
      BY <1>1, <2>2, <3>1, SlotsReplaced
    <3> QED
      BY <3>2 DEF Replaced
  <2>4. Cardinality(Slots(wire, b)) \in Nat
    BY <2>1, FS_CardinalityType
  <2>5. PICK p, w, q, x, y, z :
          /\ p = Cardinality(Slots(parts, b)) /\ w = Cardinality(Slots(wire, b))
          /\ q = Cardinality(Slots(K, b))
          /\ x = Count(b, parts[m]) /\ y = Count(b, s) /\ z = Count(b, c)
    OBVIOUS
  <2>6. /\ p \in Nat /\ w \in Nat /\ x \in Nat /\ y \in Nat /\ z \in Nat
        /\ x <= p /\ q = p - x + y /\ x = z + y
    BY <2>3, <2>4, <2>5
  <2>7. Holders(b) = p + w /\ Holders(b)' = q + w
    BY <2>2, <2>5 DEF Holders
  <2>8. z <= p + w /\ q + w = p + w - z
    BY <2>6
  <2>9. Finite(b)'
    BY <2>1, <2>2, <2>3 DEF Finite
  <2> QED
    BY <2>5, <2>6, <2>7, <2>8, <2>9
<1> QED
  BY <1>2 DEF Freed
(* Nobody has anything at the beginning. *)
LEMMA AccountedInit == Init => Accounted
<1> SUFFICES ASSUME Init  PROVE Accounted
  OBVIOUS
<1>1. /\ parts = [m \in Messages |-> <<>>] /\ wire = <<>>
      /\ refs = [b \in Buffers |-> 0] /\ released = [b \in Buffers |-> 0] /\ given = {}
  BY DEF Init
<1>2. ASSUME NEW b \in Buffers
      PROVE  Finite(b) /\ Account(Holders(b), refs[b], released[b], b, given, Rough)
  <2>1. Slots(parts, b) = {} /\ Slots(wire, b) = {}
    <3>1. ASSUME NEW f \in Slots(parts, b)  PROVE FALSE
      <4>1. PICK x, i : f = <<x, i>>
        BY SlotsAre
      <4>2. x \in Messages /\ i \in At(b, parts[x])
        BY <1>1, <4>1, SlotsAre
      <4>3. parts[x] = <<>>
        BY <1>1, <4>2
      <4> QED
        BY <4>2, <4>3 DEF At
    <3>2. ASSUME NEW f \in Slots(wire, b)  PROVE FALSE
      <4>1. PICK x, i : f = <<x, i>>
        BY SlotsAre
      <4>2. x \in DOMAIN wire
        BY <4>1, SlotsAre
      <4> QED
        BY <1>1, <4>2
    <3> QED
      BY <3>1, <3>2
  <2>2. IsFiniteSet({}) /\ Cardinality({}) = 0
    BY FS_EmptySet
  <2>3. Holders(b) = 0 /\ Finite(b)
    BY <2>1, <2>2 DEF Holders, Finite
  <2>4. refs[b] = 0 /\ released[b] = 0 /\ b \notin given
    BY <1>1
  <2> QED
    BY <2>3, <2>4 DEF Account
<1> QED
  BY <1>1, <1>2 DEF Accounted

(* A step that frees nothing, closes nothing and gives nothing away. *)
LEMMA SameAccount ==
  ASSUME Accounted, UNCHANGED <<use, given, refs, released>>,
         \A b \in Buffers : Finite(b)' /\ Holders(b)' = Holders(b)
  PROVE  Accounted'
<1>1. Rough' = Rough
  BY DEF Rough
<1>2. ASSUME NEW b \in Buffers
      PROVE  Finite(b)' /\ Account(Holders(b)', refs'[b], released'[b], b, given', Rough')
  <2>1. Account(Holders(b), refs[b], released[b], b, given, Rough)
    BY DEF Accounted
  <2>2. Finite(b)' /\ Holders(b)' = Holders(b)
    OBVIOUS
  <2> QED
    BY <1>1, <2>1, <2>2
<1> QED
  BY <1>2 DEF Accounted

(* What a part was moved to, or was sent as, keeps the frames. *)
LEMMA AccountedMove ==
  ASSUME Shaped, Accounted, NEW m \in Messages, NEW n \in Messages, Move(m, n)
  PROVE  Accounted'
<1>1. PICK r, s, K :
        r = parts[n] /\ s = parts[m] /\ K = [parts EXCEPT ![n] = s]
  OBVIOUS
<1>2. /\ parts \in [Messages -> Seq(Frame)] /\ r \in Seq(Frame) /\ s \in Seq(Frame)
      /\ <<>> \in Seq(Frame) /\ m # n
  BY <1>1 DEF Shaped, Move
<1>3. K \in [Messages -> Seq(Frame)] /\ K[m] = s
  BY <1>1, <1>2
<1>4. parts' = [K EXCEPT ![m] = <<>>]
  BY <1>1, <1>2 DEF Move
<1>5. ASSUME NEW b \in Buffers
      PROVE  /\ Finite(b)' /\ Count(b, r) \in Nat /\ Count(b, r) <= Holders(b)
             /\ Holders(b)' = Holders(b) - Count(b, r)
  <2>1. IsFiniteSet(Slots(parts, b)) /\ IsFiniteSet(Slots(wire, b))
    BY DEF Accounted, Finite
  <2>2. Replaced(parts, K, n, s, b)
    BY <1>1, <1>2, <2>1, SlotsReplaced
  <2>3. IsFiniteSet(Slots(K, b))
    BY <2>2 DEF Replaced
  <2>4. Replaced(K, parts', m, <<>>, b)
    BY <1>2, <1>3, <1>4, <2>3, SlotsReplaced
  <2>5. Count(b, <<>>) = 0
    BY CountAbsent
  <2>6. PICK p, k, q, w, x, y :
          /\ p = Cardinality(Slots(parts, b)) /\ k = Cardinality(Slots(K, b))
          /\ q = Cardinality(Slots(parts', b)) /\ w = Cardinality(Slots(wire, b))
          /\ x = Count(b, r) /\ y = Count(b, s)
    OBVIOUS
  <2>7. p \in Nat /\ x \in Nat /\ y \in Nat /\ x <= p /\ k = p - x + y
    BY <1>1, <2>2, <2>6 DEF Replaced
  <2>8. q = k - y + 0
    BY <1>3, <2>4, <2>5, <2>6 DEF Replaced
  <2>9. w \in Nat
    BY <2>1, <2>6, FS_CardinalityType
  <2>10. UNCHANGED wire
    BY DEF Move
  <2>11. Holders(b) = p + w /\ Holders(b)' = q + w
    BY <2>6, <2>10 DEF Holders
  <2>12. x <= p + w /\ q + w = p + w - x
    BY <2>7, <2>8, <2>9
  <2>13. Finite(b)'
    BY <2>1, <2>4, <2>10 DEF Finite, Replaced
  <2> QED
    BY <2>6, <2>7, <2>11, <2>12, <2>13
<1>6. Freed(r)
  BY <1>5 DEF Freed
<1>7. Closed(r) /\ UNCHANGED <<use, given>>
  BY <1>1 DEF Move, written
<1> QED
  BY <1>6, <1>7, ClosedAccounted

(* libzmq is through with the message it had longest, or an object gets    *)
(* it and loses its own parts.                                             *)
LEMMA AccountedReceive ==
  ASSUME Shaped, Accounted, NEW m \in Messages, Receive(m)
  PROVE  Accounted'
<1>1. PICK r, s : r = parts[m] /\ s = Head(wire)
  OBVIOUS
<1>2. /\ parts \in [Messages -> Seq(Frame)] /\ r \in Seq(Frame)
      /\ wire \in Seq(Seq(Buffers)) /\ wire # <<>>
  BY <1>1 DEF Shaped, Receive
<1>3. s \in Seq(Frame)
  <2>1. s \in Seq(Buffers)
    BY <1>1, <1>2
  <2>2. \A b \in Buffers : b \in Frame
    BY DEF Frame
  <2> QED
    BY <2>1, <2>2
<1>4. parts' = [parts EXCEPT ![m] = s] /\ wire' = Tail(wire)
  BY <1>1 DEF Receive
<1>5. ASSUME NEW b \in Buffers
      PROVE  /\ Finite(b)' /\ Count(b, r) \in Nat /\ Count(b, r) <= Holders(b)
             /\ Holders(b)' = Holders(b) - Count(b, r)
  <2>1. IsFiniteSet(Slots(parts, b)) /\ IsFiniteSet(Slots(wire, b))
    BY DEF Accounted, Finite
  <2>2. Replaced(parts, parts', m, s, b)
    BY <1>2, <1>3, <1>4, <2>1, SlotsReplaced
  <2>3. /\ IsFiniteSet(Slots(Tail(wire), b))
        /\ Cardinality(Slots(wire, b)) = Cardinality(Slots(Tail(wire), b)) + Count(b, Head(wire))
    BY <1>2, <2>1, SlotsTail
  <2>4. PICK p, q, w, v, x, y :
          /\ p = Cardinality(Slots(parts, b)) /\ q = Cardinality(Slots(parts', b))
          /\ w = Cardinality(Slots(wire, b)) /\ v = Cardinality(Slots(Tail(wire), b))
          /\ x = Count(b, r) /\ y = Count(b, s)
    OBVIOUS
  <2>5. p \in Nat /\ x \in Nat /\ y \in Nat /\ x <= p /\ q = p - x + y
    BY <1>1, <2>2, <2>4 DEF Replaced
  <2>6. w = v + y
    BY <1>1, <2>3, <2>4
  <2>7. w \in Nat /\ v \in Nat
    BY <2>1, <2>3, <2>4, FS_CardinalityType
  <2>8. Holders(b) = p + w /\ Holders(b)' = q + v
    BY <1>4, <2>4 DEF Holders
  <2>9. x <= p + w /\ q + v = p + w - x
    BY <2>5, <2>6, <2>7
  <2>10. Finite(b)'
    BY <1>4, <2>2, <2>3 DEF Finite, Replaced
  <2> QED
    BY <2>4, <2>5, <2>8, <2>9, <2>10
<1>6. Freed(r)
  BY <1>5 DEF Freed
<1>7. Closed(r) /\ UNCHANGED <<use, given>>
  BY <1>1 DEF Receive, written
<1> QED
  BY <1>6, <1>7, ClosedAccounted

(* libzmq sent it to another process. *)
LEMMA AccountedGone ==
  ASSUME Shaped, Accounted, Gone
  PROVE  Accounted'
<1>1. wire \in Seq(Seq(Buffers)) /\ wire # <<>> /\ wire' = Tail(wire) /\ UNCHANGED parts
  BY DEF Shaped, Gone
<1>2. PICK s : s = Head(wire) /\ s \in Seq(Buffers)
  BY <1>1
<1>3. ASSUME NEW b \in Buffers
      PROVE  /\ Finite(b)' /\ Count(b, s) \in Nat /\ Count(b, s) <= Holders(b)
             /\ Holders(b)' = Holders(b) - Count(b, s)
  <2>1. IsFiniteSet(Slots(parts, b)) /\ IsFiniteSet(Slots(wire, b))
    BY DEF Accounted, Finite
  <2>2. /\ IsFiniteSet(Slots(Tail(wire), b))
        /\ Cardinality(Slots(wire, b)) = Cardinality(Slots(Tail(wire), b)) + Count(b, Head(wire))
    BY <1>1, <2>1, SlotsTail
  <2>3. PICK p, w, v, y :
          /\ p = Cardinality(Slots(parts, b)) /\ w = Cardinality(Slots(wire, b))
          /\ v = Cardinality(Slots(Tail(wire), b)) /\ y = Count(b, s)
    OBVIOUS
  <2>4. p \in Nat /\ w \in Nat /\ v \in Nat
    BY <2>1, <2>2, <2>3, FS_CardinalityType
  <2>5. y \in Nat
    BY <1>2, <2>3, CountIsNatural
  <2>6. w = v + y
    BY <1>2, <2>2, <2>3
  <2>7. Holders(b) = p + w /\ Holders(b)' = p + v
    BY <1>1, <2>3 DEF Holders
  <2>8. PICK h, k : h = p + w /\ k = p + v
    OBVIOUS
  <2>9. Finite(b)'
    BY <1>1, <2>1, <2>2 DEF Finite
  <2>10. y <= Holders(b) /\ Holders(b)' = Holders(b) - y
    <3>1. y <= h /\ k = h - y
      BY <2>4, <2>5, <2>6, <2>8
    <3>2. Holders(b) = h /\ Holders(b)' = k
      BY Zenon, <2>7, <2>8
    <3> QED
      BY <3>1, <3>2
  <2>11. y = Count(b, s)
    BY <2>3
  <2> QED
    BY <2>5, <2>9, <2>10, <2>11
<1>4. Freed(s)
  BY <1>3 DEF Freed
<1>5. Closed(s) /\ UNCHANGED <<use, given>>
  BY <1>2 DEF Gone, written
<1> QED
  BY <1>4, <1>5, ClosedAccounted
(* A message goes to libzmq, which closes nothing. *)
LEMMA AccountedSend ==
  ASSUME Shaped, Accounted, NEW m \in Messages, Send(m)
  PROVE  Accounted'
<1>1. PICK s : s = parts[m]
  OBVIOUS
<1>2. /\ parts \in [Messages -> Seq(Frame)] /\ s \in Seq(Frame) /\ <<>> \in Seq(Frame)
      /\ wire \in Seq(Seq(Buffers))
  BY <1>1 DEF Shaped
<1>3. wire \in Seq(Seq(Frame))
  <2>1. \A b \in Buffers : b \in Frame
    BY DEF Frame
  <2>2. \A r \in Seq(Buffers) : r \in Seq(Frame)
    BY <2>1
  <2>3. \A i \in DOMAIN wire : wire[i] \in Seq(Buffers)
    BY <1>2
  <2> QED
    BY <1>2, <2>2, <2>3
<1>4. parts' = [parts EXCEPT ![m] = <<>>] /\ wire' = Append(wire, s)
  BY <1>1 DEF Send
<1>5. ASSUME NEW b \in Buffers  PROVE Finite(b)' /\ Holders(b)' = Holders(b)
  <2>1. IsFiniteSet(Slots(parts, b)) /\ IsFiniteSet(Slots(wire, b))
    BY DEF Accounted, Finite
  <2>2. Replaced(parts, parts', m, <<>>, b)
    BY <1>2, <1>4, <2>1, SlotsReplaced
  <2>3. /\ IsFiniteSet(Slots(wire', b))
        /\ Cardinality(Slots(wire', b)) = Cardinality(Slots(wire, b)) + Count(b, s)
    BY <1>2, <1>3, <1>4, <2>1, SlotsAppended
  <2>4. Count(b, <<>>) = 0
    BY CountAbsent
  <2>5. PICK p, q, w, v, x :
          /\ p = Cardinality(Slots(parts, b)) /\ q = Cardinality(Slots(parts', b))
          /\ w = Cardinality(Slots(wire, b)) /\ v = Cardinality(Slots(wire', b))
          /\ x = Count(b, s)
    OBVIOUS
  <2>6. p \in Nat /\ x \in Nat /\ q = p - x + 0
    BY <1>1, <2>2, <2>4, <2>5 DEF Replaced
  <2>7. v = w + x
    BY <2>3, <2>5
  <2>8. w \in Nat
    BY <2>1, <2>5, FS_CardinalityType
  <2>9. q + v = p + w
    BY <2>6, <2>7, <2>8
  <2>10. Finite(b)'
    BY <2>2, <2>3 DEF Finite, Replaced
  <2> QED
    BY <2>5, <2>9, <2>10 DEF Holders
<1>6. UNCHANGED <<use, given, refs, released>>
  BY DEF Send, written
<1> QED
  BY <1>5, <1>6, SameAccount

(* Parts are destroyed. *)
LEMMA AccountedDestroy ==
  ASSUME Shaped, Accounted, NEW m \in Messages, Destroy(m)
  PROVE  Accounted'
<1>1. PICK c : c = parts[m]
  OBVIOUS
<1>2. c \in Seq(Frame) /\ <<>> \in Seq(Frame)
  BY <1>1 DEF Shaped
<1>3. \A b \in Buffers : Count(b, c) \in Nat /\ Count(b, parts[m]) = Count(b, c) + Count(b, <<>>)
  <2>1. \A b \in Buffers : Count(b, c) \in Nat
    BY <1>2, CountIsNatural
  <2>2. \A b \in Buffers : Count(b, <<>>) = 0
    BY CountAbsent
  <2> QED
    BY <1>1, <2>1, <2>2
<1>4. /\ parts' = [parts EXCEPT ![m] = <<>>] /\ Closed(c) /\ UNCHANGED <<use, wire, given>>
  BY <1>1 DEF Destroy, written
<1>5. UNCHANGED wire
  BY <1>4
<1>6. Freed(c)
  BY <1>2, <1>3, <1>4, <1>5, FreedOfOne
<1> QED
  BY <1>4, <1>6, ClosedAccounted

(* The parts that were sent before one was refused are closed. *)
LEMMA AccountedThrow ==
  ASSUME Shaped, Accounted, NEW m \in Messages, NEW k \in DOMAIN parts[m], SendThrows(m, k)
  PROVE  Accounted'
<1>1. PICK r, s, c : r = parts[m] /\ s = Emptied(r, k) /\ c = SubSeq(r, 1, k)
  OBVIOUS
<1>2. r \in Seq(Frame) /\ k \in 0..Len(r)
  BY <1>1 DEF Shaped
<1>3. s \in Seq(Frame) /\ c \in Seq(Frame)
  <2>1. s \in Seq(Frame)
    BY <1>1, <1>2, EmptiedTyped
  <2>2. c \in Seq(Frame)
    BY <1>1, <1>2, CountSplit
  <2> QED
    BY <2>1, <2>2
<1>4. \A b \in Buffers : Count(b, c) \in Nat /\ Count(b, parts[m]) = Count(b, c) + Count(b, s)
  <2>1. \A b \in Buffers : Count(b, c) \in Nat
    BY <1>3, CountIsNatural
  <2>2. \A b \in Buffers : Count(b, r) = Count(b, SubSeq(r, 1, k)) + Count(b, Emptied(r, k))
    BY <1>2, CountEmptied
  <2> QED
    BY <1>1, <2>1, <2>2
<1>5. /\ parts' = [parts EXCEPT ![m] = s] /\ Closed(c) /\ UNCHANGED <<use, wire, given>>
  BY <1>1 DEF SendThrows, Emptied, written
<1>6. UNCHANGED wire
  BY <1>5
<1>7. Freed(c)
  BY <1>3, <1>4, <1>5, <1>6, FreedOfOne
<1> QED
  BY <1>5, <1>7, ClosedAccounted

(* A frame that is overwritten takes its reference with it. *)
LEMMA AccountOverwritten ==
  ASSUME NEW h, NEW r, NEW d, NEW b, NEW G, NEW R, Account(h, r, d, b, G, R),
         NEW c \in Nat, c <= h, R # {}
  PROVE  Account(h - c, r, d, b, G, R)
<1>1. h \in Nat /\ r \in Nat /\ h <= r /\ d \in {0, 1} /\ (r > 0 => d = 0)
  BY DEF Account
<1>2. h - c \in Nat /\ h - c <= r
  BY <1>1
<1>3. b \notin G => r = 0 /\ d = 0
  BY DEF Account
<1> QED
  BY <1>1, <1>2, <1>3 DEF Account

(* A part is removed: the last one is destroyed, of others the frame of    *)
(* the next is assigned to theirs.                                         *)
LEMMA AccountedRemove ==
  ASSUME Shaped, Accounted, NEW m \in Messages, NEW i \in DOMAIN parts[m], Remove(m, i)
  PROVE  Accounted'
<1>1. PICK r, s, c : r = parts[m] /\ s = Without(r, i) /\ c = <<r[i]>>
  OBVIOUS
<1>2. r \in Seq(Frame) /\ i \in DOMAIN r
  BY <1>1 DEF Shaped
<1>3. s \in Seq(Frame) /\ c \in Seq(Frame)
  <2>1. s \in Seq(Frame)
    BY <1>1, <1>2, WithoutTyped
  <2>2. r[i] \in Frame
    BY <1>2
  <2> QED
    BY <1>1, <2>1, <2>2
<1>4. \A b \in Buffers : Count(b, c) \in Nat /\ Count(b, parts[m]) = Count(b, c) + Count(b, s)
  <2>1. \A b \in Buffers : Count(b, c) \in Nat /\ Count(b, s) \in Nat
    BY <1>3, CountIsNatural
  <2>2. \A b \in Buffers : Count(b, r) = Count(b, Without(r, i)) + Count(b, <<r[i]>>)
    BY <1>2, CountWithout
  <2>3. \A b \in Buffers : Count(b, s) + Count(b, c) = Count(b, c) + Count(b, s)
    BY <2>1
  <2> QED
    BY <1>1, <2>1, <2>2, <2>3
<1>5. /\ parts' = [parts EXCEPT ![m] = s] /\ UNCHANGED <<use, given>> /\ UNCHANGED wire
      /\ i = Len(r) => Closed(c)
      /\ i # Len(r) => UNCHANGED <<refs, released>> /\ (i < Len(r) => "pop" \in use)
  BY <1>1 DEF Remove, written, Overwritten
<1>6. Freed(c)
  BY <1>3, <1>4, <1>5, FreedOfOne
<1>7. CASE i = Len(r)
  BY <1>5, <1>6, <1>7, ClosedAccounted
<1>8. CASE i # Len(r)
  <2>1. i < Len(r)
    BY <1>2, <1>8
  <2>2. Rough # {} /\ Rough' = Rough
    BY <1>5, <1>8, <2>1 DEF Rough
  <2>3. ASSUME NEW b \in Buffers
        PROVE  Finite(b)' /\ Account(Holders(b)', refs'[b], released'[b], b, given', Rough')
    <3>1. PICK h, n, x, d : h = Holders(b) /\ n = Count(b, c) /\ x = refs[b] /\ d = released[b]
      OBVIOUS
    <3>2. Account(h, x, d, b, given, Rough)
      BY <3>1 DEF Accounted
    <3>3. n \in Nat /\ n <= h /\ Holders(b)' = h - n /\ Finite(b)'
      BY <1>6, <3>1 DEF Freed
    <3>4. Account(h - n, x, d, b, given, Rough)
      BY <2>2, <3>2, <3>3, AccountOverwritten
    <3> QED
      BY <1>5, <1>8, <2>2, <3>1, <3>3, <3>4
  <2> QED
    BY <1>5, <1>8, <2>3 DEF Accounted
<1> QED
  BY <1>7, <1>8
(* The account of a buffer that was given, or not, before a step and after. *)
LEMMA AccountKnown ==
  ASSUME NEW h, NEW r, NEW d, NEW b, NEW G, NEW H, NEW R, Account(h, r, d, b, G, R),
         b \in G <=> b \in H
  PROVE  Account(h, r, d, b, H, R)
BY DEF Account

(* A buffer that becomes a part: libzmq counts one. *)
LEMMA AccountGiven ==
  ASSUME NEW h, NEW r, NEW d, NEW b, NEW G, NEW H, NEW R, Account(h, r, d, b, G, R),
         b \notin G, b \in H
  PROVE  h = 0 /\ r = 0 /\ d = 0 /\ Account(1, 1, 0, b, H, R)
<1>1. h \in Nat /\ h <= r
  BY DEF Account
<1>2. r = 0 /\ d = 0
  BY DEF Account
<1>3. h = 0
  BY <1>1, <1>2
<1> QED
  BY <1>2, <1>3 DEF Account

(* A new part. *)
LEMMA AccountedAdd ==
  ASSUME Shaped, Accounted, NEW m \in Messages, NEW c \in Buffers, NEW front \in BOOLEAN,
         Add(m, c, front)
  PROVE  Accounted'
<1>1. PICK r : r = parts[m]
  OBVIOUS
<1>2. parts \in [Messages -> Seq(Frame)] /\ r \in Seq(Frame) /\ c \in Frame
  BY <1>1 DEF Shaped, Frame
<1>3. /\ c \notin given /\ given' = given \cup {c} /\ refs' = [refs EXCEPT ![c] = 1]
      /\ UNCHANGED released /\ UNCHANGED wire /\ UNCHANGED use
  BY DEF Add
<1>4. PICK s : /\ s \in {<<c>> \o r, Append(r, c)} /\ parts' = [parts EXCEPT ![m] = s]
  BY <1>1 DEF Add
<1>5. s \in Seq(Frame)
  <2>1. <<c>> \o r \in Seq(Frame)
    <3>1. <<c>> \in Seq(Frame)
      BY <1>2
    <3> QED
      BY <1>2, <3>1, ConcatProperties
  <2>2. Append(r, c) \in Seq(Frame)
    BY <1>2
  <2> QED
    BY <1>4, <2>1, <2>2
<1>6. refs \in [Buffers -> Nat] /\ released \in [Buffers -> Nat]
  BY DEF Accounted
<1>7. Rough' = Rough
  BY <1>3 DEF Rough
<1>8. ASSUME NEW b \in Buffers
      PROVE  Finite(b)' /\ Account(Holders(b)', refs'[b], released'[b], b, given', Rough')
  <2>1. IsFiniteSet(Slots(parts, b)) /\ IsFiniteSet(Slots(wire, b))
    BY DEF Accounted, Finite
  <2>2. Replaced(parts, parts', m, s, b)
    BY <1>2, <1>4, <1>5, <2>1, SlotsReplaced
  <2>3. PICK p, q, w, x, y, z, h, k :
          /\ p = Cardinality(Slots(parts, b)) /\ q = Cardinality(Slots(parts', b))
          /\ w = Cardinality(Slots(wire, b))
          /\ x = Count(b, r) /\ y = Count(b, s) /\ z = Count(b, <<c>>)
          /\ h = Holders(b) /\ k = Holders(b)'
    OBVIOUS
  <2>4. p \in Nat /\ x \in Nat /\ y \in Nat /\ q = p - x + y
    BY <1>1, <2>2, <2>3 DEF Replaced
  <2>5. z = IF c = b THEN 1 ELSE 0
    BY <2>3, CountOne
  <2>6. y = x + z
    <3>1. Count(b, Append(r, c)) = x + z /\ Count(b, <<c>> \o r) = z + x
      BY <1>2, <2>3, CountAdded
    <3>2. z + x = x + z
      BY <2>4, <2>5
    <3> QED
      BY <1>4, <2>3, <3>1, <3>2
  <2>7. w \in Nat
    BY <2>1, <2>3, FS_CardinalityType
  <2>8. h = p + w /\ k = q + w
    BY <1>3, <2>3 DEF Holders
  <2>9. k = h + z
    BY <2>4, <2>5, <2>6, <2>7, <2>8
  <2>10. Finite(b)'
    BY <1>3, <2>1, <2>2 DEF Finite, Replaced
  <2>11. Account(h, refs[b], released[b], b, given, Rough)
    BY <2>3 DEF Accounted
  <2>12. CASE b = c
    <3>1. b \notin given /\ b \in given'
      BY <1>3, <2>12
    <3>2. h = 0 /\ released[b] = 0 /\ Account(1, 1, 0, b, given', Rough)
      BY <2>11, <3>1, AccountGiven
    <3>3. k = 1
      BY <2>5, <2>9, <2>12, <3>2
    <3>4. refs'[b] = 1 /\ released'[b] = 0
      BY <1>3, <1>6, <2>12, <3>2
    <3> QED
      BY <1>7, <2>3, <2>10, <3>2, <3>3, <3>4
  <2>13. CASE b # c
    <3>1. b \in given <=> b \in given'
      BY <1>3, <2>13
    <3>2. Account(h, refs[b], released[b], b, given', Rough)
      BY <2>11, <3>1, AccountKnown
    <3>3. k = h
      BY <2>4, <2>5, <2>7, <2>8, <2>9, <2>13
    <3>4. refs'[b] = refs[b] /\ released'[b] = released[b]
      BY <1>3, <1>6, <2>13
    <3> QED
      BY <1>7, <2>3, <2>10, <3>2, <3>3, <3>4
  <2> QED
    BY <2>12, <2>13
<1>9. refs' \in [Buffers -> Nat] /\ released' \in [Buffers -> Nat]
  BY <1>3, <1>6
<1> QED
  BY <1>8, <1>9 DEF Accounted

(* A copy: the target's parts beyond the source's are closed, z frames of  *)
(* a buffer out of y, and x are new.                                       *)
LEMMA AccountCopied ==
  ASSUME NEW h, NEW r, NEW d, NEW b, NEW G, NEW R, Account(h, r, d, b, G, R),
         NEW x \in Nat, NEW y \in Nat, NEW z \in Nat, x <= h, y <= h, z <= y, R = {} => y = 0
  PROVE  Account(h - y + x, r + x - z, IF r > 0 /\ r + x - z = 0 THEN d + 1 ELSE d, b, G, R)
<1>1. h \in Nat /\ r \in Nat /\ h <= r /\ d \in {0, 1} /\ (r > 0 => d = 0)
  BY DEF Account
<1>2. PICK e, k, n : /\ e = IF r > 0 /\ r + x - z = 0 THEN d + 1 ELSE d
                     /\ k = h - y + x /\ n = r + x - z
  OBVIOUS
<1>3. /\ k \in Nat /\ n \in Nat /\ k <= n
  BY <1>1, <1>2
<1>4. e \in {0, 1} /\ (n > 0 => e = 0)
  <2>1. CASE r > 0
    BY <1>1, <1>2, <2>1
  <2>2. CASE r = 0
    <3>1. n = 0 /\ e = d
      BY <1>1, <1>2, <2>2
    <3> QED
      BY <1>1, <3>1
  <2> QED
    BY <1>1, <2>1, <2>2
<1>5. b \notin G => n = 0 /\ e = 0
  <2>1. b \notin G => r = 0 /\ d = 0
    BY DEF Account
  <2>2. r = 0 /\ d = 0 => n = 0 /\ e = 0
    BY <1>1, <1>2
  <2> QED
    BY <2>1, <2>2
<1>6. R = {} => n = k /\ (b \in G /\ n = 0 => e = 1)
  <2>1. R = {} => r = h /\ y = 0 /\ (b \in G /\ r = 0 => d = 1)
    BY DEF Account
  <2>2. r = h /\ y = 0 => n = k
    BY <1>1, <1>2
  <2>3. y = 0 /\ n = 0 => r = 0 /\ e = d
    BY <1>1, <1>2
  <2> QED
    BY <2>1, <2>2, <2>3
<1> QED
  BY <1>2, <1>3, <1>4, <1>5, <1>6 DEF Account
(* copy(source). *)
LEMMA AccountedCopy ==
  ASSUME Shaped, Accounted, NEW m \in Messages, NEW n \in Messages, Copy(m, n)
  PROVE  Accounted'
<1>1. PICK r, s, c : r = parts[n] /\ s = parts[m] /\ c = SubSeq(r, Len(s) + 1, Len(r))
  OBVIOUS
<1>2. parts \in [Messages -> Seq(Frame)] /\ r \in Seq(Frame) /\ s \in Seq(Frame)
  BY <1>1 DEF Shaped
<1>3. /\ r # <<>> => "onto" \in use
      /\ parts' = [parts EXCEPT ![n] = s]
      /\ refs' = [b \in Buffers |-> refs[b] + Count(b, s) - Count(b, c)]
      /\ released' = [b \in Buffers |->
           IF refs[b] > 0 /\ refs[b] + Count(b, s) - Count(b, c) = 0
           THEN released[b] + 1 ELSE released[b]]
      /\ UNCHANGED wire /\ UNCHANGED given /\ UNCHANGED use
  BY <1>1 DEF Copy, written
<1>4. Rough' = Rough
  BY <1>3 DEF Rough
<1>5. ASSUME NEW b \in Buffers
      PROVE  Count(b, c) \in Nat /\ Count(b, c) <= Count(b, r)
  <2>1. Count(b, r) \in Nat /\ Len(r) \in Nat /\ Len(s) \in Nat
    BY <1>2, CountIsNatural, LenProperties
  <2>2. CASE Len(s) <= Len(r)
    <3>1. Len(s) \in 0..Len(r)
      BY <2>1, <2>2
    <3>2. PICK u : u = SubSeq(r, 1, Len(s))
      OBVIOUS
    <3>3. u \in Seq(Frame) /\ c \in Seq(Frame) /\ Count(b, r) = Count(b, u) + Count(b, c)
      BY <1>1, <1>2, <3>1, <3>2, CountSplit
    <3>4. Count(b, u) \in Nat /\ Count(b, c) \in Nat
      BY <3>3, CountIsNatural
    <3> QED
      BY <3>3, <3>4
  <2>3. CASE ~ (Len(s) <= Len(r))
    <3>1. Len(r) < Len(s) + 1 /\ Len(s) + 1 \in Int /\ Len(r) \in Int
      BY <2>1, <2>3
    <3>2. c = <<>>
      BY <1>1, <3>1, SubSeqEmpty
    <3>3. Count(b, c) = 0
      BY <3>2, CountAbsent
    <3> QED
      BY <2>1, <3>3
  <2> QED
    BY <2>2, <2>3
<1>6. ASSUME NEW b \in Buffers
      PROVE  /\ Finite(b)' /\ refs'[b] \in Nat /\ released'[b] \in Nat
             /\ Account(Holders(b)', refs'[b], released'[b], b, given', Rough')
  <2>1. IsFiniteSet(Slots(parts, b)) /\ IsFiniteSet(Slots(wire, b))
    BY DEF Accounted, Finite
  <2>2. Replaced(parts, parts', n, s, b)
    BY <1>2, <1>3, <2>1, SlotsReplaced
  <2>3. Count(b, s) <= Cardinality(Slots(parts, b))
    <3>1. PICK K : K = [parts EXCEPT ![m] = s]
      OBVIOUS
    <3>2. Replaced(parts, K, m, s, b)
      BY <1>2, <2>1, <3>1, SlotsReplaced
    <3> QED
      BY <1>1, <3>2 DEF Replaced
  <2>4. PICK p, q, w, x, y, z, h, k, j, d, e :
          /\ p = Cardinality(Slots(parts, b)) /\ q = Cardinality(Slots(parts', b))
          /\ w = Cardinality(Slots(wire, b))
          /\ x = Count(b, s) /\ y = Count(b, r) /\ z = Count(b, c)
          /\ h = Holders(b) /\ k = Holders(b)'
          /\ j = refs[b] /\ d = released[b]
          /\ e = IF j > 0 /\ j + x - z = 0 THEN d + 1 ELSE d
    OBVIOUS
  <2>5. p \in Nat /\ x \in Nat /\ y \in Nat /\ y <= p /\ q = p - y + x
    BY <1>1, <2>2, <2>4 DEF Replaced
  <2>6. z \in Nat /\ z <= y
    BY <1>5, <2>4
  <2>7. w \in Nat
    BY <2>1, <2>4, FS_CardinalityType
  <2>8. h = p + w /\ k = q + w
    BY <1>3, <2>4 DEF Holders
  <2>9. x <= p
    BY <2>3, <2>4
  <2>10. x <= h /\ y <= h /\ k = h - y + x
    BY <2>5, <2>7, <2>8, <2>9
  <2>11. Rough = {} => y = 0
    <3>1. Rough = {} => r = <<>>
      BY <1>3 DEF Rough
    <3>2. r = <<>> => Count(b, r) = 0
      BY CountAbsent
    <3> QED
      BY <2>4, <3>1, <3>2
  <2>12. Account(h, j, d, b, given, Rough)
    BY <2>4 DEF Accounted
  <2>13. Account(h - y + x, j + x - z, e, b, given, Rough)
    <3>1. x \in Nat /\ y \in Nat /\ z \in Nat /\ x <= h /\ y <= h /\ z <= y
      BY <2>5, <2>6, <2>10
    <3>2. PICK R, G : R = Rough /\ G = given
      OBVIOUS
    <3>3. Account(h, j, d, b, G, R) /\ (R = {} => y = 0)
      BY <2>11, <2>12, <3>2
    <3>4. Account(h - y + x, j + x - z, IF j > 0 /\ j + x - z = 0 THEN d + 1 ELSE d, b, G, R)
      BY <3>1, <3>3, AccountCopied
    <3>5. e = IF j > 0 /\ j + x - z = 0 THEN d + 1 ELSE d
      BY <2>4
    <3> QED
      BY <3>2, <3>4, <3>5
  <2>14. refs'[b] = j + x - z /\ released'[b] = e
    BY <1>3, <2>4
  <2>15. j + x - z \in Nat /\ e \in Nat
    BY <2>13 DEF Account
  <2>16. Finite(b)'
    BY <1>3, <2>1, <2>2 DEF Finite, Replaced
  <2> QED
    BY <1>3, <1>4, <2>4, <2>10, <2>13, <2>14, <2>15, <2>16
<1>7. refs' \in [Buffers -> Nat] /\ released' \in [Buffers -> Nat]
  <2>1. refs' = [b \in Buffers |-> refs'[b]] /\ released' = [b \in Buffers |-> released'[b]]
    BY <1>3
  <2> QED
    BY <1>6, <2>1
<1> QED
  BY <1>6, <1>7 DEF Accounted

(* A message from another process comes in storage of libzmq's own. *)
LEMMA AccountedReceiveRemote ==
  ASSUME Shaped, Accounted, NEW m \in Messages, ReceiveRemote(m)
  PROVE  Accounted'
<1>1. PICK fresh \in [DOMAIN Head(wire) -> Buffers \ given] :
        /\ \A b \in Buffers : Cardinality({i \in DOMAIN fresh : fresh[i] = b}) <= 1
        /\ parts' = [parts EXCEPT ![m] = fresh]
        /\ given' = given \cup {b \in Buffers : {i \in DOMAIN fresh : fresh[i] = b} # {}}
        /\ refs' = [b \in Buffers |->
             IF {i \in DOMAIN fresh : fresh[i] = b} = {}
             THEN refs[b] - Count(b, parts[m] \o Head(wire)) ELSE 1]
        /\ released' = [b \in Buffers |->
             IF refs[b] > 0 /\ refs'[b] = 0 THEN released[b] + 1 ELSE released[b]]
  BY DEF ReceiveRemote
<1>2. PICK r, t : r = parts[m] /\ t = Head(wire)
  OBVIOUS
<1>3. /\ parts \in [Messages -> Seq(Frame)] /\ r \in Seq(Frame)
      /\ wire \in Seq(Seq(Buffers)) /\ wire # <<>> /\ wire' = Tail(wire) /\ use' = use
  BY <1>2 DEF Shaped, ReceiveRemote
<1>4. t \in Seq(Buffers)
  BY <1>2, <1>3
<1>5. \A u \in Seq(Buffers) : u \in Seq(Frame)
  <2>1. \A b \in Buffers : b \in Frame
    BY DEF Frame
  <2> QED
    BY <2>1
<1>6. fresh \in Seq(Buffers)
  <2>1. PICK k \in Nat : DOMAIN t = 1..k
    BY <1>4
  <2> QED
    BY <1>2, <2>1
<1>7. t \in Seq(Frame) /\ fresh \in Seq(Frame)
  BY <1>4, <1>5, <1>6
<1>8. Rough' = Rough
  BY <1>3 DEF Rough
<1>9. ASSUME NEW b \in Buffers
      PROVE  /\ Finite(b)' /\ refs'[b] \in Nat /\ released'[b] \in Nat
             /\ Account(Holders(b)', refs'[b], released'[b], b, given', Rough')
  <2>1. IsFiniteSet(Slots(parts, b)) /\ IsFiniteSet(Slots(wire, b))
    BY DEF Accounted, Finite
  <2>2. Replaced(parts, parts', m, fresh, b)
    BY <1>1, <1>3, <1>7, <2>1, SlotsReplaced
  <2>3. /\ IsFiniteSet(Slots(Tail(wire), b))
        /\ Cardinality(Slots(wire, b)) = Cardinality(Slots(Tail(wire), b)) + Count(b, Head(wire))
    BY <1>3, <2>1, SlotsTail
  <2>4. PICK S : S = {i \in DOMAIN fresh : fresh[i] = b}
    OBVIOUS
  <2>5. S = At(b, fresh) /\ Cardinality(S) <= 1
    BY <1>1, <2>4 DEF At
  <2>6. PICK p, q, w, v, x, y, z, g, h, k :
          /\ p = Cardinality(Slots(parts, b)) /\ q = Cardinality(Slots(parts', b))
          /\ w = Cardinality(Slots(wire, b)) /\ v = Cardinality(Slots(Tail(wire), b))
          /\ x = Count(b, r) /\ y = Count(b, t) /\ z = Count(b, fresh) /\ g = Count(b, r \o t)
          /\ h = Holders(b) /\ k = Holders(b)'
    OBVIOUS
  <2>7. p \in Nat /\ x \in Nat /\ z \in Nat /\ x <= p /\ q = p - x + z
    BY <1>2, <2>2, <2>6 DEF Replaced
  <2>8. w = v + y
    BY <1>2, <2>3, <2>6
  <2>9. w \in Nat /\ v \in Nat
    BY <2>1, <2>3, <2>6, FS_CardinalityType
  <2>10. y \in Nat
    BY <1>7, <2>6, CountIsNatural
  <2>11. g = x + y
    BY <1>3, <1>7, <2>6, CountConcat
  <2>12. h = p + w /\ k = q + v
    BY <1>3, <2>6 DEF Holders
  <2>13. g \in Nat /\ g <= h /\ k = h - g + z
    BY <2>7, <2>8, <2>9, <2>10, <2>11, <2>12
  <2>14. Finite(b)'
    BY <1>3, <2>2, <2>3 DEF Finite, Replaced
  <2>15. Account(h, refs[b], released[b], b, given, Rough)
    BY <2>6 DEF Accounted
  <2>16. z = Cardinality(S) /\ IsFiniteSet(S)
    BY <1>7, <2>5, <2>6, CountIsNatural
  <2>17. b \in given' <=> b \in given \/ S # {}
    BY <1>1, <2>4
  <2>18. CASE S = {}
    <3>1. z = 0
      BY <2>16, <2>18, FS_EmptySet
    <3>2. k = h - g
      BY <2>7, <2>9, <2>12, <2>13, <3>1
    <3>3. refs'[b] = refs[b] - g
      BY <1>1, <1>2, <2>4, <2>6, <2>18
    <3>4. PICK j, d, e : /\ j = refs[b] /\ d = released[b]
                         /\ e = IF j > 0 /\ j - g = 0 THEN d + 1 ELSE d
      OBVIOUS
    <3>5. released'[b] = e
      BY <1>1, <3>3, <3>4
    <3>6. Account(h, j, d, b, given, Rough)
      BY <2>15, <3>4
    <3>7. Account(h - g, j - g, e, b, given, Rough)
      BY <2>13, <3>4, <3>6, AccountClosed
    <3>8. b \in given <=> b \in given'
      BY <2>17, <2>18
    <3>9. Account(h - g, j - g, e, b, given', Rough)
      BY <3>7, <3>8, AccountKnown
    <3>10. j - g \in Nat /\ e \in Nat
      BY <3>7 DEF Account
    <3> QED
      BY <1>8, <2>6, <2>14, <3>2, <3>3, <3>4, <3>5, <3>9, <3>10
  <2>19. CASE S # {}
    <3>1. z # 0
      BY <2>16, <2>19, FS_EmptySet
    <3>2. z = 1
      BY <2>5, <2>7, <2>16, <3>1
    <3>3. b \notin given
      BY <1>1, <2>4, <2>19
    <3>4. b \in given'
      BY <2>17, <2>19
    <3>5. h = 0 /\ refs[b] = 0 /\ released[b] = 0 /\ Account(1, 1, 0, b, given', Rough)
      BY <2>15, <3>3, <3>4, AccountGiven
    <3>6. k = 1
      BY <2>13, <3>2, <3>5
    <3>7. refs'[b] = 1
      BY <1>1, <2>4, <2>19
    <3>8. released'[b] = 0
      BY <1>1, <3>5, <3>7
    <3> QED
      BY <1>8, <2>6, <2>14, <3>5, <3>6, <3>7, <3>8
  <2> QED
    BY <2>18, <2>19
<1>10. refs' \in [Buffers -> Nat] /\ released' \in [Buffers -> Nat]
  <2>1. refs' = [b \in Buffers |-> refs'[b]] /\ released' = [b \in Buffers |-> released'[b]]
    BY <1>1
  <2> QED
    BY <1>9, <2>1
<1> QED
  BY <1>9, <1>10 DEF Accounted

(* Every call and every step of libzmq keeps the account. *)
LEMMA AccountedNext == Shaped /\ Accounted /\ [Next]_vars => Accounted'
<1> SUFFICES ASSUME Shaped, Accounted, [Next]_vars  PROVE Accounted'
  OBVIOUS
<1>1. ASSUME NEW m \in Messages, Read(m) \/ Reset(m)  PROVE Accounted'
  <2>1. UNCHANGED <<use, given, refs, released, parts, wire>>
    BY <1>1 DEF Read, Reset, Steps, written
  <2>2. \A b \in Buffers : Finite(b)' /\ Holders(b)' = Holders(b)
    BY <2>1 DEF Accounted, Finite, Holders
  <2> QED
    BY <2>1, <2>2, SameAccount
<1>2. ASSUME UNCHANGED vars  PROVE Accounted'
  <2>1. UNCHANGED <<use, given, refs, released, parts, wire>>
    BY <1>2 DEF vars, written
  <2>2. \A b \in Buffers : Finite(b)' /\ Holders(b)' = Holders(b)
    BY <2>1 DEF Accounted, Finite, Holders
  <2> QED
    BY <2>1, <2>2, SameAccount
<1>3. ASSUME NEW m \in Messages, NEW b \in Buffers, NEW front \in BOOLEAN, Add(m, b, front)
      PROVE  Accounted'
  BY <1>3, AccountedAdd
<1>4. ASSUME NEW m \in Messages, NEW i \in DOMAIN parts[m], Remove(m, i) \/ SendThrows(m, i)
      PROVE  Accounted'
  BY <1>4, AccountedRemove, AccountedThrow
<1>5. ASSUME NEW m \in Messages, NEW n \in Messages, Move(m, n) \/ Copy(m, n)  PROVE Accounted'
  BY <1>5, AccountedMove, AccountedCopy
<1>6. ASSUME NEW m \in Messages, Destroy(m) \/ Send(m) \/ Receive(m) \/ ReceiveRemote(m)
      PROVE  Accounted'
  BY <1>6, AccountedDestroy, AccountedSend, AccountedReceive, AccountedReceiveRemote
<1>7. ASSUME Gone  PROVE Accounted'
  BY <1>7, AccountedGone
<1> QED
  BY <1>1, <1>2, <1>3, <1>4, <1>5, <1>6, <1>7 DEF Next

(* Storage that a part or libzmq still shows was not released, and none is *)
(* released twice (message.hpp:89-90).                                     *)
THEOREM MessageNotReleasedInUse == Spec => []NotReleasedInUse
<1>1. Init => Shaped /\ Accounted
  BY ShapedInit, AccountedInit
<1>2. Shaped /\ Accounted /\ [Next]_vars => (Shaped /\ Accounted)'
  BY ShapedNext, AccountedNext
<1>3. Shaped /\ Accounted => NotReleasedInUse
  <2> SUFFICES ASSUME Accounted, NEW b \in Buffers
               PROVE  released[b] <= IF Holders(b) > 0 THEN 0 ELSE 1
    BY DEF NotReleasedInUse
  <2>1. PICK h, r, d : h = Holders(b) /\ r = refs[b] /\ d = released[b]
    OBVIOUS
  <2>2. h \in Nat /\ r \in Nat /\ h <= r /\ d \in {0, 1} /\ (r > 0 => d = 0)
    BY <2>1 DEF Accounted, Account
  <2>3. d <= IF h > 0 THEN 0 ELSE 1
    BY <2>2
  <2> QED
    BY <2>1, <2>3
<1> QED
  BY <1>1, <1>2, <1>3, PTL DEF Spec

(* A buffer that was given is released when nobody has it any more, if no  *)
(* frame is overwritten (message.hpp:49).                                  *)
THEOREM MessageReleasedUnlessOverwritten == Spec => []ReleasedUnlessOverwritten
<1>1. Init => Shaped /\ Accounted /\ given \subseteq Buffers
  BY ShapedInit, AccountedInit DEF Init
<1>2. Shaped /\ Accounted /\ given \subseteq Buffers /\ [Next]_vars
        => (Shaped /\ Accounted /\ given \subseteq Buffers)'
  <2>1. given \subseteq Buffers /\ [Next]_vars => (given \subseteq Buffers)'
    <3> SUFFICES ASSUME given \subseteq Buffers, [Next]_vars  PROVE given' \subseteq Buffers
      OBVIOUS
    <3>1. ASSUME UNCHANGED given  PROVE given' \subseteq Buffers
      BY <3>1
    <3>2. ASSUME NEW m, NEW b \in Buffers, NEW front, Add(m, b, front)  PROVE given' \subseteq Buffers
      BY <3>2 DEF Add
    <3>3. ASSUME NEW m, ReceiveRemote(m)  PROVE given' \subseteq Buffers
      BY <3>3 DEF ReceiveRemote
    <3>4. ASSUME NEW m, NEW i, Remove(m, i) \/ SendThrows(m, i)  PROVE given' \subseteq Buffers
      BY <3>1, <3>4 DEF Remove, SendThrows
    <3>5. ASSUME NEW m, NEW n, Move(m, n) \/ Copy(m, n)  PROVE given' \subseteq Buffers
      BY <3>1, <3>5 DEF Move, Copy
    <3>6. ASSUME NEW m, Destroy(m) \/ Send(m) \/ Receive(m) \/ Read(m) \/ Reset(m)
          PROVE  given' \subseteq Buffers
      BY <3>1, <3>6 DEF Destroy, Send, Receive, Read, Reset, Steps
    <3>7. ASSUME Gone \/ UNCHANGED vars  PROVE given' \subseteq Buffers
      BY <3>1, <3>7 DEF Gone, vars
    <3> QED
      BY <3>2, <3>3, <3>4, <3>5, <3>6, <3>7 DEF Next
  <2> QED
    BY <2>1, ShapedNext, AccountedNext
<1>3. Shaped /\ Accounted /\ given \subseteq Buffers => ReleasedUnlessOverwritten
  <2> SUFFICES ASSUME Accounted, NEW b \in Buffers, b \in given, Rough = {}, Holders(b) = 0
               PROVE  released[b] = 1
    BY DEF ReleasedUnlessOverwritten, ReleasedWhenUnused, Rough
  <2>1. Account(0, refs[b], released[b], b, given, Rough)
    BY DEF Accounted
  <2> QED
    BY <2>1 DEF Account
<1> QED
  BY <1>1, <1>2, <1>3, PTL DEF Spec
===============================================================================
