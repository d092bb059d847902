---------------------------- MODULE PollTableProofs ----------------------------
(***************************************************************************)
(* What the operations on a poller value preserve, for every set of        *)
(* sockets, descriptors and masks.  PollerProofs, LoopProofs and          *)
(* ReactorProofs cite these lemmas.                                        *)
(***************************************************************************)
EXTENDS PollTable, Lists, FiniteSetTheorems, FunctionTheorems, TLAPS

(* The fields of an item at a position of a well-formed vector. *)
LEMMA ItemFields ==
  ASSUME NEW s \in Seq(Item), NEW i \in 1..Len(s)
  PROVE  /\ s[i] \in Item
         /\ s[i].key \in Keys
         /\ s[i].events \in SUBSET Flags
         /\ s[i].revents \in SUBSET Flags
<1>1. s[i] \in Item
  OBVIOUS
<1> QED
  BY <1>1 DEF Item

(* A new poller is well formed and has no item. *)
LEMMA EmptyWellFormed ==
  /\ EmptyPoller \in Pollers
  /\ Sound(EmptyPoller)
  /\ Complete(EmptyPoller)
BY DEF EmptyPoller, Pollers, Sound, Complete, PollerHas, Absent, Item

(* add keeps the entries sound, and complete when the key had none. *)
LEMMA AddWellFormed ==
  ASSUME NEW p \in Pollers, NEW k \in Keys, NEW mask \in SUBSET Flags, Sound(p)
  PROVE  /\ PollerAdd(p, k, mask) \in Pollers
         /\ Sound(PollerAdd(p, k, mask))
         /\ Complete(p) /\ ~PollerHas(p, k) => Complete(PollerAdd(p, k, mask))
<1> DEFINE it == [key |-> k, events |-> mask, revents |-> {}]
           q  == PollerAdd(p, k, mask)
<1>1. it \in Item
  BY DEF Item
<1>2. q = [items |-> Append(p.items, it), index |-> [p.index EXCEPT ![k] = Len(p.items) + 1]]
  BY DEF PollerAdd
<1>3. p.items \in Seq(Item) /\ p.index \in [Keys -> Nat]
  BY DEF Pollers
<1> HIDE DEF it, q
<1>4. q.items = Append(p.items, it) /\ q.index = [p.index EXCEPT ![k] = Len(p.items) + 1]
  BY <1>2
<1>5. q.items \in Seq(Item) /\ q.index \in [Keys -> Nat]
  BY <1>1, <1>3, <1>4
<1>6. it.key = k
  BY DEF it
<1>7. Sound(q)
  BY <1>3, <1>4, <1>5, <1>6, <1>1 DEF Sound, PollerHas, Absent
<1>8. ASSUME Complete(p), ~PollerHas(p, k)  PROVE Complete(q)
  <2>1. \A i \in 1..Len(p.items) : p.items[i].key # k
    BY <1>8, <1>3 DEF Complete, PollerHas, Absent
  <2>2. \A i \in 1..Len(p.items) : p.items[i].key \in Keys
    BY <1>3, ItemFields
  <2> QED
    BY <1>8, <1>3, <1>4, <1>5, <1>6, <2>1, <2>2, <1>1 DEF Complete
<1> QED
  BY <1>2, <1>5, <1>7, <1>8 DEF Pollers, q

(* Swapping the last item into the hole, popping and erasing the entry. *)
LEMMA SwapAndPopShape ==
  ASSUME NEW p \in Pollers, NEW k \in Keys, Sound(p), PollerHas(p, k),
         NEW q, q = SwapAndPop(p, k)
  PROVE  /\ p.index[k] \in 1..Len(p.items)
         /\ p.items[p.index[k]].key = k
         /\ q \in Pollers
         /\ Len(q.items) = Len(p.items) - 1
         /\ q.index = [p.index EXCEPT ![k] = Absent]
         /\ \A i \in 1..Len(q.items) :
              q.items[i] = IF i = p.index[k] THEN p.items[Len(p.items)] ELSE p.items[i]
<1> DEFINE n == p.index[k]
           last == Len(p.items)
           its == [i \in 1..(last - 1) |-> IF i = n THEN p.items[last] ELSE p.items[i]]
<1>1. p.items \in Seq(Item) /\ p.index \in [Keys -> Nat] /\ last \in Nat
  BY DEF Pollers
<1>2. n \in 1..last /\ p.items[n].key = k
  BY <1>1 DEF Sound, PollerHas, Absent
<1>3. its \in Seq(Item) /\ Len(its) = last - 1
  <2>1. \A i \in 1..(last - 1) : its[i] \in Item
    BY <1>1, <1>2
  <2>2. last - 1 \in Nat
    BY <1>1, <1>2
  <2>3. its \in [1..(last - 1) -> Item]
    BY <2>1
  <2> HIDE DEF its
  <2> QED
    BY <2>2, <2>3
<1>4. q = [items |-> its, index |-> [p.index EXCEPT ![k] = Absent]]
  BY DEF SwapAndPop
<1>5. [p.index EXCEPT ![k] = Absent] \in [Keys -> Nat]
  BY <1>1 DEF Absent
<1> QED
  BY <1>2, <1>3, <1>4, <1>5 DEF Pollers

(* remove keeps the entries sound, and complete when they were: then it     *)
(* never throws, and it takes out the key and no other.                     *)
LEMMA RemoveWellFormed ==
  ASSUME NEW p \in Pollers, NEW k \in Keys, Sound(p)
  PROVE  /\ PollerRemove(p, k) \in Pollers
         /\ Sound(PollerRemove(p, k))
         /\ ~PollerHas(PollerRemove(p, k), k)
         /\ Len(PollerRemove(p, k).items) <= Len(p.items)
         /\ Complete(p) => Complete(PollerRemove(p, k)) /\ ~RemoveThrows(p, k)
<1>1. CASE ~PollerHas(p, k)
  BY <1>1 DEF PollerRemove, RemoveThrows, Pollers
<1>2. CASE PollerHas(p, k)
  <2> DEFINE n == p.index[k]
             last == Len(p.items)
             q == SwapAndPop(p, k)
             m == p.items[last].key
  <2>1. p.items \in Seq(Item) /\ p.index \in [Keys -> Nat] /\ last \in Nat
    BY DEF Pollers
  <2>2. /\ n \in 1..last
        /\ p.items[n].key = k
        /\ q \in Pollers
        /\ Len(q.items) = last - 1
        /\ q.index = [p.index EXCEPT ![k] = Absent]
        /\ \A i \in 1..(last - 1) :
             q.items[i] = IF i = n THEN p.items[last] ELSE p.items[i]
    BY <1>2, SwapAndPopShape
  <2>3. m \in Keys
    BY <2>1, <2>2, ItemFields
  <2>4. \A j \in Keys : PollerHas(p, j) =>
           p.index[j] \in 1..last /\ p.items[p.index[j]].key = j
    BY <2>1 DEF Sound, PollerHas, Absent
  <2>5. q.items \in Seq(Item) /\ q.index \in [Keys -> Nat]
    BY <2>2 DEF Pollers
  <2>8. \A i \in 1..(last - 1) : i # n => q.items[i] = p.items[i]
    BY <2>2
  <2> HIDE DEF q
  <2>6. CASE n = last
    <3>1. PollerRemove(p, k) = q /\ ~RemoveThrows(p, k)
      BY <1>2, <2>6 DEF PollerRemove, RemoveThrows, q
    <3>2. Sound(q) /\ ~PollerHas(q, k)
      BY <2>1, <2>2, <2>4, <2>5, <2>6 DEF Sound, PollerHas, Absent
    <3>3. Complete(p) => Complete(q)
      <4> SUFFICES ASSUME Complete(p), NEW i \in 1..(last - 1)
                   PROVE  q.index[q.items[i].key] = i
        BY <2>1, <2>2 DEF Complete
      <4>1. q.items[i] = p.items[i] /\ p.items[i].key \in Keys /\ i \in 1..last
        BY <2>1, <2>2, <2>6, ItemFields
      <4>2. p.index[p.items[i].key] = i
        BY <4>1 DEF Complete
      <4>3. p.items[i].key # k
        BY <2>6, <4>2
      <4> QED
        BY <2>1, <2>2, <4>1, <4>2, <4>3
    <3> QED
      BY <2>1, <2>2, <3>1, <3>2, <3>3
  <2>7. CASE n # last
    <3>1. q.items[n].key = m /\ n \in 1..(last - 1)
      BY <2>1, <2>2, <2>7
    <3>2. PollerRemove(p, k) = Reindex(q, n) /\ (RemoveThrows(p, k) <=> ReindexThrows(q, n))
      BY <1>2, <2>7 DEF PollerRemove, RemoveThrows, q
    <3>3. ReindexThrows(q, n) <=> m = k \/ ~PollerHas(p, m)
      BY <2>1, <2>2, <2>3, <3>1 DEF ReindexThrows, PollerHas, Absent
    <3>4. CASE ReindexThrows(q, n)
      <4>1. PollerRemove(p, k) = q
        BY <3>2, <3>4 DEF Reindex
      <4>2. Sound(q) /\ ~PollerHas(q, k)
        <5>1. ~PollerHas(q, k)
          BY <2>1, <2>2 DEF PollerHas, Absent
        <5>2. ASSUME NEW j \in Keys, PollerHas(q, j)
              PROVE  q.index[j] <= last - 1 /\ q.items[q.index[j]].key = j
          <6>1. j # k /\ q.index[j] = p.index[j] /\ PollerHas(p, j)
            BY <2>1, <2>2, <5>1, <5>2 DEF PollerHas
          <6>2. p.index[j] \in 1..last /\ p.items[p.index[j]].key = j
            BY <2>4, <6>1
          <6>3. p.index[j] # n /\ p.index[j] # last
            BY <2>2, <3>3, <3>4, <6>1, <6>2
          <6>4. p.index[j] \in 1..(last - 1)
            BY <2>1, <6>2, <6>3
          <6>5. q.items[p.index[j]] = p.items[p.index[j]]
            BY <2>8, <6>3, <6>4
          <6>6. p.index[j] <= last - 1
            BY <6>4
          <6> QED
            BY <6>1, <6>2, <6>5, <6>6
        <5>3. Len(q.items) = last - 1
          BY <2>2
        <5>4. Sound(q)
          BY <5>2, <5>3 DEF Sound
        <5> QED
          BY <5>1, <5>4
      <4>3. ~Complete(p)
        BY <2>1, <2>2, <2>7, <3>3, <3>4 DEF Complete, PollerHas, Absent
      <4> QED
        BY <2>1, <2>2, <4>1, <4>2, <4>3
    <3>5. CASE ~ReindexThrows(q, n)
      <4> DEFINE r == [items |-> q.items, index |-> [q.index EXCEPT ![m] = n]]
      <4>1. PollerRemove(p, k) = r
        BY <3>1, <3>2, <3>5 DEF Reindex
      <4>2. r.items = q.items /\ r.index = [q.index EXCEPT ![m] = n]
        BY <2>2 DEF Pollers
      <4>3. r \in Pollers /\ r.index \in [Keys -> Nat]
        BY <2>2, <2>3, <2>5, <3>1 DEF Pollers
      <4> HIDE DEF r
      <4>4. Sound(r) /\ ~PollerHas(r, k)
        <5>1. m # k /\ PollerHas(p, m)
          BY <3>3, <3>5
        <5>2. r.index[m] = n /\ \A j \in Keys \ {m} : r.index[j] = q.index[j]
          BY <2>3, <2>5, <4>2
        <5>3. r.index[k] = Absent /\ \A j \in Keys \ {k, m} : r.index[j] = p.index[j]
          BY <2>1, <2>2, <5>1, <5>2
        <5>4. ASSUME NEW j \in Keys, PollerHas(r, j)
              PROVE  r.index[j] <= last - 1 /\ q.items[r.index[j]].key = j
          <6>1. CASE j = m
            BY <2>1, <3>1, <5>2, <6>1
          <6>2. CASE j # m
            <7>1. j # k /\ r.index[j] = p.index[j] /\ PollerHas(p, j)
              BY <5>3, <5>4, <6>2 DEF PollerHas
            <7>2. p.index[j] \in 1..last /\ p.items[p.index[j]].key = j
              BY <2>4, <7>1
            <7>3. p.index[j] # n /\ p.index[j] # last
              BY <2>2, <6>2, <7>1, <7>2
            <7>4. p.index[j] \in 1..(last - 1)
              BY <2>1, <7>2, <7>3
            <7>5. q.items[p.index[j]] = p.items[p.index[j]]
              BY <2>8, <7>3, <7>4
            <7>6. p.index[j] <= last - 1
              BY <7>4
            <7> QED
              BY <7>1, <7>2, <7>5, <7>6
          <6> QED
            BY <6>1, <6>2
        <5>5. Len(r.items) = last - 1 /\ r.items = q.items
          BY <2>2, <4>2
        <5>6. Sound(r)
          BY <5>4, <5>5 DEF Sound
        <5>7. ~PollerHas(r, k)
          BY <5>3 DEF PollerHas
        <5> QED
          BY <5>6, <5>7
      <4>5. Complete(p) => Complete(r)
        <5> SUFFICES ASSUME Complete(p), NEW i \in 1..(last - 1)
                     PROVE  r.index[q.items[i].key] = i
          BY <2>1, <2>2, <4>2 DEF Complete
        <5>1. r.index[m] = n /\ \A j \in Keys \ {m} : r.index[j] = q.index[j]
          BY <2>3, <2>5, <4>2
        <5>2. CASE i = n
          BY <3>1, <5>1, <5>2
        <5>3. CASE i # n
          <6>1. q.items[i] = p.items[i] /\ p.items[i].key \in Keys /\ i \in 1..last
            BY <2>1, <2>2, <5>3, ItemFields
          <6>2. p.index[p.items[i].key] = i /\ p.index[m] = last
            BY <2>2, <6>1 DEF Complete
          <6>3. p.items[i].key # m /\ p.items[i].key # k
            BY <5>3, <6>2
          <6> QED
            BY <2>1, <2>2, <5>1, <6>1, <6>2, <6>3
        <5> QED
          BY <5>2, <5>3
      <4> QED
        BY <2>1, <2>2, <3>2, <3>5, <4>1, <4>2, <4>3, <4>4, <4>5
    <3> QED
      BY <3>4, <3>5
  <2> QED
    BY <2>6, <2>7
<1> QED
  BY <1>1, <1>2

(* check_for changes what an item asks for and no key or entry. *)
LEMMA CheckForWellFormed ==
  ASSUME NEW p \in Pollers, NEW k \in Keys, NEW mask \in SUBSET Flags, Sound(p), PollerHas(p, k)
  PROVE  /\ PollerCheckFor(p, k, mask) \in Pollers
         /\ Sound(PollerCheckFor(p, k, mask))
         /\ Len(PollerCheckFor(p, k, mask).items) = Len(p.items)
         /\ Complete(p) => Complete(PollerCheckFor(p, k, mask))
<1> DEFINE q == PollerCheckFor(p, k, mask)
           n == p.index[k]
           it == [key |-> p.items[n].key, events |-> mask, revents |-> p.items[n].revents]
<1>1. p.items \in Seq(Item) /\ p.index \in [Keys -> Nat]
  BY DEF Pollers
<1>2. n \in 1..Len(p.items)
  BY <1>1 DEF Sound, PollerHas, Absent
<1>3. q = [items |-> [p.items EXCEPT ![n] = it], index |-> p.index]
  BY DEF PollerCheckFor
<1>4. it \in Item /\ it.key = p.items[n].key
  BY <1>1, <1>2, ItemFields DEF Item
<1> HIDE DEF it
<1>5. q.index = p.index /\ q.items = [p.items EXCEPT ![n] = it]
  BY <1>3
<1>6. q.items \in Seq(Item) /\ Len(q.items) = Len(p.items)
  BY <1>1, <1>2, <1>4, <1>5
<1>7. \A i \in 1..Len(p.items) : q.items[i].key = p.items[i].key
  BY <1>1, <1>2, <1>4, <1>5
<1>8. q \in Pollers
  BY <1>1, <1>3, <1>5, <1>6 DEF Pollers
<1> HIDE DEF q
<1>9. Sound(q) /\ (Complete(p) => Complete(q))
  BY <1>1, <1>5, <1>6, <1>7 DEF Sound, Complete, PollerHas, Absent
<1> QED
  BY <1>6, <1>8, <1>9 DEF q

(* zmq_poll writes revents only. *)
LEMMA RaiseWellFormed ==
  ASSUME NEW p \in Pollers, Sound(p), NEW rev \in [DOMAIN p.items -> SUBSET Flags]
  PROVE  /\ PollerRaise(p, rev) \in Pollers
         /\ Sound(PollerRaise(p, rev))
         /\ Len(PollerRaise(p, rev).items) = Len(p.items)
         /\ Complete(p) => Complete(PollerRaise(p, rev))
<1> DEFINE q == PollerRaise(p, rev)
           its == [i \in DOMAIN p.items |->
                     [key |-> p.items[i].key, events |-> p.items[i].events, revents |-> rev[i]]]
<1>1. p.items \in Seq(Item) /\ p.index \in [Keys -> Nat] /\ DOMAIN p.items = 1..Len(p.items)
  BY DEF Pollers
<1>2. q = [items |-> its, index |-> p.index]
  BY DEF PollerRaise
<1>3. \A i \in 1..Len(p.items) : its[i] \in Item /\ its[i].key = p.items[i].key
  BY <1>1, ItemFields DEF Item
<1>4. its \in Seq(Item) /\ Len(its) = Len(p.items)
  <2>1. its \in [1..Len(p.items) -> Item]
    BY <1>1, <1>3
  <2>2. Len(p.items) \in Nat
    BY <1>1
  <2> HIDE DEF its
  <2> QED
    BY <2>1, <2>2
<1> HIDE DEF its
<1>5. q.items = its /\ q.index = p.index
  BY <1>2
<1>6. q \in Pollers
  BY <1>1, <1>2, <1>4 DEF Pollers
<1> HIDE DEF q
<1>7. Sound(q) /\ (Complete(p) => Complete(q))
  BY <1>1, <1>3, <1>4, <1>5 DEF Sound, Complete, PollerHas, Absent
<1> QED
  BY <1>4, <1>5, <1>6, <1>7 DEF q

-------------------------------------------------------------------------------
(* The effect of the operations on what a caller sees. *)

(* Adding a key with no entry watches that key and disturbs no other. *)
LEMMA AddMaps ==
  ASSUME NEW p \in Pollers, NEW k \in Keys, NEW mask \in SUBSET Flags,
         Sound(p), ~PollerHas(p, k), NEW q, q = PollerAdd(p, k, mask)
  PROVE  /\ WatchedIn(q) = WatchedIn(p) \cup {k}
         /\ InterestIn(q) = [InterestIn(p) EXCEPT ![k] = mask]
         /\ RaisedIn(q) = [RaisedIn(p) EXCEPT ![k] = {}]
<1> DEFINE it == [key |-> k, events |-> mask, revents |-> {}]
<1>1. p.items \in Seq(Item) /\ p.index \in [Keys -> Nat] /\ Len(p.items) \in Nat
  BY DEF Pollers
<1>2. it \in Item /\ it.events = mask /\ it.revents = {}
  BY DEF Item
<1>3. q.items = Append(p.items, it) /\ q.index = [p.index EXCEPT ![k] = Len(p.items) + 1]
  BY DEF PollerAdd
<1> HIDE DEF it
<1>4. q.index[k] = Len(p.items) + 1 /\ q.items[Len(p.items) + 1] = it
  BY <1>1, <1>2, <1>3
<1>5. \A j \in Keys \ {k} :
         /\ PollerHas(q, j) <=> PollerHas(p, j)
         /\ PollerHas(p, j) => q.items[q.index[j]] = p.items[p.index[j]]
  <2> TAKE j \in Keys \ {k}
  <2>1. q.index[j] = p.index[j]
    BY <1>1, <1>3
  <2>2. PollerHas(p, j) => p.index[j] \in 1..Len(p.items)
    BY <1>1 DEF Sound, PollerHas, Absent
  <2> QED
    BY <1>1, <1>2, <1>3, <2>1, <2>2 DEF PollerHas
<1>6. PollerHas(q, k)
  BY <1>1, <1>4 DEF PollerHas, Absent
<1> QED
  BY <1>2, <1>4, <1>5, <1>6 DEF WatchedIn, InterestIn, RaisedIn

(* remove leaves every other key's item as it was, wherever it is now. *)
LEMMA RemoveMoves ==
  ASSUME NEW p \in Pollers, NEW k \in Keys, Sound(p), Complete(p),
         NEW r, r = PollerRemove(p, k), NEW j \in Keys \ {k}
  PROVE  /\ PollerHas(r, j) <=> PollerHas(p, j)
         /\ PollerHas(p, j) => r.items[r.index[j]] = p.items[p.index[j]]
<1>1. CASE ~PollerHas(p, k)
  BY <1>1 DEF PollerRemove
<1>2. CASE PollerHas(p, k)
  <2> DEFINE n == p.index[k]
             last == Len(p.items)
             q == SwapAndPop(p, k)
             m == p.items[last].key
  <2>1. p.items \in Seq(Item) /\ p.index \in [Keys -> Nat] /\ last \in Nat
    BY DEF Pollers
  <2> HIDE DEF q
  <2>0. q = SwapAndPop(p, k)
    BY DEF q
  <2>2. /\ n \in 1..last
        /\ p.items[n].key = k
        /\ q \in Pollers
        /\ Len(q.items) = last - 1
        /\ q.index = [p.index EXCEPT ![k] = Absent]
        /\ \A i \in 1..(last - 1) :
             q.items[i] = IF i = n THEN p.items[last] ELSE p.items[i]
    <3>1. /\ n \in 1..last
          /\ p.items[n].key = k
          /\ q \in Pollers
          /\ Len(q.items) = last - 1
          /\ q.index = [p.index EXCEPT ![k] = Absent]
      BY <1>2, <2>0, SwapAndPopShape
    <3>2. \A i \in 1..(last - 1) :
             q.items[i] = IF i = n THEN p.items[last] ELSE p.items[i]
      BY <2>0 DEF SwapAndPop
    <3> QED
      BY <3>1, <3>2
  <2>3. m \in Keys /\ p.index[m] = last
    BY <2>1, <2>2, ItemFields DEF Complete
  <2>4. q.index[j] = p.index[j]
    BY <2>1, <2>2
  <2>5. PollerHas(p, j) => p.index[j] \in 1..last /\ p.items[p.index[j]].key = j
    BY <2>1 DEF Sound, PollerHas, Absent
  <2>6. PollerHas(p, j) => p.index[j] # n
    BY <2>2, <2>5
  <2>7. q.items \in Seq(Item) /\ q.index \in [Keys -> Nat]
    BY <2>2 DEF Pollers
  <2>8. CASE n = last
    <3>1. r = q
      BY <1>2, <2>8 DEF PollerRemove, q
    <3>2. PollerHas(p, j) => p.index[j] \in 1..(last - 1)
      BY <2>1, <2>5, <2>6, <2>8
    <3> QED
      BY <2>2, <2>4, <2>6, <3>1, <3>2 DEF PollerHas
  <2>9. CASE n # last
    <3>1. q.items[n].key = m /\ n \in 1..(last - 1) /\ m # k
      BY <2>1, <2>2, <2>3, <2>9
    <3>2. PollerHas(q, m)
      BY <2>1, <2>2, <2>3, <3>1 DEF PollerHas, Absent
    <3>3. r.items = q.items /\ r.index = [q.index EXCEPT ![m] = n]
      BY <1>2, <2>9, <3>1, <3>2 DEF PollerRemove, Reindex, ReindexThrows, q
    <3>4. CASE j = m
      <4>1. r.index[j] = n
        BY <2>7, <3>3, <3>4
      <4>2. r.items[n] = p.items[last]
        BY <2>2, <3>1, <3>3
      <4> QED
        BY <2>1, <2>2, <2>3, <3>1, <3>4, <4>1, <4>2 DEF PollerHas, Absent
    <3>5. CASE j # m
      <4>1. r.index[j] = p.index[j]
        BY <2>4, <2>7, <3>3, <3>5
      <4>2. PollerHas(p, j) => p.index[j] \in 1..(last - 1)
        BY <2>1, <2>3, <2>5, <3>5
      <4> QED
        BY <2>2, <2>6, <3>3, <4>1, <4>2 DEF PollerHas
    <3> QED
      BY <3>4, <3>5
  <2> QED
    BY <2>8, <2>9
<1> QED
  BY <1>1, <1>2

(* What poller::remove does to the index. *)
LEMMA RemoveMaps ==
  ASSUME NEW p \in Pollers, NEW k \in Keys, Sound(p), Complete(p),
         NEW r, r = PollerRemove(p, k)
  PROVE  /\ WatchedIn(r) = WatchedIn(p) \ {k}
         /\ InterestIn(r) = [InterestIn(p) EXCEPT ![k] = {}]
         /\ RaisedIn(r) = [RaisedIn(p) EXCEPT ![k] = {}]
<1>1. ~PollerHas(r, k)
  BY RemoveWellFormed
<1>2. \A j \in Keys \ {k} :
         /\ PollerHas(r, j) <=> PollerHas(p, j)
         /\ PollerHas(p, j) => r.items[r.index[j]] = p.items[p.index[j]]
  BY RemoveMoves
<1> QED
  BY <1>1, <1>2 DEF WatchedIn, InterestIn, RaisedIn

(* Whatever the items are, add and remove change who is watched in one key. *)
LEMMA WatchedMaps ==
  ASSUME NEW p \in Pollers, NEW k \in Keys, Sound(p)
  PROVE  /\ \A mask : WatchedIn(PollerAdd(p, k, mask)) = WatchedIn(p) \cup {k}
         /\ WatchedIn(PollerRemove(p, k)) = WatchedIn(p) \ {k}
<1>1. p.items \in Seq(Item) /\ p.index \in [Keys -> Nat] /\ Len(p.items) \in Nat
  BY DEF Pollers
<1>2. ASSUME NEW mask  PROVE WatchedIn(PollerAdd(p, k, mask)) = WatchedIn(p) \cup {k}
  <2>1. PICK q : q = PollerAdd(p, k, mask)
    OBVIOUS
  <2>2. q.index = [p.index EXCEPT ![k] = Len(p.items) + 1]
    BY <2>1 DEF PollerAdd
  <2> QED
    BY <1>1, <2>1, <2>2 DEF WatchedIn, PollerHas, Absent
<1>3. WatchedIn(PollerRemove(p, k)) = WatchedIn(p) \ {k}
  <2>1. CASE ~PollerHas(p, k)
    BY <2>1 DEF PollerRemove, WatchedIn
  <2>2. CASE PollerHas(p, k)
    <3>1. PICK q : q = SwapAndPop(p, k)
      OBVIOUS
    <3>2. p.index[k] \in 1..Len(p.items) /\ q.index = [p.index EXCEPT ![k] = Absent]
      BY <2>2, <3>1, SwapAndPopShape
    <3>3. WatchedIn(q) = WatchedIn(p) \ {k}
      BY <1>1, <3>2 DEF WatchedIn, PollerHas
    <3>4. PICK m : m = q.items[p.index[k]].key
      OBVIOUS
    <3>5. WatchedIn(Reindex(q, p.index[k])) = WatchedIn(q)
      <4>1. CASE ~PollerHas(q, m)
        BY <3>4, <4>1 DEF Reindex, ReindexThrows
      <4>2. CASE PollerHas(q, m)
        <5>1. PICK r : r = Reindex(q, p.index[k])
          OBVIOUS
        <5>2. r.index = [q.index EXCEPT ![m] = p.index[k]]
          BY <3>4, <4>2, <5>1 DEF Reindex, ReindexThrows
        <5> QED
          BY <1>1, <3>2, <4>2, <5>1, <5>2 DEF WatchedIn, PollerHas, Absent
      <4> QED
        BY <4>1, <4>2
    <3>6. PollerRemove(p, k) = q \/ PollerRemove(p, k) = Reindex(q, p.index[k])
      BY <2>2, <3>1 DEF PollerRemove
    <3> QED
      BY <3>3, <3>5, <3>6
  <2> QED
    BY <2>1, <2>2
<1> QED
  BY <1>2, <1>3

(* check_for changes one key's interest: two keys never share an item. *)
LEMMA CheckForMaps ==
  ASSUME NEW p \in Pollers, NEW k \in Keys, NEW mask \in SUBSET Flags,
         Sound(p), PollerHas(p, k), NEW q, q = PollerCheckFor(p, k, mask)
  PROVE  /\ WatchedIn(q) = WatchedIn(p)
         /\ InterestIn(q) = [InterestIn(p) EXCEPT ![k] = mask]
         /\ RaisedIn(q) = RaisedIn(p)
<1> DEFINE n == p.index[k]
           it == [key |-> p.items[n].key, events |-> mask, revents |-> p.items[n].revents]
<1>1. p.items \in Seq(Item) /\ p.index \in [Keys -> Nat]
  BY DEF Pollers
<1>2. \A j \in Keys : PollerHas(p, j) =>
         p.index[j] \in 1..Len(p.items) /\ p.items[p.index[j]].key = j
  BY <1>1 DEF Sound, PollerHas, Absent
<1>3. q.index = p.index /\ q.items = [p.items EXCEPT ![n] = it]
  BY DEF PollerCheckFor
<1>4. it.events = mask /\ it.revents = p.items[n].revents
  OBVIOUS
<1> HIDE DEF it
<1>5. \A j \in Keys : PollerHas(q, j) <=> PollerHas(p, j)
  BY <1>3 DEF PollerHas
<1>6. q.items[q.index[k]] = it
  BY <1>1, <1>2, <1>3
<1>7. \A j \in Keys \ {k} : PollerHas(p, j) => q.items[q.index[j]] = p.items[p.index[j]]
  <2> SUFFICES ASSUME NEW j \in Keys \ {k}, PollerHas(p, j)
               PROVE  q.items[q.index[j]] = p.items[p.index[j]]
    OBVIOUS
  <2>1. p.index[j] \in 1..Len(p.items) /\ p.index[j] # n
    BY <1>2
  <2> QED
    BY <1>1, <1>3, <2>1
<1>8. WatchedIn(q) = WatchedIn(p)
  BY <1>5 DEF WatchedIn
<1>9. InterestIn(q) = [InterestIn(p) EXCEPT ![k] = mask]
  BY <1>4, <1>5, <1>6, <1>7 DEF InterestIn
<1>10. RaisedIn(q) = RaisedIn(p)
  BY <1>4, <1>5, <1>6, <1>7 DEF RaisedIn
<1> QED
  BY <1>8, <1>9, <1>10

(* zmq_poll changes what is raised: for each key, what it wrote to its item. *)
LEMMA RaiseMaps ==
  ASSUME NEW p \in Pollers, Sound(p), NEW rev \in [DOMAIN p.items -> SUBSET Flags],
         NEW q, q = PollerRaise(p, rev)
  PROVE  /\ WatchedIn(q) = WatchedIn(p)
         /\ InterestIn(q) = InterestIn(p)
         /\ RaisedIn(q) = [k \in Keys |-> IF PollerHas(p, k) THEN rev[p.index[k]] ELSE {}]
<1>1. p.items \in Seq(Item) /\ p.index \in [Keys -> Nat] /\ DOMAIN p.items = 1..Len(p.items)
  BY DEF Pollers
<1>2. \A k \in Keys : PollerHas(p, k) => p.index[k] \in DOMAIN p.items
  BY <1>1 DEF Sound, PollerHas, Absent
<1>3. q.index = p.index
  BY DEF PollerRaise
<1>4. \A i \in DOMAIN p.items : q.items[i].events = p.items[i].events /\ q.items[i].revents = rev[i]
  BY DEF PollerRaise
<1>5. \A k \in Keys : PollerHas(q, k) <=> PollerHas(p, k)
  BY <1>3 DEF PollerHas
<1> QED
  BY <1>2, <1>3, <1>4, <1>5 DEF WatchedIn, InterestIn, RaisedIn

(* A poller whose every item is reached has as many as it watches keys.    *)
LEMMA CompleteLength ==
  ASSUME NEW p \in Pollers, Sound(p), Complete(p)
  PROVE  /\ Len(p.items) = Cardinality(WatchedIn(p))
         /\ \A i \in DOMAIN p.items : p.items[i].key \in WatchedIn(p)
<1> DEFINE f == [i \in 1..Len(p.items) |-> p.items[i].key]
<1>1. /\ p.items \in Seq(Item) /\ p.index \in [Keys -> Nat] /\ DOMAIN p.items = 1..Len(p.items)
      /\ Len(p.items) \in Nat
  BY DEF Pollers
<1>2. \A i \in 1..Len(p.items) : p.items[i].key \in Keys /\ p.index[p.items[i].key] = i
  BY <1>1, ItemFields DEF Complete
<1>3. \A i \in 1..Len(p.items) : p.items[i].key \in WatchedIn(p)
  BY <1>1, <1>2 DEF WatchedIn, PollerHas, Absent
<1>4. \A k \in WatchedIn(p) : p.index[k] \in 1..Len(p.items) /\ p.items[p.index[k]].key = k
  BY <1>1 DEF WatchedIn, Sound, PollerHas, Absent
<1>5. f \in [1..Len(p.items) -> WatchedIn(p)]
  BY <1>3
<1>6. \A a, b \in 1..Len(p.items) : f[a] = f[b] => a = b
  BY <1>2
<1>7. \A k \in WatchedIn(p) : \E i \in 1..Len(p.items) : f[i] = k
  BY <1>4
<1>8. f \in Bijection(1..Len(p.items), WatchedIn(p))
  BY <1>5, <1>6, <1>7, Fun_IsBij
<1>9. IsFiniteSet(1..Len(p.items)) /\ Cardinality(1..Len(p.items)) = Len(p.items)
  BY <1>1, FS_Interval
<1>10. Cardinality(WatchedIn(p)) = Cardinality(1..Len(p.items))
  BY <1>8, <1>9, FS_Bijection DEF ExistsBijection
<1> QED
  BY <1>1, <1>3, <1>9, <1>10

-------------------------------------------------------------------------------
(* The lists that Loop and Reactor erase from. *)

(* R orders S strictly and totally. *)
Orders(R, S) ==
  /\ \A i \in S : <<i, i>> \notin R
  /\ \A i, j \in S : i # j => <<i, j>> \in R \/ <<j, i>> \in R
  /\ \A i, j, k \in S : <<i, j>> \in R /\ <<j, k>> \in R => <<i, k>> \in R

(* Where R puts each element of S. *)
Placed(place, R, S) == place = [i \in S |-> 1 + Cardinality({j \in S : <<j, i>> \in R})]

(* A place in a finite set under a strict total order R, counted by what   *)
(* comes before, is taken by one element, and every place is.              *)
LEMMA PlacesAreTaken ==
  ASSUME NEW S, IsFiniteSet(S), NEW R, Orders(R, S),
         NEW place, Placed(place, R, S)
  PROVE  /\ place \in Injection(S, 1..Cardinality(S))
         /\ \A n \in 1..Cardinality(S) : \E i \in S : place[i] = n
         /\ \A i, j \in S : <<i, j>> \in R <=> place[i] < place[j]
<1> DEFINE Before(i) == {j \in S : <<j, i>> \in R}
<1>0. /\ \A i \in S : <<i, i>> \notin R
      /\ \A i, j \in S : i # j => <<i, j>> \in R \/ <<j, i>> \in R
      /\ \A i, j, k \in S : <<i, j>> \in R /\ <<j, k>> \in R => <<i, k>> \in R
  BY DEF Orders
<1>1. \A i \in S : /\ IsFiniteSet(Before(i)) /\ Cardinality(Before(i)) \in Nat
                   /\ Cardinality(Before(i)) < Cardinality(S)
  <2> SUFFICES ASSUME NEW i \in S
               PROVE  /\ IsFiniteSet(Before(i)) /\ Cardinality(Before(i)) \in Nat
                      /\ Cardinality(Before(i)) < Cardinality(S)
    OBVIOUS
  <2>1. Before(i) \in SUBSET S /\ Before(i) # S
    BY <1>0
  <2>2. /\ IsFiniteSet(Before(i)) /\ Cardinality(Before(i)) <= Cardinality(S)
        /\ Cardinality(S) # Cardinality(Before(i))
    BY <2>1, FS_Subset
  <2>3. Cardinality(S) \in Nat /\ Cardinality(Before(i)) \in Nat
    BY <2>2, FS_CardinalityType
  <2> QED
    BY <2>2, <2>3
<1>2. ASSUME NEW i \in S, NEW j \in S, <<i, j>> \in R
      PROVE  Cardinality(Before(i)) < Cardinality(Before(j))
  <2>1. Before(i) \in SUBSET Before(j) /\ i \in Before(j) /\ i \notin Before(i)
    BY <1>0, <1>2
  <2>2. /\ Cardinality(Before(i)) <= Cardinality(Before(j))
        /\ Cardinality(Before(i)) # Cardinality(Before(j))
    BY <1>1, <2>1, FS_Subset
  <2> HIDE DEF Before
  <2> QED
    BY <1>1, <2>2
<1>3. /\ \A i \in S : place[i] = 1 + Cardinality(Before(i))
      /\ place = [i \in S |-> place[i]]
  BY DEF Placed
<1> HIDE DEF Before
<1>4. Cardinality(S) \in Nat
  BY FS_CardinalityType
<1>5. \A i \in S : place[i] \in 1..Cardinality(S)
  BY <1>1, <1>3, <1>4
<1>6. \A i, j \in S : <<i, j>> \in R <=> place[i] < place[j]
  <2> SUFFICES ASSUME NEW i \in S, NEW j \in S  PROVE <<i, j>> \in R <=> place[i] < place[j]
    OBVIOUS
  <2>1. place[i] \in Nat /\ place[j] \in Nat
    BY <1>1, <1>3
  <2>2. <<i, j>> \in R => place[i] < place[j]
    BY <1>1, <1>2, <1>3
  <2>3. <<j, i>> \in R => place[j] < place[i]
    BY <1>1, <1>2, <1>3
  <2>4. i # j => <<i, j>> \in R \/ <<j, i>> \in R
    BY <1>0
  <2> QED
    BY <2>1, <2>2, <2>3, <2>4
<1>7. place \in Injection(S, 1..Cardinality(S))
  <2>1. \A i, j \in S : place[i] = place[j] => i = j
    BY <1>0, <1>5, <1>6
  <2> QED
    BY <1>3, <1>5, <2>1, Fun_IsInj
<1>8. place \in Surjection(S, 1..Cardinality(S))
  <2>1. IsFiniteSet(1..Cardinality(S)) /\ Cardinality(1..Cardinality(S)) = Cardinality(S)
    BY <1>4, FS_Interval
  <2> QED
    BY <1>7, <2>1, FS_Injection
<1>9. \A n \in 1..Cardinality(S) : \E i \in S : place[i] = n
  BY <1>8 DEF Surjection
<1> QED
  BY <1>6, <1>7, <1>9

(* t is the elements of s at the positions P, in their order. *)
Picks(t, s, P) ==
  \E from \in [1..Len(t) -> P] :
    /\ \A n \in 1..Len(t) : t[n] = s[from[n]]
    /\ \A i \in P : \E n \in 1..Len(t) : from[n] = i
    /\ \A m, n \in 1..Len(t) : m < n => from[m] < from[n]

(* Erasing positions keeps the elements at the others, each once and in    *)
(* their order.                                                            *)
LEMMA OnlyShape ==
  ASSUME NEW A, NEW s \in Seq(A), NEW P \in SUBSET (DOMAIN s), NEW t, t = Only(s, P)
  PROVE  /\ t \in Seq(A) /\ IsFiniteSet(P) /\ Cardinality(P) \in Nat /\ Len(t) = Cardinality(P)
         /\ Picks(t, s, P)
<1> DEFINE R == {x \in P \X P : x[1] < x[2]}
           place == [i \in P |-> 1 + Cardinality({j \in P : <<j, i>> \in R})]
           from == [n \in 1..Cardinality(P) |-> CHOOSE i \in P : PlaceIn(P, i) = n]
<1>1. IsFiniteSet(P) /\ Cardinality(P) \in Nat /\ P \subseteq Int
  <2>1. DOMAIN s = 1..Len(s) /\ Len(s) \in Nat
    OBVIOUS
  <2>2. IsFiniteSet(DOMAIN s)
    BY <2>1, FS_Interval
  <2>3. IsFiniteSet(P)
    BY <2>2, FS_Subset
  <2> QED
    BY <2>1, <2>3, FS_CardinalityType
<1>2. \A i, j \in P : <<i, j>> \in R <=> i < j
  OBVIOUS
<1>3. /\ place \in Injection(P, 1..Cardinality(P))
      /\ \A n \in 1..Cardinality(P) : \E i \in P : place[i] = n
      /\ \A i, j \in P : <<i, j>> \in R <=> place[i] < place[j]
  <2>1. Orders(R, P)
    BY <1>1, <1>2 DEF Orders
  <2>2. Placed(place, R, P)
    BY DEF Placed
  <2> HIDE DEF R, place
  <2> QED
    BY <1>1, <2>1, <2>2, PlacesAreTaken
<1>4. \A i \in P : PlaceIn(P, i) = place[i]
  <2>1. \A i \in P : {j \in P : <<j, i>> \in R} = {j \in P : j < i}
    BY <1>2
  <2> QED
    BY <2>1 DEF PlaceIn
<1> HIDE DEF place, R
<1>5. \A i \in P : place[i] \in 1..Cardinality(P)
  BY <1>3 DEF Injection
<1>6. \A n \in 1..Cardinality(P) : from[n] \in P /\ place[from[n]] = n
  BY <1>3, <1>4
<1>7. \A i \in P : from[place[i]] = i
  BY <1>3, <1>5, <1>6 DEF Injection, IsInjective
<1>8. \A m, n \in 1..Cardinality(P) : m < n => from[m] < from[n]
  <2> SUFFICES ASSUME NEW m \in 1..Cardinality(P), NEW n \in 1..Cardinality(P), m < n
               PROVE  from[m] < from[n]
    OBVIOUS
  <2>1. from[m] \in P /\ from[n] \in P /\ place[from[m]] = m /\ place[from[n]] = n
    BY <1>6
  <2> HIDE DEF from
  <2>2. <<from[m], from[n]>> \in R
    BY <1>3, <2>1
  <2> QED
    BY <1>2, <2>1, <2>2
<1>9. t = [n \in 1..Cardinality(P) |-> s[from[n]]]
  BY DEF Only
<1> HIDE DEF from
<1>10. \A n \in 1..Cardinality(P) : s[from[n]] \in A
  BY <1>6
<1>11. t \in Seq(A) /\ Len(t) = Cardinality(P)
  BY <1>1, <1>9, <1>10
<1>12. from \in [1..Cardinality(P) -> P]
  BY <1>6 DEF from
<1>13. Picks(t, s, P)
  BY <1>5, <1>7, <1>8, <1>9, <1>11, <1>12 DEF Picks
<1> QED
  BY <1>1, <1>11, <1>13

(* A function on 1..n is a sequence. *)
LEMMA FunIsSeq ==
  ASSUME NEW A, NEW n \in Nat, NEW t \in [1..n -> A]
  PROVE  t \in Seq(A)
OBVIOUS

(* A sequence without repetition has as many elements as its length. *)
LEMMA DistinctLength ==
  ASSUME NEW A, NEW s \in Seq(A), \A i, j \in DOMAIN s : s[i] = s[j] => i = j
  PROVE  IsFiniteSet(Range(s)) /\ Cardinality(Range(s)) = Len(s)
<1>1. DOMAIN s = 1..Len(s) /\ Len(s) \in Nat
  OBVIOUS
<1>2. IsFiniteSet(DOMAIN s) /\ Cardinality(DOMAIN s) = Len(s)
  BY <1>1, FS_Interval
<1>3. s \in Bijection(DOMAIN s, Range(s))
  BY Fun_IsBij DEF Range
<1> QED
  BY <1>2, <1>3, FS_Bijection DEF ExistsBijection

(* What std::remove_if and erase leave. *)
LEMMA ErasedShape ==
  ASSUME NEW A, NEW s \in Seq(A), NEW x, NEW t, t = Erased(s, x)
  PROVE  /\ t \in Seq(A) /\ Range(t) = Range(s) \ {x} /\ Len(t) <= Len(s)
         /\ x \notin Range(s) => Len(t) = Len(s)
         /\ (\A i, j \in DOMAIN s : s[i] = s[j] => i = j)
              => \A i, j \in DOMAIN t : t[i] = t[j] => i = j
<1> DEFINE P == {i \in DOMAIN s : s[i] # x}
<1>0. /\ DOMAIN s = 1..Len(s) /\ Len(s) \in Nat
      /\ IsFiniteSet(DOMAIN s) /\ Cardinality(DOMAIN s) = Len(s)
  <2>1. DOMAIN s = 1..Len(s) /\ Len(s) \in Nat
    OBVIOUS
  <2> QED
    BY <2>1, FS_Interval
<1>1. P \in SUBSET (DOMAIN s) /\ t = Only(s, P)
  BY DEF Erased
<1>2. t \in Seq(A) /\ Len(t) = Cardinality(P) /\ Picks(t, s, P)
  <2> HIDE DEF P
  <2> QED
    BY <1>1, OnlyShape
<1>3. PICK from \in [1..Len(t) -> P] :
        /\ \A n \in 1..Len(t) : t[n] = s[from[n]]
        /\ \A i \in P : \E n \in 1..Len(t) : from[n] = i
        /\ \A m, n \in 1..Len(t) : m < n => from[m] < from[n]
  BY <1>2 DEF Picks
<1>4. DOMAIN t = 1..Len(t) /\ Len(t) \in Nat
  BY <1>2
<1>5. Range(t) = Range(s) \ {x}
  <2>1. ASSUME NEW y \in Range(t)  PROVE y \in Range(s) \ {x}
    <3>1. PICK n \in 1..Len(t) : y = t[n]
      BY <1>4 DEF Range
    <3> QED
      BY <1>3, <3>1 DEF Range
  <2>2. ASSUME NEW y \in Range(s) \ {x}  PROVE y \in Range(t)
    <3>1. PICK i \in P : y = s[i]
      BY DEF Range
    <3>2. PICK n \in 1..Len(t) : from[n] = i
      BY <1>3
    <3> QED
      BY <1>3, <1>4, <3>1, <3>2 DEF Range
  <2> QED
    BY <2>1, <2>2
<1>6. Len(t) <= Len(s)
  BY <1>0, <1>1, <1>2, FS_Subset
<1>7. x \notin Range(s) => P = DOMAIN s
  BY DEF Range
<1>8. ASSUME \A i, j \in DOMAIN s : s[i] = s[j] => i = j
      PROVE  \A i, j \in DOMAIN t : t[i] = t[j] => i = j
  <2>1. \A m, n \in 1..Len(t) : from[m] = from[n] => m = n
    <3>1. \A m \in 1..Len(t) : from[m] \in Int
      BY <1>0, <1>3
    <3> QED
      BY <1>3, <1>4, <3>1
  <2> QED
    BY <1>3, <1>4, <1>8, <2>1
<1> HIDE DEF P
<1> QED
  BY <1>0, <1>2, <1>5, <1>6, <1>7, <1>8

(* No element twice. *)
Distinct(s) == \A i, j \in DOMAIN s : s[i] = s[j] => i = j

(* t is s and then x, position by position. *)
Pushed(t, s, x) ==
  /\ Len(s) \in Nat /\ DOMAIN s = 1..Len(s) /\ DOMAIN t = 1..Len(s) + 1
  /\ t[Len(s) + 1] = x /\ \A i \in 1..Len(s) : t[i] = s[i]

(* What std::vector's push_back adds. *)
LEMMA PushedRange ==
  ASSUME NEW s, NEW x, NEW t, Pushed(t, s, x)
  PROVE  /\ Range(t) = Range(s) \cup {x}
         /\ Distinct(s) /\ x \notin Range(s) => Distinct(t)
<1>1. /\ DOMAIN s = 1..Len(s) /\ DOMAIN t = 1..Len(s) + 1 /\ Len(s) \in Nat
      /\ t[Len(s) + 1] = x /\ \A i \in 1..Len(s) : t[i] = s[i]
  BY DEF Pushed
<1>2. \A i \in 1..Len(s) + 1 : i \in 1..Len(s) \/ i = Len(s) + 1
  BY <1>1
<1>3. Range(t) = Range(s) \cup {x}
  BY <1>1, <1>2 DEF Range
<1>4. ASSUME Distinct(s), x \notin Range(s)  PROVE Distinct(t)
  BY <1>1, <1>2, <1>4 DEF Distinct, Range
<1> QED
  BY <1>3, <1>4

(* p is f and then s, position by position. *)
Joined(p, f, s) ==
  /\ Len(f) \in Nat /\ Len(s) \in Nat /\ DOMAIN f = 1..Len(f) /\ DOMAIN s = 1..Len(s)
  /\ DOMAIN p = 1..Len(f) + Len(s)
  /\ \A i \in 1..Len(f) : p[i] = f[i]
  /\ \A i \in 1..Len(s) : p[Len(f) + i] = s[i]

(* What is in a list and in the one after it. *)
LEMMA JoinedRange ==
  ASSUME NEW f, NEW s, NEW p, Joined(p, f, s)
  PROVE  Range(p) = Range(f) \cup Range(s)
<1>1. /\ Len(f) \in Nat /\ Len(s) \in Nat /\ DOMAIN f = 1..Len(f) /\ DOMAIN s = 1..Len(s)
      /\ DOMAIN p = 1..Len(f) + Len(s)
      /\ \A i \in 1..Len(f) : p[i] = f[i]
      /\ \A i \in 1..Len(s) : p[Len(f) + i] = s[i]
  BY DEF Joined
<1>2. Range(p) \subseteq Range(f) \cup Range(s)
  <2> SUFFICES ASSUME NEW i \in DOMAIN p  PROVE p[i] \in Range(f) \cup Range(s)
    BY DEF Range
  <2>1. CASE i \in 1..Len(f)
    BY <1>1, <2>1 DEF Range
  <2>2. CASE i \notin 1..Len(f)
    <3>1. i - Len(f) \in 1..Len(s) /\ i = Len(f) + (i - Len(f))
      BY <1>1, <2>2
    <3>2. p[i] = s[i - Len(f)]
      BY <1>1, <3>1
    <3> QED
      BY <1>1, <3>1, <3>2 DEF Range
  <2> QED
    BY <2>1, <2>2
<1>3. Range(f) \subseteq Range(p)
  <2> SUFFICES ASSUME NEW i \in 1..Len(f)  PROVE f[i] \in Range(p)
    BY <1>1 DEF Range
  <2>1. i \in DOMAIN p /\ p[i] = f[i]
    BY <1>1
  <2> QED
    BY <2>1 DEF Range
<1>4. Range(s) \subseteq Range(p)
  <2> SUFFICES ASSUME NEW i \in 1..Len(s)  PROVE s[i] \in Range(p)
    BY <1>1 DEF Range
  <2>1. Len(f) + i \in DOMAIN p /\ p[Len(f) + i] = s[i]
    BY <1>1
  <2> QED
    BY <2>1 DEF Range
<1> QED
  BY <1>2, <1>3, <1>4

-------------------------------------------------------------------------------
(* What zmq_poll writes. *)

(* Raised events are among those that the item's mask allows. *)
LEMMA ReadinessIs ==
  ASSUME NEW p, NEW rev \in Readiness(p)
  PROVE  /\ rev \in [DOMAIN p.items -> SUBSET Flags]
         /\ \A i \in DOMAIN p.items : rev[i] \subseteq Raisable(p.items[i].key, p.items[i].events)
<1> DEFINE May == {x \in (DOMAIN p.items) \X Flags :
                     x[2] \in Raisable(p.items[x[1]].key, p.items[x[1]].events)}
<1>1. PICK R \in SUBSET May : rev = [i \in DOMAIN p.items |-> {e \in Flags : <<i, e>> \in R}]
  BY DEF Readiness
<1>2. ASSUME NEW i \in DOMAIN p.items, NEW e \in Flags, <<i, e>> \in R
      PROVE  e \in Raisable(p.items[i].key, p.items[i].events)
  <2>1. <<i, e>> \in May
    BY <1>2
  <2> QED
    BY <2>1
<1>3. \A i \in DOMAIN p.items : rev[i] = {e \in Flags : <<i, e>> \in R}
  BY <1>1
<1>4. rev \in [DOMAIN p.items -> SUBSET Flags]
  BY <1>1
<1> QED
  BY <1>2, <1>3, <1>4

(* Whatever is allowed may be raised. *)
LEMMA InReadiness ==
  ASSUME NEW p, NEW rev \in [DOMAIN p.items -> SUBSET Flags],
         \A i \in DOMAIN p.items : rev[i] \subseteq Raisable(p.items[i].key, p.items[i].events)
  PROVE  rev \in Readiness(p)
<1> DEFINE May == {x \in (DOMAIN p.items) \X Flags :
                     x[2] \in Raisable(p.items[x[1]].key, p.items[x[1]].events)}
<1> DEFINE R == {x \in (DOMAIN p.items) \X Flags : x[2] \in rev[x[1]]}
<1>1. R \in SUBSET May
  OBVIOUS
<1>2. \A i \in DOMAIN p.items, e \in Flags : <<i, e>> \in R <=> e \in rev[i]
  OBVIOUS
<1>3. rev = [i \in DOMAIN p.items |-> {e \in Flags : <<i, e>> \in R}]
  <2>1. \A i \in DOMAIN p.items : rev[i] = {e \in Flags : <<i, e>> \in R}
    BY <1>2
  <2> HIDE DEF R
  <2> QED
    BY <2>1
<1> HIDE DEF R
<1> QED
  BY <1>1, <1>3 DEF Readiness
===============================================================================
