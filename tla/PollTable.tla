------------------------------- MODULE PollTable -------------------------------
(***************************************************************************)
(* The value of a zmqpp::poller and the operations on it                   *)
(* (src/src/zmqpp/poller.cpp).  Poller.tla drives them one call at a time; *)
(* Loop.tla keeps such a value inside its own state.                       *)
(*                                                                         *)
(* A poller is a vector `_items` of zmq_pollitem_t and two hash maps, one  *)
(* from socket pointers and one from descriptors to positions of `_items`. *)
(* The key spaces of the maps are disjoint, so one map `index` stands for  *)
(* both; positions count from 1 and 0 says that the key has no entry.      *)
(***************************************************************************)
EXTENDS Integers, Sequences

CONSTANTS
  Sockets,    \* 0MQ socket pointers
  Fds,        \* raw descriptors
  Masks       \* the event masks callers ask for

Flags == {"in", "out", "err", "pri"}

ASSUME KeysDisjoint == Sockets \cap Fds = {}
ASSUME MasksAreFlags == Masks \subseteq SUBSET Flags

Keys == Sockets \cup Fds

Absent == 0

Item == [key : Keys, events : SUBSET Flags, revents : SUBSET Flags]

EmptyPoller == [items |-> <<>>, index |-> [k \in Keys |-> Absent]]

-------------------------------------------------------------------------------
(* What a call returns to its caller. *)

Done == [kind |-> "done", events |-> {}]
Thrown == [kind |-> "throw", events |-> {}]
Bool(b) == [kind |-> IF b THEN "true" ELSE "false", events |-> {}]
Report(e) == [kind |-> "events", events |-> e]

Answers == [kind : {"done", "throw", "true", "false", "events"}, events : SUBSET Flags]

-------------------------------------------------------------------------------
(* The events zmq_poll can raise on a key that is polled for `mask`: those  *)
(* asked for, never "err" or "pri" for a 0MQ socket, and "err" for a        *)
(* descriptor whether or not it was asked for.                              *)
Raisable(k, mask) ==
  IF k \in Fds THEN (mask \cap {"in", "out", "pri"}) \cup {"err"} ELSE mask \cap {"in", "out"}

(* The revents zmq_poll may write: any of those events at any item. *)
Readiness(p) ==
  {[i \in DOMAIN p.items |-> {e \in Flags : <<i, e>> \in R}] :
     R \in SUBSET {x \in (DOMAIN p.items) \X Flags :
                      x[2] \in Raisable(p.items[x[1]].key, p.items[x[1]].events)}}

PollerHas(p, k) == p.index[k] # Absent

(* add: always appends, and points the key's entry at the new position. *)
PollerAdd(p, k, mask) ==
  [items |-> Append(p.items, [key |-> k, events |-> mask, revents |-> {}]),
   index |-> [p.index EXCEPT ![k] = Len(p.items) + 1]]

(* reindex(n): the key at position n must have an entry, else it throws. *)
ReindexThrows(p, n) == ~PollerHas(p, p.items[n].key)

Reindex(p, n) ==
  IF ReindexThrows(p, n) THEN p
  ELSE [items |-> p.items, index |-> [p.index EXCEPT ![p.items[n].key] = n]]

(* remove, up to the reindex: the last item takes the place of the removed *)
(* one, the vector shrinks by one and the key's entry is erased.            *)
SwapAndPop(p, k) ==
  LET n    == p.index[k]
      last == Len(p.items)
  IN  [items |-> [i \in 1..(last - 1) |-> IF i = n THEN p.items[last] ELSE p.items[i]],
       index |-> [p.index EXCEPT ![k] = Absent]]

(* Mutant: the moved item is not reindexed. *)
PollerRemoveNoReindex(p, k) == IF ~PollerHas(p, k) THEN p ELSE SwapAndPop(p, k)

(* Mutant: the last item loses its entry and stays in the vector. *)
PollerRemoveKeepsLast(p, k) ==
  IF ~PollerHas(p, k) THEN p
  ELSE IF p.index[k] = Len(p.items)
    THEN [items |-> p.items, index |-> [p.index EXCEPT ![k] = Absent]]
    ELSE Reindex(SwapAndPop(p, k), p.index[k])

PollerRemove(p, k) ==
  IF ~PollerHas(p, k) THEN p
  ELSE IF p.index[k] = Len(p.items) THEN SwapAndPop(p, k)
  ELSE Reindex(SwapAndPop(p, k), p.index[k])

RemoveThrows(p, k) ==
  /\ PollerHas(p, k)
  /\ p.index[k] # Len(p.items)
  /\ ReindexThrows(SwapAndPop(p, k), p.index[k])

(* Mutant: check_for stores a fresh item and forgets what was raised. *)
PollerCheckForResets(p, k, mask) ==
  [p EXCEPT !.items[p.index[k]] = [key |-> k, events |-> mask, revents |-> {}]]

(* check_for: only `events` of the item; what the last poll raised stays. *)
PollerCheckFor(p, k, mask) ==
  LET n == p.index[k]
  IN  [items |-> [p.items EXCEPT ![n] =
                    [key |-> p.items[n].key, events |-> mask, revents |-> p.items[n].revents]],
       index |-> p.index]

PollerEvents(p, k) == p.items[p.index[k]].revents

HasInput(p, k) == "in" \in PollerEvents(p, k)
HasOutput(p, k) == "out" \in PollerEvents(p, k)
HasError(p, k) == "err" \in PollerEvents(p, k)

(* zmq_poll writes the revents of the items. *)
PollerRaise(p, rev) ==
  [items |-> [i \in DOMAIN p.items |->
                [key |-> p.items[i].key, events |-> p.items[i].events, revents |-> rev[i]]],
   index |-> p.index]

(* The events that loop and reactor look for with has_input(), has_output() *)
(* and has_error(), and the keys that a poll which writes `rev` raises for  *)
(* one of them.                                                             *)
Dispatched == {"in", "out", "err"}
RaisedBy(p, rev) == {p.items[i].key : i \in {j \in DOMAIN p.items : rev[j] \cap Dispatched # {}}}

-------------------------------------------------------------------------------
(* The value of a poller whatever the calls made on it. *)
Pollers == [items : Seq(Item), index : [Keys -> Nat]]

(* Every entry points at an item of its own key. *)
Sound(p) ==
  \A k \in Keys :
    PollerHas(p, k) =>
      /\ p.index[k] <= Len(p.items)
      /\ p.items[p.index[k]].key = k

(* Every item is the one its key's entry points at. *)
Complete(p) == \A i \in 1..Len(p.items) : p.index[p.items[i].key] = i

(* What a caller sees of a poller: the keys it watches, and the interest   *)
(* and the raised events of the item each key's entry points at.           *)
WatchedIn(p) == {k \in Keys : PollerHas(p, k)}
InterestIn(p) == [k \in Keys |-> IF PollerHas(p, k) THEN p.items[p.index[k]].events ELSE {}]
RaisedIn(p) == [k \in Keys |-> IF PollerHas(p, k) THEN p.items[p.index[k]].revents ELSE {}]
===============================================================================
