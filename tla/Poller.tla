-------------------------------- MODULE Poller --------------------------------
(***************************************************************************)
(* zmqpp::poller (src/src/zmqpp/poller.cpp) as a state machine: one action *)
(* per member function, called in any order by the one thread that owns    *)
(* the object.  The readiness of the sockets, and so what zmq_poll raises, *)
(* is chosen freely at each poll.                                          *)
(*                                                                         *)
(* Spec lets the caller add a key that is already watched, which the class *)
(* neither refuses nor documents; UniqueSpec has callers that do not.      *)
(***************************************************************************)
EXTENDS PollTable

CONSTANT MaxItems     \* bound on the length of _items

ASSUME MaxItemsIsNat == MaxItems \in Nat

VARIABLES
  poller,    \* the poller: _items, and _index and _fdindex as one map
  answer     \* what the last call returned to its caller

vars == <<poller, answer>>

Init ==
  /\ poller = EmptyPoller
  /\ answer = Done

Add(k, mask) ==
  /\ Len(poller.items) < MaxItems
  /\ poller' = PollerAdd(poller, k, mask)
  /\ answer' = Done

Has(k) ==
  /\ answer' = Bool(PollerHas(poller, k))
  /\ UNCHANGED poller

Remove(k) ==
  /\ poller' = PollerRemove(poller, k)
  /\ answer' = IF RemoveThrows(poller, k) THEN Thrown ELSE Done

CheckFor(k, mask) ==
  IF PollerHas(poller, k)
    THEN poller' = PollerCheckFor(poller, k, mask) /\ answer' = Done
    ELSE UNCHANGED poller /\ answer' = Thrown

Events(k) ==
  /\ answer' = IF PollerHas(poller, k) THEN Report(PollerEvents(poller, k)) ELSE Thrown
  /\ UNCHANGED poller

\* poll, zmq_poll returning the number of ready items (none: the timeout).
Poll ==
  \E rev \in Readiness(poller) :
    /\ poller' = PollerRaise(poller, rev)
    /\ answer' = Bool(\E i \in DOMAIN poller.items : rev[i] # {})

\* poll, zmq_poll returning -1 after it wrote the first n items: with EINTR
\* poll() returns false, with another error it throws.
PollFailed ==
  \E rev \in Readiness(poller), n \in 0..Len(poller.items) :
    /\ poller' = PollerRaise(poller,
                   [i \in DOMAIN poller.items |->
                      IF i <= n THEN rev[i] ELSE poller.items[i].revents])
    /\ answer' \in {Bool(FALSE), Thrown}

Next ==
  \/ \E k \in Keys :
       \/ \E mask \in Masks : Add(k, mask) \/ CheckFor(k, mask)
       \/ Has(k)
       \/ Remove(k)
       \/ Events(k)
  \/ Poll
  \/ PollFailed

Spec == Init /\ [][Next]_vars

-------------------------------------------------------------------------------
(* The callers that add a key only when it is not watched. *)

AddOnce(k, mask) == ~PollerHas(poller, k) /\ Add(k, mask)

UniqueNext ==
  \/ \E k \in Keys :
       \/ \E mask \in Masks : AddOnce(k, mask) \/ CheckFor(k, mask)
       \/ Has(k)
       \/ Remove(k)
       \/ Events(k)
  \/ Poll
  \/ PollFailed

UniqueSpec == Init /\ [][UniqueNext]_vars

-------------------------------------------------------------------------------
(* Every variable has its type. *)
TypeOK ==
  /\ poller \in Pollers
  /\ Len(poller.items) <= MaxItems
  /\ answer \in Answers

(* An entry of _index or _fdindex points inside _items and at an item of   *)
(* its own key, whatever the calls: so check_for() and events() never      *)
(* touch another socket's item and never leave the vector, though remove() *)
(* moves the last item and reindex() rewrites an entry.                    *)
IndexSound == Sound(poller)

(* With callers that add a key once, every item is the one its key's entry *)
(* points at: no item is polled that remove() could not reach.             *)
IndexComplete == Complete(poller)

(* With such callers the exceptions of reindex() ("unable to reindex ...") *)
(* are never thrown.                                                       *)
ReindexNeverThrows == \A k \in Keys : ~RemoveThrows(poller, k)

-------------------------------------------------------------------------------
(* The poller implements WatchSet: the watched keys are those with an      *)
(* entry, and a key's interest and events are those of the item it names.  *)

Watching == INSTANCE WatchSet WITH
  watched <- WatchedIn(poller), interest <- InterestIn(poller), raised <- RaisedIn(poller)

(* Every step of a poller whose callers add a key once is a step that the  *)
(* abstract watch set allows, with the same answer.                        *)
ImplementsWatchSet == Watching!WSpec
===============================================================================
