------------------------------- MODULE Reactor -------------------------------
(***************************************************************************)
(* zmqpp::reactor (src/src/zmqpp/reactor.cpp): poll() asks the poller once *)
(* and calls the handlers of what is ready; removals that handlers ask for *)
(* wait until it is through.  A handler may call any member of the reactor, *)
(* poll() included: `stack` has one entry for each poll() under way.       *)
(***************************************************************************)
EXTENDS PollTable, Lists

CONSTANTS
  MaxCalls,   \* bound: calls made in a handler, or between two polls
  MaxItems,   \* bound: the length of the poller's vector
  MaxLater,   \* bound: removals put off
  MaxDepth,   \* bound: polls inside each other
  Uses        \* the sets of what callers do beyond the plain use:
              \*   "readd"   a key is added again while it is watched or its removal
              \*             is pending
              \*   "grow"    a handler adds a key
              \*   "nest"    a handler calls poll()
              \*   "throw"   handlers throw
              \*   "bypass"  a key is removed by way of get_poller()

ASSUME ReactorBounds == MaxCalls \in Nat /\ MaxItems \in Nat /\ MaxDepth \in Nat /\ MaxLater \in Nat

VARIABLES
  poller,       \* poller_
  items,        \* items_, the key of each pair
  fdLater,      \* fdRemoveLater_
  sockLater,    \* sockRemoveLater_
  dispatching,  \* dispatching_
  pc,           \* idle, or where the innermost poll() is
  stack,        \* position and end of the range-for of each poll() under way
  flushed,      \* how far flush_remove_later is
  ready,        \* keys the last zmq_poll raised for input, output or an error
                \* and no handler has had
  use,          \* which of Uses it is
  wanted,       \* keys whose last call by the user was add
  calls         \* calls made in this turn of the user

state == <<poller, items, fdLater, sockLater, dispatching>>
vars == <<use, state, pc, stack, flushed, ready, wanted, calls>>

Init ==
  /\ use \in Uses
  /\ poller = EmptyPoller /\ items = <<>>
  /\ fdLater = <<>> /\ sockLater = <<>> /\ dispatching = FALSE
  /\ pc = "idle" /\ stack = <<>> /\ flushed = 0
  /\ ready = {} /\ wanted = {} /\ calls = 0

Pending == fdLater \o sockLater
Depth == Len(stack)
Top == stack[Depth]
Below == SubSeq(stack, 1, Depth - 1)

-------------------------------------------------------------------------------
(* The user's calls, between polls or in a handler. *)

UsersTurn == pc \in {"idle", "inItem"} /\ calls < MaxCalls
Called == UsersTurn /\ calls' = calls + 1 /\ UNCHANGED <<stack, flushed, ready>>

(* add: items_ may move under the range-for of a poll(). *)
Add(k, mask) ==
  /\ Called /\ Len(poller.items) < MaxItems
  /\ k \in wanted \cup Range(Pending) => "readd" \in use
  /\ Depth > 0 => "grow" \in use
  /\ poller' = PollerAdd(poller, k, mask)
  /\ items' = Append(items, k)
  /\ wanted' = wanted \cup {k}
  /\ pc' = pc \/ (Depth > 0 /\ pc' = "undefined")
  /\ UNCHANGED <<use, fdLater, sockLater, dispatching>>

(* The items and the poller without k; to erase an item while a range-for  *)
(* of the reactor stands on it is undefined.                               *)
Erase(k, polls) ==
  /\ items' = Erased(items, k)
  /\ poller' = PollerRemove(poller, k)
  /\ IF polls > 0 /\ k \in Range(items) THEN pc' = "undefined" ELSE UNCHANGED pc

(* Mutant: the removal is made at once. *)
RemoveAtOnce(k) ==
  /\ Called
  /\ wanted' = wanted \ {k}
  /\ Erase(k, Depth)
  /\ UNCHANGED <<use, fdLater, sockLater, dispatching>>

Remove(k) ==
  /\ Called
  /\ wanted' = wanted \ {k}
  /\ \/ /\ dispatching /\ Len(Pending) < MaxLater
        /\ IF k \in Fds
             THEN fdLater' = Append(fdLater, k) /\ UNCHANGED sockLater
             ELSE sockLater' = Append(sockLater, k) /\ UNCHANGED fdLater
        /\ UNCHANGED <<items, poller, pc>>
     \/ ~dispatching /\ Erase(k, Depth) /\ UNCHANGED <<fdLater, sockLater>>
  /\ UNCHANGED <<use, dispatching>>

CheckFor(k, mask) ==
  /\ Called /\ PollerHas(poller, k)
  /\ poller' = PollerCheckFor(poller, k, mask)
  /\ UNCHANGED <<use, items, fdLater, sockLater, dispatching, pc, wanted>>

(* get_poller().remove(k). *)
BypassRemove(k) ==
  /\ "bypass" \in use /\ Called
  /\ poller' = PollerRemove(poller, k)
  /\ UNCHANGED <<use, items, fdLater, sockLater, dispatching, pc, wanted>>

-------------------------------------------------------------------------------
(* poll(). *)

(* Polls are called between polls, and by handlers that nest them. *)
PollersTurn == pc = "idle" \/ (pc = "inItem" /\ "nest" \in use)

(* poller_.poll returns true. *)
Poll ==
  /\ PollersTurn /\ Depth < MaxDepth
  /\ \E rev \in Readiness(poller) :
       /\ \E i \in DOMAIN rev : rev[i] # {}
       /\ poller' = PollerRaise(poller, rev)
       /\ ready' = RaisedBy(poller, rev)
  /\ dispatching' = TRUE
  /\ stack' = Append(stack, [pos |-> 1, end |-> Len(items)])
  /\ pc' = "items" /\ calls' = 0
  /\ UNCHANGED <<use, items, fdLater, sockLater, flushed, wanted>>

(* poller_.poll returns false, the time being over or a signal having come, *)
(* which leaves the revents of the poll before: nothing is dispatched, and  *)
(* nothing put off is flushed.                                             *)
PollTimesOut ==
  /\ PollersTurn
  /\ \/ poller' = PollerRaise(poller, [i \in DOMAIN poller.items |-> {}])
     \/ UNCHANGED poller
  /\ ready' = {} /\ calls' = 0
  /\ UNCHANGED <<use, items, fdLater, sockLater, dispatching, pc, stack, flushed, wanted>>

(* An exception leaves every poll() under way; nothing resets dispatching_. *)
Escape == pc' = "idle" /\ stack' = <<>> /\ flushed' = 0 /\ ready' = {} /\ calls' = 0

(* An item has input, an error or output; has_input() throws for a key     *)
(* that the poller does not know.                                          *)
ReadyAt(i) ==
  PollerHas(poller, items[i]) =>
    \/ HasInput(poller, items[i])
    \/ HasError(poller, items[i])
    \/ HasOutput(poller, items[i])

(* The next item that is ready, or that throws. *)
CallItem ==
  /\ pc = "items"
  /\ \E i \in Top.pos..Top.end :
       /\ ReadyAt(i) /\ \A j \in Top.pos..(i - 1) : ~ReadyAt(j)
       /\ \/ /\ PollerHas(poller, items[i])
             /\ stack' = Append(Below, [pos |-> i, end |-> Top.end])
             /\ ready' = ready \ {items[i]}
             /\ pc' = "inItem" /\ calls' = 0
             /\ UNCHANGED flushed
          \/ ~PollerHas(poller, items[i]) /\ Escape
  /\ UNCHANGED <<use, state, wanted>>

(* Mutant: the item after a ready one is skipped. *)
AdvanceTwo == [pos |-> Top.pos + 2, end |-> Top.end]

Advance == [pos |-> Top.pos + 1, end |-> Top.end]

ItemReturns ==
  /\ pc = "inItem"
  /\ pc' = "items" /\ calls' = 0
  /\ stack' = Append(Below, Advance)
  /\ UNCHANGED <<use, state, flushed, ready, wanted>>

HandlerThrows ==
  /\ pc = "inItem" /\ "throw" \in use
  /\ Escape
  /\ UNCHANGED <<use, state, wanted>>

(* Mutant: the flush is left out when the poll was the only one. *)
ThenIdle == IF Depth = 1 THEN "returning" ELSE "flush"

(* Past the last item: dispatching_ is reset and the flush begins. *)
ThenFlush == "flush"

ItemsDone ==
  /\ pc = "items" /\ \A i \in Top.pos..Top.end : ~ReadyAt(i)
  /\ dispatching' = FALSE
  /\ pc' = ThenFlush
  /\ UNCHANGED <<use, poller, items, fdLater, sockLater, stack, flushed, ready, wanted, calls>>

(* flush_remove_later, one entry. *)
FlushItem ==
  /\ pc = "flush" /\ flushed < Len(Pending)
  /\ LET k == Pending[flushed + 1]
     IN  IF RemoveThrows(poller, k)
           THEN /\ items' = Erased(items, k)
                /\ poller' = PollerRemove(poller, k)
                /\ Escape
           ELSE /\ Erase(k, Depth - 1)
                /\ flushed' = flushed + 1
                /\ UNCHANGED <<stack, ready, calls>>
  /\ UNCHANGED <<use, fdLater, sockLater, dispatching, wanted>>

FlushDone ==
  /\ pc = "flush" /\ flushed = Len(Pending)
  /\ fdLater' = <<>> /\ sockLater' = <<>> /\ flushed' = 0
  /\ pc' = "returning"
  /\ UNCHANGED <<use, poller, items, dispatching, stack, ready, wanted, calls>>

(* poll() returns to its owner, or to the handler that called it. *)
PollReturns ==
  /\ pc = "returning"
  /\ stack' = Below
  /\ pc' = IF Depth = 1 THEN "idle" ELSE "inItem"
  /\ calls' = 0 /\ flushed' = 0
  /\ UNCHANGED <<use, state, ready, wanted>>

-------------------------------------------------------------------------------
Next ==
  \/ \E k \in Keys :
       \/ \E mask \in Masks : Add(k, mask) \/ CheckFor(k, mask)
       \/ Remove(k) \/ BypassRemove(k)
  \/ Poll \/ PollTimesOut \/ CallItem \/ ItemReturns \/ HandlerThrows
  \/ ItemsDone \/ FlushItem \/ FlushDone \/ PollReturns

Spec == Init /\ [][Next]_vars

-------------------------------------------------------------------------------
(* Whatever handlers do, short of calling what is undefined, an entry of   *)
(* the reactor's poller names an item of its own key.                      *)
PollerStaysSound == Sound(poller)

(* No key is added while its removal is pending, handlers do not throw and *)
(* nobody removes a key behind the reactor's back.                         *)
Orderly == use \cap {"readd", "throw", "bypass"} = {}

(* Between two polls the reactor watches the keys that users added and did *)
(* not remove since, each once and with one handler: reactor.hpp:84 "Stop  *)
(* monitoring a socket." and :50 "providing a handler that will be called". *)
HonoursCallers ==
  pc = "idle" /\ Orderly =>
    /\ Range(items) = wanted /\ Len(items) = Cardinality(wanted)
    /\ WatchedIn(poller) = wanted /\ Len(poller.items) = Len(items)

(* Unless a handler adds or polls, no item is moved or erased while a      *)
(* poll() stands on it: removals wait, though the handler that asks for    *)
(* one is its own item.                                                    *)
NothingUndefined == use \cap {"grow", "nest"} = {} => pc # "undefined"

(* The reactor as a dispatcher. *)
Promised ==
  INSTANCE Dispatcher
    WITH watched <- wanted, raised <- ready,
         handling <- IF pc = "inItem" THEN items[Top.pos] ELSE "none",
         phase <- CASE pc = "items" -> "passing"
                    [] pc = "inItem" -> "calling"
                    [] OTHER -> "idle"

(* The reactor implements Dispatcher: poll() raises keys that are watched  *)
(* and calls a handler once for each of them that is raised for input,     *)
(* output or an error, and for no other, whatever the handlers before it   *)
(* removed (reactor.hpp:113-124).  A key raised for poll_pri alone         *)
(* (poller.hpp:49) is not served: reactor.cpp:120 does not ask for it,     *)
(* though reactor.hpp:59 promises "a handler that will be called when the  *)
(* monitored events occur".                                                *)
ImplementsDispatcher ==
  [][Orderly /\ use \cap {"nest", "grow"} = {} =>
       Promised!DNext \/ UNCHANGED Promised!dvars]_vars
===============================================================================
