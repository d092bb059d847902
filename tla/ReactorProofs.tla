----------------------------- MODULE ReactorProofs -----------------------------
(***************************************************************************)
(* Theorems about zmqpp::reactor for every set of sockets and descriptors, *)
(* every depth of polls inside each other and every number of calls.       *)
(***************************************************************************)
EXTENDS Reactor, PollTableProofs, SequenceTheorems

(* A poll() under way: where its range-for is in items_. *)
Frames == [pos : Nat \ {0}, end : Nat]

(* The types of what the reactor hands to its poller, entries that are      *)
(* sound, and a poll() under way wherever one is needed.                   *)
Typed ==
  /\ poller \in Pollers /\ Sound(poller)
  /\ items \in Seq(Keys) /\ fdLater \in Seq(Fds) /\ sockLater \in Seq(Sockets)
  /\ flushed \in Nat /\ dispatching \in BOOLEAN
  /\ stack \in Seq(Frames)
  /\ pc \in {"idle", "items", "inItem", "flush", "returning", "undefined"}
  /\ pc = "idle" => stack = <<>>
  /\ pc \notin {"idle", "undefined"} => Depth > 0

(* One poll() at a time: its handlers find dispatching_ set. *)
Alone ==
  use \cap {"grow", "nest"} = {} =>
    /\ pc # "undefined" /\ Depth <= 1
    /\ pc \in {"items", "inItem"} => dispatching

(* The removals that a flush has not come to. *)
Left == {Pending[i] : i \in flushed + 1..Len(Pending)}

(* The items and the poller agree, and are those that the user wants and   *)
(* those whose removal waits.  A poll() that was left at a removal keeps   *)
(* its items.                                                              *)
Agreeing ==
  /\ Complete(poller) /\ Distinct(items) /\ Range(items) = WatchedIn(poller)
  /\ wanted \subseteq Range(items) /\ Range(items) \subseteq wanted \cup Left
  /\ wanted \cap Range(Pending) = {}

Waiting ==
  /\ dispatching \/ pc = "flush" \/ Pending = <<>>
  /\ pc \in {"idle", "flush", "returning"} => ~dispatching
  /\ pc # "flush" => flushed = 0
  /\ flushed <= Len(Pending)

Within ==
  \A d \in 1..Depth : d < Depth \/ pc \in {"items", "inItem"} => stack[d].end <= Len(items)

Ordered == Orderly /\ pc # "undefined" => Agreeing /\ Waiting /\ Within

(* What the poll raised for input, output or an error and no handler has   *)
(* had is ahead of its range-for.                                          *)
Ahead(from) ==
  {items[i] : i \in {j \in from..Top.end : RaisedIn(poller)[items[j]] \cap Dispatched # {}}}

Plain == Orderly /\ use \cap {"nest", "grow"} = {}

Raised ==
  Plain =>
    /\ pc = "items" => ready = Ahead(Top.pos)
    /\ pc = "inItem" => ready = Ahead(Top.pos + 1)
    /\ pc \notin {"items", "inItem"} => ready = {}

-------------------------------------------------------------------------------
(* The polls under way. *)

(* The innermost poll() and those below it. *)
LEMMA TopShape ==
  ASSUME stack \in Seq(Frames), Depth > 0
  PROVE  /\ Top \in Frames /\ Below \in Seq(Frames) /\ Len(Below) = Depth - 1
         /\ \A d \in 1..Depth - 1 : Below[d] = stack[d]
<1>1. Depth \in Nat /\ Depth \in 1..Len(stack)
  BY DEF Depth
<1>2. Below \in Seq(Frames) /\ Len(Below) = Depth - 1
  BY <1>1, SubSeqProperties DEF Below
<1>3. \A d \in 1..Depth - 1 : Below[d] = stack[d]
  BY <1>1, SubSeqProperties DEF Below
<1>4. Top \in Frames
  BY <1>1 DEF Top
<1> QED
  BY <1>2, <1>3, <1>4

(* One more poll() on top of others. *)
LEMMA PushShape ==
  ASSUME NEW s \in Seq(Frames), NEW f \in Frames
  PROVE  /\ Append(s, f) \in Seq(Frames) /\ Len(Append(s, f)) = Len(s) + 1
         /\ Append(s, f)[Len(s) + 1] = f
         /\ \A d \in 1..Len(s) : Append(s, f)[d] = s[d]
OBVIOUS

(* What is pending are keys. *)
LEMMA PendingTyped ==
  ASSUME fdLater \in Seq(Fds), sockLater \in Seq(Sockets)
  PROVE  Pending \in Seq(Keys) /\ Len(Pending) \in Nat
BY DEF Pending, Keys

(* To erase keeps the types and the entries sound. *)
LEMMA EraseTyped ==
  ASSUME Typed, NEW k \in Keys,
         items' = Erased(items, k), poller' = PollerRemove(poller, k)
  PROVE  poller' \in Pollers /\ Sound(poller') /\ items' \in Seq(Keys)
BY RemoveWellFormed, ErasedShape DEF Typed

(* Before the first call everything is empty. *)
LEMMA TypedInit == Init => Typed
<1>1. <<>> \in Seq(Frames) /\ <<>> \in Seq(Keys) /\ <<>> \in Seq(Fds) /\ <<>> \in Seq(Sockets)
  OBVIOUS
<1> SUFFICES ASSUME Init PROVE Typed
  OBVIOUS
<1>2. poller \in Pollers /\ Sound(poller)
  BY EmptyWellFormed DEF Init
<1>3. /\ items = <<>> /\ fdLater = <<>> /\ sockLater = <<>> /\ dispatching = FALSE
      /\ pc = "idle" /\ stack = <<>> /\ flushed = 0
  BY DEF Init
<1> QED
  BY <1>1, <1>2, <1>3 DEF Typed

(* Every step keeps the types and the entries sound. *)
LEMMA TypedNext == Typed /\ [Next]_vars => Typed'
<1> SUFFICES ASSUME Typed, [Next]_vars PROVE Typed'
  OBVIOUS
<1> USE DEF state
<1>0. /\ poller \in Pollers /\ Sound(poller)
      /\ items \in Seq(Keys) /\ fdLater \in Seq(Fds) /\ sockLater \in Seq(Sockets)
      /\ flushed \in Nat /\ dispatching \in BOOLEAN /\ stack \in Seq(Frames)
      /\ pc \in {"idle", "items", "inItem", "flush", "returning", "undefined"}
      /\ pc = "idle" => stack = <<>>
      /\ pc \notin {"idle", "undefined"} => Depth > 0
  BY DEF Typed
<1>e. <<>> \in Seq(Frames) /\ <<>> \in Seq(Fds) /\ <<>> \in Seq(Sockets) /\ Depth \in Nat
  BY <1>0 DEF Depth
<1>1. ASSUME NEW k \in Keys, NEW mask \in Masks, Add(k, mask)  PROVE Typed'
  <2>1. /\ poller' \in Pollers /\ Sound(poller')
    BY <1>0, <1>1, AddWellFormed, MasksAreFlags DEF Add
  <2>2. /\ items' \in Seq(Keys) /\ UNCHANGED <<fdLater, sockLater, dispatching, stack, flushed>>
        /\ pc' = pc \/ pc' = "undefined"
    BY <1>0, <1>1 DEF Add, Called
  <2> QED
    BY <1>0, <2>1, <2>2 DEF Typed, Depth
<1>2. ASSUME NEW k \in Keys, Remove(k)  PROVE Typed'
  <2>0. UNCHANGED <<stack, flushed, dispatching>> /\ pc \in {"idle", "inItem"}
    BY <1>2 DEF Remove, Called, UsersTurn
  <2>1. CASE UNCHANGED <<items, poller, pc>>
    <3>1. fdLater' \in Seq(Fds) /\ sockLater' \in Seq(Sockets)
      <4>1. CASE k \in Fds /\ fdLater' = Append(fdLater, k) /\ UNCHANGED sockLater
        BY <1>0, <4>1
      <4>2. CASE k \notin Fds /\ sockLater' = Append(sockLater, k) /\ UNCHANGED fdLater
        BY <1>0, <4>2 DEF Keys
      <4>3. CASE UNCHANGED <<fdLater, sockLater>>
        BY <1>0, <4>3
      <4> QED
        BY <1>2, <4>1, <4>2, <4>3 DEF Remove
    <3> QED
      BY <1>0, <2>0, <2>1, <3>1 DEF Typed, Depth
  <2>2. CASE Erase(k, Depth) /\ UNCHANGED <<fdLater, sockLater>>
    <3>1. poller' \in Pollers /\ Sound(poller') /\ items' \in Seq(Keys)
      BY <2>2, EraseTyped DEF Erase
    <3>2. pc' = pc \/ pc' = "undefined"
      BY <2>2 DEF Erase
    <3> QED
      BY <1>0, <2>0, <2>2, <3>1, <3>2 DEF Typed, Depth
  <2> QED
    BY <1>2, <2>1, <2>2 DEF Remove
<1>3. ASSUME NEW k \in Keys, NEW mask \in Masks, CheckFor(k, mask)  PROVE Typed'
  <2>1. poller' \in Pollers /\ Sound(poller')
    BY <1>0, <1>3, CheckForWellFormed, MasksAreFlags DEF CheckFor
  <2>2. UNCHANGED <<items, fdLater, sockLater, dispatching, stack, flushed, pc>>
    BY <1>3 DEF CheckFor, Called
  <2> QED
    BY <1>0, <2>1, <2>2 DEF Typed, Depth
<1>4. ASSUME NEW k \in Keys, BypassRemove(k)  PROVE Typed'
  <2>1. poller' \in Pollers /\ Sound(poller')
    BY <1>0, <1>4, RemoveWellFormed DEF BypassRemove
  <2>2. UNCHANGED <<items, fdLater, sockLater, dispatching, stack, flushed, pc>>
    BY <1>4 DEF BypassRemove, Called
  <2> QED
    BY <1>0, <2>1, <2>2 DEF Typed, Depth
<1>5. ASSUME Poll  PROVE Typed'
  <2>1. PICK rev \in Readiness(poller) : poller' = PollerRaise(poller, rev)
    BY <1>5 DEF Poll
  <2>2. poller' \in Pollers /\ Sound(poller')
    <3>1. rev \in [DOMAIN poller.items -> SUBSET Flags]
      BY ReadinessIs
    <3> QED
      BY <1>0, <2>1, <3>1, RaiseWellFormed
  <2>3. /\ stack' = Append(stack, [pos |-> 1, end |-> Len(items)])
        /\ dispatching' = TRUE /\ pc' = "items" /\ UNCHANGED <<items, fdLater, sockLater, flushed>>
    BY <1>5 DEF Poll
  <2>4. [pos |-> 1, end |-> Len(items)] \in Frames
    BY <1>0 DEF Frames
  <2>5. stack' \in Seq(Frames) /\ Len(stack') > 0
    BY <1>0, <2>3, <2>4, PushShape
  <2> QED
    BY <1>0, <2>2, <2>3, <2>5 DEF Typed, Depth
<1>6. ASSUME PollTimesOut  PROVE Typed'
  <2>1. poller' \in Pollers /\ Sound(poller')
    <3>1. [i \in DOMAIN poller.items |-> {}] \in [DOMAIN poller.items -> SUBSET Flags]
      OBVIOUS
    <3> QED
      BY <1>0, <1>6, <3>1, RaiseWellFormed DEF PollTimesOut
  <2>2. UNCHANGED <<items, fdLater, sockLater, dispatching, stack, flushed, pc>>
    BY <1>6 DEF PollTimesOut
  <2> QED
    BY <1>0, <2>1, <2>2 DEF Typed, Depth
<1>t. Depth > 0 => Top \in Frames /\ Below \in Seq(Frames) /\ Len(Below) = Depth - 1
  BY <1>0, TopShape
<1>7. ASSUME CallItem  PROVE Typed'
  <2>1. UNCHANGED <<poller, items, fdLater, sockLater, dispatching>> /\ Depth > 0
    BY <1>0, <1>7 DEF CallItem
  <2>2. CASE Escape
    BY <1>0, <1>e, <2>1, <2>2 DEF Escape, Typed, Depth
  <2>3. ASSUME NEW i \in Top.pos..Top.end,
               stack' = Append(Below, [pos |-> i, end |-> Top.end]), pc' = "inItem",
               UNCHANGED flushed
        PROVE  Typed'
    <3>1. [pos |-> i, end |-> Top.end] \in Frames
      BY <1>t, <2>1 DEF Frames
    <3>2. stack' \in Seq(Frames) /\ Len(stack') > 0
      BY <1>t, <1>e, <2>1, <2>3, <3>1, PushShape
    <3> QED
      BY <1>0, <2>1, <2>3, <3>2 DEF Typed, Depth
  <2> QED
    BY <1>7, <2>2, <2>3 DEF CallItem
<1>8. ASSUME ItemReturns  PROVE Typed'
  <2>1. /\ UNCHANGED <<poller, items, fdLater, sockLater, dispatching, flushed>> /\ Depth > 0
        /\ stack' = Append(Below, Advance) /\ pc' = "items"
    BY <1>0, <1>8 DEF ItemReturns
  <2>2. Advance \in Frames
    BY <1>t, <2>1 DEF Advance, Frames
  <2>3. stack' \in Seq(Frames) /\ Len(stack') > 0
    BY <1>t, <1>e, <2>1, <2>2, PushShape
  <2> QED
    BY <1>0, <2>1, <2>3 DEF Typed, Depth
<1>9. ASSUME HandlerThrows  PROVE Typed'
  BY <1>0, <1>e, <1>9 DEF HandlerThrows, Escape, Typed, Depth
<1>10. ASSUME ItemsDone  PROVE Typed'
  BY <1>0, <1>10 DEF ItemsDone, ThenFlush, Typed, Depth
<1>11. ASSUME FlushItem  PROVE Typed'
  <2>1. Pending[flushed + 1] \in Keys
    BY <1>0, <1>11, PendingTyped DEF FlushItem
  <2>2. /\ poller' \in Pollers /\ Sound(poller') /\ items' \in Seq(Keys)
    BY <1>11, <2>1, EraseTyped DEF FlushItem, Erase
  <2>3. UNCHANGED <<fdLater, sockLater, dispatching>> /\ pc = "flush"
    BY <1>11 DEF FlushItem
  <2>4. CASE Escape
    BY <1>0, <1>e, <2>2, <2>3, <2>4 DEF Escape, Typed, Depth
  <2>5. CASE Erase(Pending[flushed + 1], Depth - 1) /\ flushed' = flushed + 1 /\ UNCHANGED stack
    BY <1>0, <2>2, <2>3, <2>5 DEF Erase, Typed, Depth
  <2> QED
    BY <1>11, <2>4, <2>5 DEF FlushItem
<1>12. ASSUME FlushDone  PROVE Typed'
  BY <1>0, <1>e, <1>12 DEF FlushDone, Typed, Depth
<1>13. ASSUME PollReturns  PROVE Typed'
  <2>1. /\ stack' = Below /\ UNCHANGED <<poller, items, fdLater, sockLater, dispatching>>
        /\ flushed' = 0 /\ Depth > 0 /\ pc' = IF Depth = 1 THEN "idle" ELSE "inItem"
    BY <1>0, <1>13 DEF PollReturns
  <2>2. stack' \in Seq(Frames) /\ Len(stack') = Depth - 1
    BY <1>t, <2>1
  <2>3. Depth = 1 => stack' = <<>>
    BY <2>2
  <2> QED
    BY <1>0, <1>e, <2>1, <2>2, <2>3 DEF Typed, Depth
<1>14. CASE UNCHANGED vars
  BY <1>0, <1>14 DEF vars, Typed, Depth
<1> QED
  BY <1>1, <1>2, <1>3, <1>4, <1>5, <1>6, <1>7, <1>8, <1>9, <1>10, <1>11, <1>12, <1>13, <1>14 DEF Next

(* Whatever handlers do - throw, poll, add, remove, and remove behind the   *)
(* reactor's back -, an entry of the reactor's poller names an item of its *)
(* own key: has_input() never reads another socket's events.               *)
THEOREM ReactorPollerStaysSound == Spec => []PollerStaysSound
<1>1. Typed => PollerStaysSound
  BY DEF Typed, PollerStaysSound
<1> QED
  BY <1>1, TypedInit, TypedNext, PTL DEF Spec

-------------------------------------------------------------------------------
(* Nothing undefined is reached when handlers neither add nor poll. *)

(* What users do besides is settled at the beginning. *)
LEMMA UseIsKept == [Next]_vars => use' = use
BY DEF Next, Add, Remove, CheckFor, BypassRemove, Poll, PollTimesOut, CallItem, ItemReturns,
       HandlerThrows, ItemsDone, FlushItem, FlushDone, PollReturns, vars

(* Every step keeps a poll() alone, and dispatching_ set for its handlers. *)
LEMMA AloneNext == Typed /\ Alone /\ [Next]_vars => Alone'
<1> SUFFICES ASSUME Typed, Alone, [Next]_vars, use' \cap {"grow", "nest"} = {}
             PROVE  pc' # "undefined" /\ Depth' <= 1 /\ (pc' \in {"items", "inItem"} => dispatching')
  BY DEF Alone
<1> DEFINE Goal == pc' # "undefined" /\ Depth' <= 1 /\ (pc' \in {"items", "inItem"} => dispatching')
<1> USE DEF state
<1>0. /\ use \cap {"grow", "nest"} = {}
      /\ pc # "undefined" /\ Depth <= 1 /\ Depth \in Nat
      /\ pc \in {"items", "inItem"} => dispatching
      /\ pc = "idle" => Depth = 0
      /\ pc # "idle" => Depth = 1
  <2>1. use' = use
    BY UseIsKept
  <2>2. stack \in Seq(Frames) /\ Len(<<>>) = 0
    BY DEF Typed
  <2>3. Len(stack) \in Nat /\ (stack = <<>> => Len(stack) = 0)
    BY <2>2
  <2>4. use \cap {"grow", "nest"} = {} /\ pc # "undefined" /\ Len(stack) <= 1
    BY <2>1 DEF Alone, Depth
  <2>6. pc \in {"items", "inItem"} => dispatching
    BY <2>1 DEF Alone
  <2>5. (pc = "idle" => stack = <<>>) /\ (pc # "idle" => Len(stack) > 0)
    BY <2>4 DEF Typed, Depth
  <2>7. Depth <= 1 /\ Depth \in Nat /\ (pc = "idle" => Depth = 0) /\ (pc # "idle" => Depth = 1)
    BY <2>3, <2>4, <2>5 DEF Depth
  <2> QED
    BY <2>4, <2>6, <2>7
<1>e. Len(<<>>) = 0 /\ <<>> \in Seq(Frames)
  OBVIOUS
<1>t. Depth > 0 => Top \in Frames /\ Below = <<>>
  BY <1>0, TopShape DEF Typed
<1>1. ASSUME NEW k \in Keys, NEW mask \in Masks, Add(k, mask) \/ CheckFor(k, mask)  PROVE Goal
  BY <1>0, <1>1 DEF Add, CheckFor, Called, Depth
<1>2. ASSUME NEW k \in Keys, Remove(k)  PROVE Goal
  <2>1. UNCHANGED <<stack, dispatching>> /\ pc \in {"idle", "inItem"}
    BY <1>2 DEF Remove, Called, UsersTurn
  <2>2. pc' = pc
    BY <1>0, <1>2, <2>1 DEF Remove, Erase
  <2> QED
    BY <1>0, <2>1, <2>2 DEF Depth
<1>3. ASSUME NEW k \in Keys, BypassRemove(k)  PROVE Goal
  BY <1>0, <1>3 DEF BypassRemove, Called, Depth
<1>4. ASSUME Poll  PROVE Goal
  <2>1. /\ pc = "idle" /\ stack' = Append(stack, [pos |-> 1, end |-> Len(items)])
        /\ dispatching' = TRUE /\ pc' = "items"
    BY <1>0, <1>4 DEF Poll, PollersTurn
  <2>2. [pos |-> 1, end |-> Len(items)] \in Frames
    BY DEF Typed, Frames
  <2>3. Len(stack') = 1
    BY <1>0, <2>1, <2>2, PushShape DEF Typed, Depth
  <2> QED
    BY <2>1, <2>3 DEF Depth
<1>5. ASSUME PollTimesOut \/ ItemsDone \/ FlushDone  PROVE Goal
  BY <1>0, <1>5 DEF PollTimesOut, ItemsDone, ThenFlush, FlushDone, Depth
<1>6. ASSUME CallItem  PROVE Goal
  <2>1. dispatching' = dispatching /\ dispatching /\ Depth = 1
    BY <1>0, <1>6 DEF CallItem
  <2>2. CASE Escape
    BY <1>e, <2>2 DEF Escape, Depth
  <2>3. ASSUME NEW i \in Top.pos..Top.end,
               stack' = Append(Below, [pos |-> i, end |-> Top.end]), pc' = "inItem"
        PROVE  Goal
    BY <1>t, <2>1, <2>3 DEF Depth
  <2> QED
    BY <1>6, <2>2, <2>3 DEF CallItem
<1>7. ASSUME ItemReturns  PROVE Goal
  <2>1. stack' = Append(<<>>, Advance) /\ dispatching' = dispatching /\ dispatching /\ pc' = "items"
    BY <1>0, <1>t, <1>7 DEF ItemReturns
  <2>2. Len(stack') = 1
    BY <2>1
  <2> QED
    BY <2>1, <2>2 DEF Depth
<1>8. ASSUME HandlerThrows  PROVE Goal
  BY <1>e, <1>8 DEF HandlerThrows, Escape, Depth
<1>9. ASSUME FlushItem  PROVE Goal
  <2>1. CASE Escape
    BY <1>e, <2>1 DEF Escape, Depth
  <2>2. CASE Erase(Pending[flushed + 1], Depth - 1) /\ UNCHANGED stack
    BY <1>0, <1>9, <2>2 DEF Erase, FlushItem, Depth
  <2> QED
    BY <1>9, <2>1, <2>2 DEF FlushItem
<1>10. ASSUME PollReturns  PROVE Goal
  BY <1>0, <1>t, <1>e, <1>10 DEF PollReturns, Depth
<1>11. CASE UNCHANGED vars
  BY <1>0, <1>11 DEF vars, Depth
<1> QED
  BY <1>1, <1>2, <1>3, <1>4, <1>5, <1>6, <1>7, <1>8, <1>9, <1>10, <1>11 DEF Next

(* When no handler adds a socket or polls, and even if handlers throw: the  *)
(* removals that handlers ask for wait until the range-for over items_ is  *)
(* through, on every path, for every number of items.                      *)
THEOREM ReactorNothingUndefined == Spec => []NothingUndefined
<1>1. Init => Alone
  BY DEF Init, Alone, Depth
<1>2. Alone => NothingUndefined
  BY DEF Alone, NothingUndefined
<1> QED
  BY <1>1, <1>2, TypedInit, TypedNext, AloneNext, PTL DEF Spec

-------------------------------------------------------------------------------
(* The items, the poller and what the user wants. *)

(* What is pending for descriptors and for sockets. *)
LEMMA PendingRange ==
  ASSUME fdLater \in Seq(Fds), sockLater \in Seq(Sockets)
  PROVE  /\ Range(Pending) = Range(fdLater) \cup Range(sockLater)
         /\ flushed = 0 => Left = Range(Pending)
<1>1. Joined(Pending, fdLater, sockLater) /\ DOMAIN Pending = 0 + 1..Len(Pending)
  BY DEF Joined, Pending
<1>2. Range(Pending) = Range(fdLater) \cup Range(sockLater)
  BY <1>1, JoinedRange
<1>3. Range(Pending) = {Pending[i] : i \in 0 + 1..Len(Pending)}
  BY <1>1 DEF Range
<1> QED
  BY <1>2, <1>3 DEF Left

(* The same after a step. *)
LEMMA PendingRangeNext ==
  ASSUME fdLater' \in Seq(Fds), sockLater' \in Seq(Sockets), flushed' = 0
  PROVE  /\ Range(Pending') = Range(fdLater') \cup Range(sockLater')
         /\ Left' = Range(Pending') /\ Len(Pending') \in Nat
<1>1. PICK f, s, p : f = fdLater' /\ s = sockLater' /\ p = Pending'
  OBVIOUS
<1>2. f \in Seq(Fds) /\ s \in Seq(Sockets) /\ p = f \o s
  BY <1>1 DEF Pending
<1>3. Joined(p, f, s) /\ DOMAIN p = 0 + 1..Len(p) /\ Len(p) \in Nat
  BY <1>2 DEF Joined
<1>4. Range(p) = Range(f) \cup Range(s)
  BY <1>3, JoinedRange
<1>5. Range(p) = {p[i] : i \in 0 + 1..Len(p)}
  BY <1>3 DEF Range
<1> QED
  BY <1>1, <1>3, <1>4, <1>5 DEF Left

(* Nothing is pending. *)
LEMMA NothingPending ==
  /\ fdLater = <<>> /\ sockLater = <<>> => Pending = <<>> /\ Range(Pending) = {} /\ Len(Pending) = 0
  /\ fdLater' = <<>> /\ sockLater' = <<>> =>
       Pending' = <<>> /\ Range(Pending') = {} /\ Len(Pending') = 0
<1>1. <<>> \o <<>> = <<>> /\ Range(<<>>) = {} /\ Len(<<>>) = 0
  BY DEF Range
<1> QED
  BY <1>1 DEF Pending

(* One removal, of the items and of the poller. *)
LEMMA EraseAgrees ==
  ASSUME Typed, Complete(poller), Distinct(items), Range(items) = WatchedIn(poller),
         NEW k \in Keys, items' = Erased(items, k), poller' = PollerRemove(poller, k)
  PROVE  /\ Complete(poller)' /\ Distinct(items)' /\ (Range(items) = WatchedIn(poller))'
         /\ Range(items') = Range(items) \ {k} /\ ~RemoveThrows(poller, k)
         /\ k \notin Range(items) => Len(items') = Len(items)
<1>1. poller \in Pollers /\ Sound(poller) /\ items \in Seq(Keys)
  BY DEF Typed
<1>2. Complete(poller') /\ ~RemoveThrows(poller, k) /\ WatchedIn(poller') = WatchedIn(poller) \ {k}
  BY <1>1, RemoveWellFormed, RemoveMaps
<1>3. /\ Range(items') = Range(items) \ {k} /\ Distinct(items')
      /\ k \notin Range(items) => Len(items') = Len(items)
  BY <1>1, ErasedShape DEF Distinct
<1> QED
  BY <1>2, <1>3

(* What zmq_poll and check_for() write is no matter of who is watched. *)
LEMMA RaiseAgrees ==
  ASSUME Typed, Complete(poller), NEW rev \in [DOMAIN poller.items -> SUBSET Flags],
         poller' = PollerRaise(poller, rev)
  PROVE  Complete(poller)' /\ WatchedIn(poller)' = WatchedIn(poller)
BY RaiseWellFormed, RaiseMaps DEF Typed

(* Before the first call nobody wants anything. *)
LEMMA OrderedInit == Init => Ordered
<1> SUFFICES ASSUME Init PROVE Agreeing /\ Waiting /\ Within
  BY DEF Ordered
<1>1. /\ poller = EmptyPoller /\ items = <<>> /\ fdLater = <<>> /\ sockLater = <<>>
      /\ dispatching = FALSE /\ pc = "idle" /\ stack = <<>> /\ flushed = 0 /\ wanted = {}
  BY DEF Init
<1>2. Pending = <<>> /\ Range(Pending) = {} /\ Len(Pending) = 0 /\ Left = {}
  BY <1>1, NothingPending, PendingRange, TypedInit DEF Typed
<1>3. Complete(poller) /\ WatchedIn(poller) = {}
  BY <1>1, EmptyWellFormed DEF WatchedIn, PollerHas, EmptyPoller
<1>4. Range(items) = {} /\ Distinct(items)
  BY <1>1 DEF Range, Distinct
<1> QED
  BY <1>1, <1>2, <1>3, <1>4 DEF Agreeing, Waiting, Within, Depth

(* A step of the lists alone. *)
LEMMA SameAgreeing ==
  ASSUME Agreeing, UNCHANGED <<items, wanted, fdLater, sockLater, flushed>>,
         Complete(poller)', WatchedIn(poller)' = WatchedIn(poller)
  PROVE  Agreeing'
BY DEF Agreeing, Left, Pending, Distinct

(* Every step keeps the items and the poller to what the user wants. *)
LEMMA OrderedNext == Typed /\ Ordered /\ [Next]_vars => Ordered'
<1> SUFFICES ASSUME Typed, Ordered, [Next]_vars, Orderly', pc' # "undefined"
             PROVE  Agreeing' /\ Waiting' /\ Within'
  BY DEF Ordered
<1> DEFINE Goal == Agreeing' /\ Waiting' /\ Within'
<1> USE DEF state
<1>o. Orderly /\ pc # "undefined"
  <2>1. Orderly
    BY UseIsKept DEF Orderly
  <2>2. pc = "undefined" => pc' = pc
    BY DEF Next, Add, Remove, CheckFor, BypassRemove, Called, UsersTurn, Poll, PollTimesOut,
           PollersTurn, CallItem, ItemReturns, HandlerThrows, ItemsDone, FlushItem, FlushDone, PollReturns, vars
  <2> QED
    BY <2>1, <2>2
<1>0. Agreeing /\ Waiting /\ Within
  BY <1>o DEF Ordered
<1>y. /\ poller \in Pollers /\ Sound(poller) /\ items \in Seq(Keys)
      /\ fdLater \in Seq(Fds) /\ sockLater \in Seq(Sockets) /\ flushed \in Nat
      /\ stack \in Seq(Frames) /\ Depth \in Nat /\ Len(items) \in Nat
  BY DEF Typed, Depth
<1>a. /\ Complete(poller) /\ Distinct(items) /\ Range(items) = WatchedIn(poller)
      /\ wanted \subseteq Range(items) /\ Range(items) \subseteq wanted \cup Left
      /\ wanted \cap Range(Pending) = {}
  BY <1>0 DEF Agreeing
<1>w. pc # "flush" => flushed = 0 /\ Left = Range(Pending)
  BY <1>0, <1>y, PendingRange DEF Waiting
<1>h. \A k \in Keys : k \in Range(items) <=> PollerHas(poller, k)
  BY <1>a DEF WatchedIn
<1>s. UNCHANGED poller => Complete(poller)' /\ WatchedIn(poller)' = WatchedIn(poller)
  BY <1>a DEF Complete, WatchedIn, PollerHas
<1>1. ASSUME NEW k \in Keys, NEW mask \in Masks, Add(k, mask)  PROVE Goal
  <2>1. /\ UNCHANGED <<stack, flushed, fdLater, sockLater, dispatching>>
        /\ pc \in {"idle", "inItem"} /\ pc' = pc
        /\ items' = Append(items, k) /\ poller' = PollerAdd(poller, k, mask)
        /\ wanted' = wanted \cup {k} /\ k \notin wanted
    BY <1>1, <1>o DEF Add, Called, UsersTurn, Orderly
  <2>2. k \notin Range(Pending)
    BY <1>1, <1>o DEF Add, Orderly
  <2>3. k \notin Range(items) /\ ~PollerHas(poller, k)
    BY <1>a, <1>h, <1>w, <2>1, <2>2
  <2>4. /\ Range(items') = Range(items) \cup {k} /\ Len(items') = Len(items) + 1 /\ Distinct(items')
    <3>1. items \in Seq(Keys) /\ items' = Append(items, k)
      BY <1>y, <2>1
    <3>2. Pushed(items', items, k) /\ Len(items') = Len(items) + 1
      BY <3>1 DEF Pushed
    <3>3. /\ Range(items') = Range(items) \cup {k}
          /\ Distinct(items) /\ k \notin Range(items) => Distinct(items')
      BY <3>2, PushedRange
    <3> QED
      BY <1>a, <2>3, <3>2, <3>3
  <2>5. Complete(poller') /\ WatchedIn(poller') = WatchedIn(poller) \cup {k}
    BY <1>a, <1>y, <2>1, <2>3, AddWellFormed, AddMaps, MasksAreFlags
  <2>6. Pending' = Pending /\ Left' = Left
    BY <2>1 DEF Pending, Left
  <2>7. Agreeing'
    BY <1>a, <2>1, <2>2, <2>4, <2>5, <2>6 DEF Agreeing
  <2>8. Waiting'
    BY <1>0, <2>1, <2>6 DEF Waiting
  <2>9. Within'
    <3>1. \A d \in 1..Depth : stack[d].end \in Nat
      <4>1. \A d \in 1..Depth : stack[d] \in Frames
        BY <1>y DEF Depth
      <4> QED
        BY <4>1 DEF Frames
    <3> QED
      BY <1>0, <1>y, <2>1, <2>4, <3>1 DEF Within, Depth
  <2> QED
    BY <2>7, <2>8, <2>9
<1>2. ASSUME NEW k \in Keys, Remove(k)  PROVE Goal
  <2>0. /\ UNCHANGED <<stack, flushed, dispatching>> /\ pc \in {"idle", "inItem"}
        /\ wanted' = wanted \ {k}
    BY <1>2 DEF Remove, Called, UsersTurn
  <2>1. CASE dispatching
    <3>1. /\ UNCHANGED <<items, poller, pc>>
          /\ IF k \in Fds THEN fdLater' = Append(fdLater, k) /\ UNCHANGED sockLater
                          ELSE sockLater' = Append(sockLater, k) /\ UNCHANGED fdLater
      BY <1>2, <2>1 DEF Remove
    <3>2. /\ fdLater' \in Seq(Fds) /\ sockLater' \in Seq(Sockets)
          /\ Range(fdLater') \cup Range(sockLater') = Range(fdLater) \cup Range(sockLater) \cup {k}
      <4>1. CASE k \in Fds
        <5>1. fdLater \in Seq(Fds) /\ fdLater' = Append(fdLater, k) /\ sockLater' = sockLater
          BY <1>y, <3>1, <4>1
        <5>2. Range(fdLater') = Range(fdLater) \cup {k}
          <6>1. Pushed(fdLater', fdLater, k)
            BY <4>1, <5>1 DEF Pushed
          <6> QED
            BY <6>1, PushedRange
        <5>3. fdLater' \in Seq(Fds)
          BY <4>1, <5>1
        <5> QED
          BY <1>y, <5>1, <5>2, <5>3
      <4>2. CASE k \notin Fds
        <5>1. k \in Sockets
          BY <4>2 DEF Keys
        <5>2. sockLater \in Seq(Sockets) /\ sockLater' = Append(sockLater, k) /\ fdLater' = fdLater
          BY <1>y, <3>1, <4>2
        <5>3. Range(sockLater') = Range(sockLater) \cup {k}
          <6>1. Pushed(sockLater', sockLater, k)
            BY <5>1, <5>2 DEF Pushed
          <6> QED
            BY <6>1, PushedRange
        <5>4. sockLater' \in Seq(Sockets)
          BY <5>1, <5>2
        <5> QED
          BY <1>y, <5>2, <5>3, <5>4
      <4> QED
        BY <4>1, <4>2
    <3>3. Range(Pending') = Range(Pending) \cup {k} /\ Left' = Range(Pending')
      <4>1. flushed' = 0
        BY <1>w, <2>0
      <4>2. Range(Pending') = Range(fdLater') \cup Range(sockLater') /\ Left' = Range(Pending')
        BY <3>2, <4>1, PendingRangeNext
      <4>3. Range(Pending) = Range(fdLater) \cup Range(sockLater)
        BY <1>y, PendingRange
      <4> QED
        BY <3>2, <4>2, <4>3
    <3>4. Agreeing'
      BY <1>a, <1>s, <1>w, <2>0, <3>1, <3>3 DEF Agreeing, Distinct
    <3>5. Waiting'
      <4>1. Len(Pending') \in Nat
        BY <3>2, PendingTyped
      <4> QED
        BY <1>0, <1>w, <2>0, <2>1, <3>1, <4>1 DEF Waiting
    <3>6. Within'
      BY <1>0, <2>0, <3>1 DEF Within, Depth
    <3> QED
      BY <3>4, <3>5, <3>6
  <2>2. CASE ~dispatching
    <3>1. /\ items' = Erased(items, k) /\ poller' = PollerRemove(poller, k)
          /\ UNCHANGED <<fdLater, sockLater>> /\ pc' = pc
          /\ Depth > 0 => k \notin Range(items)
      BY <1>2, <2>2 DEF Remove, Erase
    <3>2. /\ Complete(poller)' /\ Distinct(items)' /\ (Range(items) = WatchedIn(poller))'
          /\ Range(items') = Range(items) \ {k}
          /\ k \notin Range(items) => Len(items') = Len(items)
      BY <1>a, <3>1, EraseAgrees
    <3>3. Pending' = Pending /\ Left' = Left
      BY <2>0, <3>1 DEF Pending, Left
    <3>4. Agreeing'
      BY <1>a, <2>0, <3>2, <3>3 DEF Agreeing
    <3>5. Waiting'
      BY <1>0, <2>0, <3>1, <3>3 DEF Waiting
    <3>6. Within'
      BY <1>0, <1>y, <2>0, <3>1, <3>2 DEF Within, Depth
    <3> QED
      BY <3>4, <3>5, <3>6
  <2> QED
    BY <2>1, <2>2
<1>3. ASSUME NEW k \in Keys, NEW mask \in Masks, CheckFor(k, mask)  PROVE Goal
  <2>1. /\ UNCHANGED <<stack, flushed, items, fdLater, sockLater, dispatching, pc, wanted>>
        /\ PollerHas(poller, k) /\ poller' = PollerCheckFor(poller, k, mask)
    BY <1>3 DEF CheckFor, Called
  <2>2. Complete(poller)' /\ WatchedIn(poller)' = WatchedIn(poller)
    BY <1>a, <1>y, <2>1, CheckForWellFormed, CheckForMaps, MasksAreFlags
  <2>3. Agreeing'
    BY <1>0, <2>1, <2>2, SameAgreeing
  <2> QED
    BY <1>0, <2>1, <2>3 DEF Waiting, Within, Depth, Pending
<1>4. ASSUME HandlerThrows \/ \E k \in Keys : BypassRemove(k)  PROVE Goal
  BY <1>4, <1>o DEF BypassRemove, HandlerThrows, Orderly
<1>5. ASSUME Poll  PROVE Goal
  <2>1. PICK rev \in Readiness(poller) : poller' = PollerRaise(poller, rev)
    BY <1>5 DEF Poll
  <2>2. Complete(poller)' /\ WatchedIn(poller)' = WatchedIn(poller)
    <3>1. rev \in [DOMAIN poller.items -> SUBSET Flags]
      BY ReadinessIs
    <3> QED
      BY <1>a, <2>1, <3>1, RaiseAgrees
  <2>3. /\ stack' = Append(stack, [pos |-> 1, end |-> Len(items)]) /\ pc \in {"idle", "inItem"}
        /\ dispatching' = TRUE /\ pc' = "items" /\ UNCHANGED <<items, fdLater, sockLater, flushed, wanted>>
    BY <1>5 DEF Poll, PollersTurn
  <2>4. Agreeing'
    BY <1>0, <2>2, <2>3, SameAgreeing
  <2>5. Waiting'
    BY <1>0, <2>3 DEF Waiting, Pending
  <2>6. Within'
    <3>1. [pos |-> 1, end |-> Len(items)] \in Frames
      BY <1>y DEF Frames
    <3>2. /\ Len(stack') = Depth + 1 /\ stack'[Depth + 1].end = Len(items)
          /\ \A d \in 1..Depth : stack'[d] = stack[d]
      BY <1>y, <2>3, <3>1, PushShape DEF Depth
    <3>3. \A d \in 1..Depth : stack[d].end <= Len(items)
      <4>1. pc = "idle" => Depth = 0
        BY DEF Typed, Depth
      <4> QED
        BY <1>0, <1>y, <2>3, <4>1 DEF Within
    <3>4. \A d \in 1..Depth + 1 : d \in 1..Depth \/ d = Depth + 1
      BY <1>y
    <3>5. \A d \in 1..Len(stack') : stack'[d].end <= Len(items')
      BY <1>y, <2>3, <3>2, <3>3, <3>4
    <3> QED
      BY <3>5 DEF Within, Depth
  <2> QED
    BY <2>4, <2>5, <2>6
<1>6. ASSUME PollTimesOut  PROVE Goal
  <2>1. /\ UNCHANGED <<stack, flushed, items, fdLater, sockLater, dispatching, pc, wanted>>
        /\ \/ poller' = PollerRaise(poller, [i \in DOMAIN poller.items |-> {}])
           \/ UNCHANGED poller
    BY <1>6 DEF PollTimesOut
  <2>2. Complete(poller)' /\ WatchedIn(poller)' = WatchedIn(poller)
    <3>1. [i \in DOMAIN poller.items |-> {}] \in [DOMAIN poller.items -> SUBSET Flags]
      OBVIOUS
    <3>2. CASE UNCHANGED poller
      BY <1>a, <3>2 DEF WatchedIn, PollerHas
    <3> QED
      BY <1>a, <2>1, <3>1, <3>2, RaiseAgrees
  <2>3. Agreeing'
    BY <1>0, <2>1, <2>2, SameAgreeing
  <2> QED
    BY <1>0, <2>1, <2>3 DEF Waiting, Within, Depth, Pending
<1>t. Depth > 0 => /\ Top \in Frames /\ Below \in Seq(Frames) /\ Len(Below) = Depth - 1
                   /\ \A d \in 1..Depth - 1 : Below[d] = stack[d]
  BY <1>y, TopShape
<1>p. pc \notin {"idle", "undefined"} => Depth > 0
  BY DEF Typed
<1>7. ASSUME NEW f \in Frames, Depth > 0, pc \in {"items", "inItem"}, pc' \in {"items", "inItem"},
             stack' = Append(Below, f), f.end = Top.end,
             UNCHANGED <<poller, items, fdLater, sockLater, dispatching, flushed, wanted>>
      PROVE  Goal
  <2>1. Agreeing'
    BY <1>0, <1>7, <1>s, SameAgreeing
  <2>2. Waiting'
    BY <1>0, <1>7 DEF Waiting, Pending
  <2>3. Within'
    <3>1. /\ Len(stack') = Depth /\ stack'[Depth] = f
          /\ \A d \in 1..Depth - 1 : stack'[d] = stack[d]
      <4>1. /\ Len(stack') = Len(Below) + 1 /\ stack'[Len(Below) + 1] = f
            /\ \A d \in 1..Len(Below) : stack'[d] = Below[d]
        BY <1>t, <1>7, PushShape
      <4>2. Len(Below) = Depth - 1
        BY <1>t, <1>7
      <4> QED
        BY <1>y, <1>t, <1>7, <4>1, <4>2
    <3>2. \A d \in 1..Depth : stack[d].end <= Len(items)
      BY <1>0, <1>7 DEF Within
    <3>3. f.end <= Len(items)
      BY <1>y, <1>7, <3>2 DEF Top
    <3>4. \A d \in 1..Depth : d \in 1..Depth - 1 \/ d = Depth
      BY <1>y
    <3>5. \A d \in 1..Len(stack') : stack'[d].end <= Len(items')
      BY <1>y, <1>7, <3>1, <3>2, <3>3, <3>4
    <3> QED
      BY <3>5 DEF Within, Depth
  <2> QED
    BY <2>1, <2>2, <2>3
<1>8. ASSUME CallItem  PROVE Goal
  <2>1. PICK i \in Top.pos..Top.end :
          \/ /\ PollerHas(poller, items[i])
             /\ stack' = Append(Below, [pos |-> i, end |-> Top.end])
             /\ pc' = "inItem" /\ UNCHANGED flushed
          \/ ~PollerHas(poller, items[i])
    BY <1>8 DEF CallItem
  <2>2. pc = "items" /\ UNCHANGED <<poller, items, fdLater, sockLater, dispatching, wanted>>
    BY <1>8 DEF CallItem
  <2>3. Depth > 0 /\ Top \in Frames /\ Top.pos \in Nat \ {0} /\ Top.end \in Nat
    BY <1>p, <1>t, <2>2 DEF Frames
  <2>4. Top.end <= Len(items)
    BY <1>0, <1>y, <2>2, <2>3 DEF Within, Top
  <2>5. i \in 1..Len(items)
    BY <1>y, <2>3, <2>4
  <2>6. PollerHas(poller, items[i])
    <3>1. items[i] \in Keys /\ items[i] \in Range(items)
      BY <1>y, <2>5 DEF Range
    <3> QED
      BY <1>h, <3>1
  <2>7. [pos |-> i, end |-> Top.end] \in Frames
    BY <2>3, <2>5 DEF Frames
  <2> QED
    BY <1>7, <2>1, <2>2, <2>3, <2>6, <2>7
<1>9. ASSUME ItemReturns  PROVE Goal
  <2>1. /\ UNCHANGED <<poller, items, fdLater, sockLater, dispatching, flushed, wanted>>
        /\ stack' = Append(Below, Advance) /\ pc = "inItem" /\ pc' = "items"
    BY <1>9 DEF ItemReturns
  <2>2. Advance \in Frames /\ Advance.end = Top.end
    BY <1>p, <1>t, <2>1 DEF Advance, Frames
  <2> QED
    BY <1>p, <1>7, <2>1, <2>2
<1>10. ASSUME ItemsDone  PROVE Goal
  <2>1. /\ pc = "items" /\ pc' = "flush" /\ dispatching' = FALSE
        /\ UNCHANGED <<poller, items, fdLater, sockLater, stack, flushed, wanted>>
    BY <1>10 DEF ItemsDone, ThenFlush
  <2>2. Agreeing'
    BY <1>0, <1>s, <2>1, SameAgreeing
  <2> QED
    BY <1>0, <2>1, <2>2 DEF Waiting, Within, Depth, Pending
<1>11. ASSUME FlushItem  PROVE Goal
  <2>1. PICK k : k = Pending[flushed + 1]
    OBVIOUS
  <2>2. flushed + 1 \in 1..Len(Pending) /\ Pending \in Seq(Keys) /\ Len(Pending) \in Nat
    BY <1>y, <1>11, PendingTyped DEF FlushItem
  <2>3. k \in Keys /\ k \in Range(Pending)
    BY <2>1, <2>2 DEF Range
  <2>4. pc = "flush" /\ UNCHANGED <<fdLater, sockLater, dispatching, wanted>>
    BY <1>11 DEF FlushItem
  <2>5. items' = Erased(items, k) /\ poller' = PollerRemove(poller, k)
    BY <1>11, <2>1 DEF FlushItem, Erase
  <2>6. /\ Complete(poller)' /\ Distinct(items)' /\ (Range(items) = WatchedIn(poller))'
        /\ Range(items') = Range(items) \ {k} /\ ~RemoveThrows(poller, k)
        /\ k \notin Range(items) => Len(items') = Len(items)
    BY <1>a, <2>3, <2>5, EraseAgrees
  <2>7. /\ flushed' = flushed + 1 /\ stack' = stack /\ pc' = pc
        /\ Depth - 1 > 0 => k \notin Range(items)
    BY <1>11, <2>1, <2>6 DEF FlushItem, Erase
  <2>8. Pending' = Pending /\ Left \subseteq Left' \cup {k}
    <3>1. Pending' = Pending
      BY <2>4 DEF Pending
    <3>2. \A i \in flushed + 1..Len(Pending) : i = flushed + 1 \/ i \in (flushed + 1) + 1..Len(Pending)
      BY <1>y, <2>2
    <3> QED
      BY <2>1, <2>7, <3>1, <3>2 DEF Left
  <2>9. Agreeing'
    BY <1>a, <2>3, <2>4, <2>6, <2>8 DEF Agreeing
  <2>10. Waiting'
    <3>1. flushed + 1 <= Len(Pending) /\ ~dispatching
      BY <1>0, <2>2, <2>4 DEF Waiting
    <3> QED
      BY <2>4, <2>7, <2>8, <3>1 DEF Waiting
  <2>11. Within'
    BY <1>0, <1>y, <2>4, <2>6, <2>7 DEF Within, Depth
  <2> QED
    BY <2>9, <2>10, <2>11
<1>12. ASSUME FlushDone  PROVE Goal
  <2>1. /\ pc = "flush" /\ flushed = Len(Pending) /\ fdLater' = <<>> /\ sockLater' = <<>>
        /\ flushed' = 0 /\ pc' = "returning"
        /\ UNCHANGED <<poller, items, dispatching, stack, wanted>>
    BY <1>12 DEF FlushDone
  <2>2. Left = {}
    BY <1>y, <2>1 DEF Left
  <2>3. Pending' = <<>> /\ Range(Pending') = {} /\ Left' = {} /\ Len(Pending') = 0
    <3>1. fdLater' \in Seq(Fds) /\ sockLater' \in Seq(Sockets)
      BY <2>1
    <3>2. Pending' = <<>> /\ Range(Pending') = {} /\ Len(Pending') = 0
      BY <2>1, NothingPending
    <3>3. Left' = Range(Pending')
      BY <2>1, <3>1, PendingRangeNext
    <3> QED
      BY <3>2, <3>3
  <2>4. Agreeing'
    BY <1>a, <1>s, <2>1, <2>2, <2>3 DEF Agreeing, Distinct
  <2>5. Waiting'
    BY <1>0, <2>1, <2>3 DEF Waiting
  <2> QED
    BY <1>0, <2>1, <2>4, <2>5 DEF Within, Depth
<1>13. ASSUME PollReturns  PROVE Goal
  <2>1. /\ pc = "returning" /\ stack' = Below /\ pc' = IF Depth = 1 THEN "idle" ELSE "inItem"
        /\ flushed' = 0 /\ UNCHANGED <<poller, items, fdLater, sockLater, dispatching, wanted>>
    BY <1>13 DEF PollReturns
  <2>2. flushed' = flushed /\ Depth > 0
    BY <1>p, <1>w, <2>1
  <2>3. Agreeing'
    BY <1>0, <1>s, <2>1, <2>2, SameAgreeing
  <2>4. Waiting'
    BY <1>0, <2>1, <2>2 DEF Waiting, Pending
  <2>5. Within'
    <3>1. Len(stack') = Depth - 1 /\ \A d \in 1..Depth - 1 : stack'[d] = stack[d]
      BY <1>t, <2>1, <2>2
    <3>2. \A d \in 1..Depth - 1 : stack[d].end <= Len(items)
      BY <1>0, <1>y DEF Within
    <3> QED
      BY <2>1, <3>1, <3>2 DEF Within, Depth
  <2> QED
    BY <2>3, <2>4, <2>5
<1>14. CASE UNCHANGED vars
  BY <1>0, <1>s, <1>14, SameAgreeing DEF vars, Waiting, Within, Depth, Pending
<1> QED
  BY <1>1, <1>2, <1>3, <1>4, <1>5, <1>6, <1>8, <1>9, <1>10, <1>11, <1>12, <1>13, <1>14 DEF Next

(* Between two polls, if no key is added while its removal is pending, no  *)
(* handler throws and nobody goes behind the reactor's back, the reactor   *)
(* watches the keys that users added and did not remove, each once.        *)
THEOREM ReactorHonoursCallers == Spec => []HonoursCallers
<1>1. Typed /\ Ordered => HonoursCallers
  <2> SUFFICES ASSUME Typed, Ordered, pc = "idle", Orderly
               PROVE  /\ Range(items) = wanted /\ Len(items) = Cardinality(wanted)
                      /\ WatchedIn(poller) = wanted /\ Len(poller.items) = Len(items)
    BY DEF HonoursCallers
  <2>1. Agreeing /\ Waiting
    BY DEF Ordered
  <2>2. Pending = <<>> /\ flushed = 0
    BY <2>1 DEF Waiting
  <2>3. Left = {}
    BY <2>2 DEF Left
  <2>4. Range(items) = wanted /\ WatchedIn(poller) = wanted
    BY <2>1, <2>3 DEF Agreeing
  <2>5. Len(poller.items) = Cardinality(WatchedIn(poller))
    BY <2>1, CompleteLength DEF Typed, Agreeing
  <2>6. Cardinality(Range(items)) = Len(items)
    <3>1. items \in Seq(Keys) /\ \A i, j \in DOMAIN items : items[i] = items[j] => i = j
      BY <2>1 DEF Typed, Agreeing, Distinct
    <3> QED
      BY <3>1, DistinctLength
  <2> QED
    BY <2>4, <2>5, <2>6
<1> QED
  BY <1>1, TypedInit, TypedNext, OrderedInit, OrderedNext, PTL DEF Spec

-------------------------------------------------------------------------------
(* The reactor is a dispatcher. *)

(* Before the first call nothing is raised. *)
LEMMA RaisedInit == Init => Raised
BY DEF Init, Raised

(* What an item's handler has to read, for an item that is watched. *)
LEMMA ReadyIsRaised ==
  ASSUME Typed, Agreeing, NEW i \in 1..Len(items)
  PROVE  /\ items[i] \in Keys /\ PollerHas(poller, items[i])
         /\ ReadyAt(i) <=> RaisedIn(poller)[items[i]] \cap Dispatched # {}
<1>1. items[i] \in Keys /\ items[i] \in Range(items)
  BY DEF Typed, Range
<1>2. PollerHas(poller, items[i])
  BY <1>1 DEF Agreeing, WatchedIn
<1> QED
  BY <1>1, <1>2 DEF ReadyAt, HasInput, HasOutput, HasError, RaisedIn, PollerEvents, Dispatched

(* When nobody adds in a handler or polls there, a poll() is alone.         *)
LEMMA PlainFacts ==
  ASSUME Typed, Alone, Ordered, Plain
  PROVE  /\ pc # "undefined" /\ Agreeing /\ Waiting /\ Within
         /\ pc \in {"items", "inItem"} => dispatching
         /\ Depth \in Nat /\ Depth <= 1 /\ Len(items) \in Nat
         /\ pc # "idle" => Depth = 1 /\ Top \in Frames /\ Below = <<>>
         /\ pc \in {"items", "inItem"} =>
              Top.pos \in Nat \ {0} /\ Top.end \in Nat /\ Top.end <= Len(items)
<1>1. use \cap {"grow", "nest"} = {} /\ Orderly
  BY DEF Plain
<1>2. pc # "undefined" /\ Depth <= 1
  BY <1>1 DEF Alone
<1>3. pc \in {"items", "inItem"} => dispatching
  BY <1>1 DEF Alone
<1>4. Agreeing /\ Waiting /\ Within
  BY <1>1, <1>2 DEF Ordered
<1>5. stack \in Seq(Frames) /\ items \in Seq(Keys) /\ (pc \notin {"idle", "undefined"} => Depth > 0)
  BY DEF Typed
<1>6. Depth \in Nat /\ Len(items) \in Nat
  BY <1>5 DEF Depth
<1>7. pc # "idle" => Depth = 1 /\ Top \in Frames /\ Below \in Seq(Frames) /\ Len(Below) = 0
  BY <1>2, <1>5, <1>6, TopShape
<1>8. pc # "idle" => Below = <<>>
  BY <1>7
<1>9. pc \in {"items", "inItem"} =>
        Top.pos \in Nat \ {0} /\ Top.end \in Nat /\ Top.end <= Len(items)
  BY <1>4, <1>7 DEF Frames, Within, Top
<1> QED
  BY <1>2, <1>3, <1>4, <1>6, <1>7, <1>8, <1>9

(* What a poll() raises is what its range-for has ahead of it. *)
LEMMA PollRaises ==
  ASSUME Typed, Agreeing, Poll
  PROVE  /\ ready' = {items[i] : i \in {j \in 1..Len(items) : RaisedIn(poller')[items[j]] \cap Dispatched # {}}}
         /\ ready' \subseteq WatchedIn(poller)
<1> DEFINE RaisedAt(rev) == {i \in DOMAIN poller.items : rev[i] \cap Dispatched # {}}
<1>1. PICK rev \in Readiness(poller) :
        /\ poller' = PollerRaise(poller, rev)
        /\ ready' = {poller.items[i].key : i \in RaisedAt(rev)}
  BY DEF Poll, RaisedBy
<1>2. PICK R : R = RaisedAt(rev)
  OBVIOUS
<1>3. rev \in [DOMAIN poller.items -> SUBSET Flags]
  BY ReadinessIs
<1>4. poller \in Pollers /\ Sound(poller) /\ items \in Seq(Keys)
  BY DEF Typed
<1>5. RaisedIn(poller') = [k \in Keys |-> IF PollerHas(poller, k) THEN rev[poller.index[k]] ELSE {}]
  BY <1>1, <1>3, <1>4, RaiseMaps
<1>6. /\ poller.items \in Seq(Item) /\ poller.index \in [Keys -> Nat]
      /\ DOMAIN poller.items = 1..Len(poller.items) /\ Len(poller.items) \in Nat
  BY <1>4 DEF Pollers
<1>7. /\ \A i \in DOMAIN poller.items : rev[i] \cap Dispatched # {} <=> i \in R
      /\ ready' = {poller.items[i].key : i \in R}
  BY <1>1, <1>2
<1>8. \A k \in Keys : PollerHas(poller, k) =>
        poller.index[k] \in DOMAIN poller.items /\ poller.items[poller.index[k]].key = k
  BY <1>4, <1>6 DEF Sound, PollerHas, Absent
<1>9. \A i \in R : /\ i \in DOMAIN poller.items /\ poller.items[i].key \in Keys
                   /\ poller.index[poller.items[i].key] = i /\ PollerHas(poller, poller.items[i].key)
  <2> TAKE i \in R
  <2>1. i \in 1..Len(poller.items)
    BY <1>2, <1>6
  <2>2. poller.items[i].key \in Keys
    BY <1>6, <2>1, ItemFields
  <2>3. poller.index[poller.items[i].key] = i
    BY <2>1 DEF Agreeing, Complete
  <2> QED
    BY <1>6, <2>1, <2>2, <2>3 DEF PollerHas, Absent
<1>10. ready' = {k \in Keys : RaisedIn(poller')[k] \cap Dispatched # {}}
  <2>1. ASSUME NEW k \in ready'  PROVE k \in Keys /\ RaisedIn(poller')[k] \cap Dispatched # {}
    <3>1. PICK i \in R : k = poller.items[i].key
      BY <1>7, <2>1
    <3> QED
      BY <1>5, <1>7, <1>9, <3>1
  <2>2. ASSUME NEW k \in Keys, RaisedIn(poller')[k] \cap Dispatched # {}  PROVE k \in ready'
    <3>1. PollerHas(poller, k) /\ rev[poller.index[k]] \cap Dispatched # {}
      BY <1>5, <2>2
    <3>2. poller.index[k] \in R /\ poller.items[poller.index[k]].key = k
      BY <1>7, <1>8, <3>1
    <3> QED
      BY <1>7, <3>2
  <2> QED
    BY <2>1, <2>2
<1>11. ready' \subseteq WatchedIn(poller)
  BY <1>7, <1>9 DEF WatchedIn
<1>12. \A k \in ready' : \E i \in 1..Len(items) : items[i] = k
  <2>1. ready' \subseteq Range(items)
    BY <1>11 DEF Agreeing
  <2>2. DOMAIN items = 1..Len(items)
    BY <1>4
  <2> QED
    BY <2>1, <2>2 DEF Range
<1>13. \A i \in 1..Len(items) : items[i] \in Keys
  BY <1>4
<1> QED
  BY <1>10, <1>11, <1>12, <1>13

(* Every step keeps what is raised ahead of the range-for. *)
LEMMA RaisedNext == Typed /\ Alone /\ Ordered /\ Raised /\ [Next]_vars => Raised'
<1> SUFFICES ASSUME Typed, Alone, Ordered, Raised, [Next]_vars, Plain'
             PROVE  /\ pc' = "items" => ready' = Ahead(Top.pos)'
                    /\ pc' = "inItem" => ready' = Ahead(Top.pos + 1)'
                    /\ pc' \notin {"items", "inItem"} => ready' = {}
  BY DEF Raised
<1> DEFINE Goal == /\ pc' = "items" => ready' = Ahead(Top.pos)'
                   /\ pc' = "inItem" => ready' = Ahead(Top.pos + 1)'
                   /\ pc' \notin {"items", "inItem"} => ready' = {}
<1> USE DEF state
<1>p. Plain
  BY UseIsKept DEF Plain, Orderly
<1>0. /\ pc # "undefined" /\ Agreeing /\ Waiting /\ Within
      /\ pc \in {"items", "inItem"} => dispatching
      /\ Depth \in Nat /\ Depth <= 1 /\ Len(items) \in Nat
      /\ pc # "idle" => Depth = 1 /\ Top \in Frames /\ Below = <<>>
      /\ pc \in {"items", "inItem"} =>
           Top.pos \in Nat \ {0} /\ Top.end \in Nat /\ Top.end <= Len(items)
  BY <1>p, PlainFacts
<1>u. use \cap {"readd", "throw", "bypass", "nest", "grow"} = {}
  BY <1>p DEF Plain, Orderly
<1>r. /\ pc = "items" => ready = Ahead(Top.pos)
      /\ pc = "inItem" => ready = Ahead(Top.pos + 1)
      /\ pc \notin {"items", "inItem"} => ready = {}
  BY <1>p DEF Raised
<1>y. poller \in Pollers /\ Sound(poller)
  BY DEF Typed
<1>k. ASSUME UNCHANGED <<items, stack, ready, pc>>, RaisedIn(poller)' = RaisedIn(poller)  PROVE Goal
  BY <1>r, <1>k DEF Ahead, Top, Depth
<1>i. ASSUME pc = "idle", pc' = pc, ready' = ready  PROVE Goal
  BY <1>r, <1>i
<1>1. ASSUME NEW k \in Keys, NEW mask \in Masks, Add(k, mask)  PROVE Goal
  <2>1. pc = "idle" /\ pc' = pc /\ ready' = ready
    BY <1>0, <1>1, <1>u DEF Add, Called, UsersTurn
  <2> QED
    BY <1>i, <2>1
<1>2. ASSUME NEW k \in Keys, Remove(k)  PROVE Goal
  <2>1. pc \in {"idle", "inItem"} /\ UNCHANGED <<stack, ready>>
    BY <1>2 DEF Remove, Called, UsersTurn
  <2>2. CASE UNCHANGED <<items, poller, pc>>
    BY <1>k, <2>1, <2>2 DEF RaisedIn, PollerHas
  <2>3. CASE ~dispatching /\ Erase(k, Depth)
    <3>1. pc = "idle" /\ Depth = 0
      <4>1. pc = "idle"
        BY <1>0, <2>1, <2>3
      <4> QED
        BY <4>1 DEF Typed, Depth
    <3>2. pc' = pc
      BY <2>3, <3>1 DEF Erase
    <3> QED
      BY <1>i, <2>1, <3>1, <3>2
  <2> QED
    BY <1>2, <2>2, <2>3 DEF Remove
<1>3. ASSUME NEW k \in Keys, NEW mask \in Masks, CheckFor(k, mask)  PROVE Goal
  <2>1. /\ UNCHANGED <<items, stack, ready, pc>> /\ PollerHas(poller, k)
        /\ poller' = PollerCheckFor(poller, k, mask)
    BY <1>3 DEF CheckFor, Called
  <2>2. RaisedIn(poller)' = RaisedIn(poller)
    BY <1>y, <2>1, CheckForMaps, MasksAreFlags
  <2> QED
    BY <1>k, <2>1, <2>2
<1>4. ASSUME HandlerThrows \/ \E k \in Keys : BypassRemove(k)  PROVE Goal
  BY <1>4, <1>u DEF BypassRemove, HandlerThrows
<1>5. ASSUME Poll  PROVE Goal
  <2>1. pc' = "items" /\ stack' = Append(stack, [pos |-> 1, end |-> Len(items)]) /\ items' = items
    BY <1>5 DEF Poll
  <2>2. Top'.pos = 1 /\ Top'.end = Len(items)
    <3>1. stack \in Seq(Frames) /\ [pos |-> 1, end |-> Len(items)] \in Frames
      BY <1>0 DEF Typed, Frames
    <3>2. Len(stack') = Len(stack) + 1 /\ stack'[Len(stack) + 1] = [pos |-> 1, end |-> Len(items)]
      BY <2>1, <3>1, PushShape
    <3> QED
      BY <3>2 DEF Top, Depth
  <2>3. ready' = {items[i] : i \in {j \in 1..Len(items) : RaisedIn(poller')[items[j]] \cap Dispatched # {}}}
    BY <1>0, <1>5, PollRaises
  <2> QED
    BY <2>1, <2>2, <2>3 DEF Ahead
<1>6. ASSUME PollTimesOut  PROVE Goal
  BY <1>6, <1>u DEF PollTimesOut, PollersTurn
<1>7. ASSUME CallItem  PROVE Goal
  <2>0. pc = "items" /\ UNCHANGED <<poller, items>>
    BY <1>7 DEF CallItem
  <2>1. PICK i \in Top.pos..Top.end :
          /\ ReadyAt(i) /\ \A j \in Top.pos..(i - 1) : ~ReadyAt(j)
          /\ \/ /\ PollerHas(poller, items[i])
                /\ stack' = Append(Below, [pos |-> i, end |-> Top.end])
                /\ ready' = ready \ {items[i]}
                /\ pc' = "inItem"
             \/ ~PollerHas(poller, items[i])
    BY <1>7 DEF CallItem
  <2>2. Top.pos..Top.end \subseteq 1..Len(items) /\ i \in Int /\ Top.pos \in Int /\ Top.end \in Int
    BY <1>0, <2>0
  <2>3. \A j \in Top.pos..Top.end :
           /\ PollerHas(poller, items[j])
           /\ ReadyAt(j) <=> RaisedIn(poller)[items[j]] \cap Dispatched # {}
    BY <1>0, <2>2, ReadyIsRaised
  <2>4. /\ stack' = <<[pos |-> i, end |-> Top.end]>> /\ ready' = ready \ {items[i]}
        /\ pc' = "inItem"
    BY <1>0, <2>0, <2>1, <2>3
  <2>5. Top'.pos = i /\ Top'.end = Top.end
    BY <2>4 DEF Top, Depth
  <2>6. \A j \in Top.pos..Top.end : items[j] = items[i] => j = i
    <3>1. items \in Seq(Keys)
      BY DEF Typed
    <3>2. DOMAIN items = 1..Len(items)
      BY <3>1
    <3> QED
      BY <1>0, <2>2, <3>2 DEF Agreeing, Distinct
  <2>7. ready = {items[j] : j \in {n \in Top.pos..Top.end : RaisedIn(poller)[items[n]] \cap Dispatched # {}}}
    BY <1>r, <2>0 DEF Ahead
  <2>8. {n \in i + 1..Top.end : RaisedIn(poller)[items[n]] \cap Dispatched # {}}
          = {n \in Top.pos..Top.end : RaisedIn(poller)[items[n]] \cap Dispatched # {}} \ {i}
    <3>1. \A n \in Top.pos..Top.end : n \in Top.pos..(i - 1) \/ n = i \/ n \in i + 1..Top.end
      BY <2>2
    <3>2. \A n \in i + 1..Top.end : n \in Top.pos..Top.end /\ n # i
      BY <2>2
    <3> QED
      BY <2>1, <2>3, <3>1, <3>2
  <2>9. ready' = {items[j] : j \in {n \in i + 1..Top.end : RaisedIn(poller)[items[n]] \cap Dispatched # {}}}
    BY <2>4, <2>6, <2>7, <2>8
  <2> QED
    BY <2>0, <2>4, <2>5, <2>9 DEF Ahead
<1>8. ASSUME ItemReturns  PROVE Goal
  <2>1. /\ pc = "inItem" /\ pc' = "items" /\ UNCHANGED <<poller, items, ready>>
        /\ stack' = Append(Below, Advance)
    BY <1>8 DEF ItemReturns
  <2>2. stack' = <<Advance>>
    BY <1>0, <2>1
  <2>3. Top'.pos = Top.pos + 1 /\ Top'.end = Top.end
    BY <2>2 DEF Top, Depth, Advance
  <2> QED
    BY <1>r, <2>1, <2>3 DEF Ahead
<1>9. ASSUME ItemsDone  PROVE Goal
  <2>1. pc = "items" /\ pc' = "flush" /\ ready' = ready /\ \A i \in Top.pos..Top.end : ~ReadyAt(i)
    BY <1>9 DEF ItemsDone, ThenFlush
  <2>2. \A j \in Top.pos..Top.end : ReadyAt(j) <=> RaisedIn(poller)[items[j]] \cap Dispatched # {}
    <3>1. Top.pos..Top.end \subseteq 1..Len(items)
      BY <1>0, <2>1
    <3> QED
      BY <1>0, <3>1, ReadyIsRaised
  <2>3. Ahead(Top.pos) = {}
    BY <2>1, <2>2 DEF Ahead
  <2> QED
    BY <1>r, <2>1, <2>3
<1>10. ASSUME FlushItem  PROVE Goal
  <2>1. pc = "flush" /\ ready = {}
    BY <1>10, <1>r DEF FlushItem
  <2>2. ready' = {}
    BY <1>10, <2>1 DEF FlushItem, Escape
  <2>3. pc' \notin {"items", "inItem"}
    BY <1>10, <2>1 DEF FlushItem, Escape, Erase
  <2> QED
    BY <2>2, <2>3
<1>11. ASSUME FlushDone  PROVE Goal
  BY <1>11, <1>r DEF FlushDone
<1>12. ASSUME PollReturns  PROVE Goal
  BY <1>0, <1>12, <1>r DEF PollReturns
<1>13. CASE UNCHANGED vars
  BY <1>13, <1>k DEF vars, RaisedIn, PollerHas
<1> QED
  BY <1>1, <1>2, <1>3, <1>4, <1>5, <1>6, <1>7, <1>8, <1>9, <1>10, <1>11, <1>12, <1>13 DEF Next

(* poll() raises keys that are watched and calls, once, the handler of each *)
(* of them that is raised for input, output or an error and of no other,   *)
(* whatever the handlers before it removed: every step of the reactor is   *)
(* one of the dispatcher's or none.                                        *)
THEOREM ReactorImplementsDispatcher == Spec => Promised!DInit /\ ImplementsDispatcher
<1> DEFINE IInv == Typed /\ Alone /\ Ordered /\ Raised
           Kept == Promised!DNext \/ UNCHANGED Promised!dvars
<1>1. Init => Promised!DInit
  BY DEF Init, Promised!DInit
<1>2. Init => IInv
  <2>1. Init => Alone
    BY DEF Init, Alone, Depth
  <2> QED
    BY <2>1, TypedInit, OrderedInit, RaisedInit
<1>3. IInv /\ [Next]_vars => IInv'
  BY TypedNext, AloneNext, OrderedNext, RaisedNext
<1>4. IInv /\ [Next]_vars => (Orderly /\ use \cap {"nest", "grow"} = {} => Kept)
  <2> SUFFICES ASSUME Typed, Alone, Ordered, Raised, [Next]_vars, Plain  PROVE Kept
    BY DEF Plain
  <2> USE DEF state
  <2>0. /\ pc # "undefined" /\ Agreeing /\ Waiting /\ Within
        /\ pc \in {"items", "inItem"} => dispatching
        /\ Depth \in Nat /\ Depth <= 1 /\ Len(items) \in Nat
        /\ pc # "idle" => Depth = 1 /\ Top \in Frames /\ Below = <<>>
        /\ pc \in {"items", "inItem"} =>
             Top.pos \in Nat \ {0} /\ Top.end \in Nat /\ Top.end <= Len(items)
    BY PlainFacts
  <2>u. use \cap {"readd", "throw", "bypass", "nest", "grow"} = {}
    BY DEF Plain, Orderly
  <2>r. /\ pc = "items" => ready = Ahead(Top.pos)
        /\ pc = "inItem" => ready = Ahead(Top.pos + 1)
        /\ pc \notin {"items", "inItem"} => ready = {}
    BY DEF Raised
  <2>t. pc # "idle" => stack # <<>>
    <3>1. pc # "idle" => Len(stack) = 1
      BY <2>0 DEF Depth
    <3>2. Len(<<>>) = 0
      OBVIOUS
    <3> QED
      BY <3>1, <3>2
  <2>s. ASSUME UNCHANGED <<wanted, ready, pc, stack>>, pc = "inItem" => UNCHANGED items  PROVE Kept
    BY <2>s DEF Promised!dvars, Top, Depth
  <2>1. ASSUME NEW k \in Keys, NEW mask \in Masks, Add(k, mask)  PROVE Kept
    <3>1. pc = "idle" /\ pc' = pc /\ ready' = ready /\ wanted' = wanted \cup {k}
      BY <2>0, <2>1, <2>u DEF Add, Called, UsersTurn
    <3>2. Promised!Watch(k)
      BY <3>1 DEF Promised!Watch
    <3> QED
      BY <3>2 DEF Promised!DNext
  <2>2. ASSUME NEW k \in Keys, Remove(k)  PROVE Kept
    <3>1. pc \in {"idle", "inItem"} /\ UNCHANGED <<stack, ready>> /\ wanted' = wanted \ {k}
      BY <2>2 DEF Remove, Called, UsersTurn
    <3>2. pc' = pc /\ (pc = "inItem" => UNCHANGED items)
      <4>1. CASE UNCHANGED <<items, poller, pc>>
        BY <4>1
      <4>2. CASE ~dispatching /\ Erase(k, Depth)
        <5>1. pc = "idle"
          BY <2>0, <3>1, <4>2
        <5>2. Depth = 0
          BY <5>1 DEF Typed, Depth
        <5> QED
          BY <4>2, <5>1, <5>2 DEF Erase
      <4> QED
        BY <2>2, <4>1, <4>2 DEF Remove
    <3>3. Promised!Forget(k)
      BY <3>1, <3>2 DEF Promised!Forget, Top, Depth
    <3> QED
      BY <3>3 DEF Promised!DNext
  <2>3. ASSUME \E k \in Keys, mask \in Masks : CheckFor(k, mask)  PROVE Kept
    BY <2>3, <2>s DEF CheckFor, Called
  <2>4. ASSUME HandlerThrows \/ \E k \in Keys : BypassRemove(k)  PROVE Kept
    BY <2>4, <2>u DEF BypassRemove, HandlerThrows
  <2>5. ASSUME Poll  PROVE Kept
    <3>1. pc = "idle" /\ pc' = "items" /\ wanted' = wanted
      BY <2>5, <2>u DEF Poll, PollersTurn
    <3>2. ready' \subseteq wanted
      <4>1. ready' \subseteq WatchedIn(poller)
        BY <2>0, <2>5, PollRaises
      <4>2. Left = {}
        BY <2>0, <3>1 DEF Waiting, Left
      <4> QED
        BY <2>0, <4>1, <4>2 DEF Agreeing
    <3>3. Promised!Poll
      BY <3>1, <3>2 DEF Promised!Poll
    <3> QED
      BY <3>3 DEF Promised!DNext
  <2>6. ASSUME PollTimesOut  PROVE Kept
    <3>1. pc = "idle" /\ UNCHANGED <<wanted, pc, stack>> /\ ready' = {}
      BY <2>6, <2>u DEF PollTimesOut, PollersTurn
    <3> QED
      BY <2>r, <2>s, <3>1
  <2>7. ASSUME CallItem  PROVE Kept
    <3>0. pc = "items" /\ UNCHANGED <<poller, items, wanted>>
      BY <2>7 DEF CallItem
    <3>1. PICK i \in Top.pos..Top.end :
            /\ ReadyAt(i)
            /\ \/ /\ stack' = Append(Below, [pos |-> i, end |-> Top.end])
                  /\ ready' = ready \ {items[i]}
                  /\ pc' = "inItem"
               \/ ~PollerHas(poller, items[i])
      BY <2>7 DEF CallItem
    <3>2. /\ items[i] \in Keys /\ PollerHas(poller, items[i])
          /\ RaisedIn(poller)[items[i]] \cap Dispatched # {}
      <4>1. i \in 1..Len(items)
        BY <2>0, <3>0
      <4> QED
        BY <2>0, <3>1, <4>1, ReadyIsRaised
    <3>3. items[i] \in ready
      BY <2>r, <3>0, <3>2 DEF Ahead
    <3>4. stack' = <<[pos |-> i, end |-> Top.end]>> /\ ready' = ready \ {items[i]} /\ pc' = "inItem"
      BY <2>0, <3>0, <3>1, <3>2
    <3>5. Top'.pos = i
      BY <3>4 DEF Top, Depth
    <3>6. Promised!CallHandler(items[i])
      BY <3>0, <3>3, <3>4, <3>5 DEF Promised!CallHandler
    <3> QED
      BY <3>2, <3>6 DEF Promised!DNext
  <2>8. ASSUME ItemReturns  PROVE Kept
    <3>1. pc = "inItem" /\ pc' = "items" /\ UNCHANGED <<wanted, ready>>
      BY <2>8 DEF ItemReturns
    <3>2. Promised!Return
      BY <3>1 DEF Promised!Return
    <3> QED
      BY <3>2 DEF Promised!DNext
  <2>9. ASSUME ItemsDone  PROVE Kept
    <3>1. pc = "items" /\ pc' = "flush" /\ UNCHANGED <<ready, wanted>>
          /\ \A i \in Top.pos..Top.end : ~ReadyAt(i)
      BY <2>9 DEF ItemsDone, ThenFlush
    <3>2. Ahead(Top.pos) = {}
      <4>1. Top.pos..Top.end \subseteq 1..Len(items)
        BY <2>0, <3>1
      <4>2. \A j \in Top.pos..Top.end : ReadyAt(j) <=> RaisedIn(poller)[items[j]] \cap Dispatched # {}
        BY <2>0, <4>1, ReadyIsRaised
      <4> QED
        BY <3>1, <4>2 DEF Ahead
    <3>3. Promised!End
      BY <2>r, <3>1, <3>2 DEF Promised!End
    <3> QED
      BY <3>3 DEF Promised!DNext
  <2>q. ASSUME pc \notin {"items", "inItem"}, pc' \notin {"items", "inItem"}, UNCHANGED wanted,
               ready' = {}
        PROVE  Kept
    BY <2>q, <2>r DEF Promised!dvars
  <2>10. ASSUME FlushItem \/ FlushDone \/ PollReturns  PROVE Kept
    <3>1. pc \in {"flush", "returning"} /\ UNCHANGED wanted
      BY <2>10 DEF FlushItem, FlushDone, PollReturns
    <3>2. ready' = {}
      BY <2>10, <2>r, <3>1 DEF FlushItem, FlushDone, PollReturns, Escape
    <3>3. pc' \notin {"items", "inItem"}
      BY <2>0, <2>10, <3>1 DEF FlushItem, FlushDone, PollReturns, Escape, Erase
    <3> QED
      BY <2>q, <3>1, <3>2, <3>3
  <2>11. CASE UNCHANGED vars
    BY <2>s, <2>11 DEF vars
  <2> QED
    BY <2>1, <2>2, <2>3, <2>4, <2>5, <2>6, <2>7, <2>8, <2>9, <2>10, <2>11 DEF Next
<1> QED
  <2> HIDE DEF IInv, Kept
  <2>1. Spec => []IInv
    BY <1>2, <1>3, PTL DEF Spec
  <2>2. Spec => [][Orderly /\ use \cap {"nest", "grow"} = {} => Kept]_vars
    BY <1>4, <2>1, PTL DEF Spec
  <2>3. ImplementsDispatcher <=> [][Orderly /\ use \cap {"nest", "grow"} = {} => Kept]_vars
    BY DEF ImplementsDispatcher, Kept
  <2> QED
    BY <1>1, <2>2, <2>3, PTL DEF Spec
===============================================================================
