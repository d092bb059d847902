------------------------------ MODULE LoopProofs ------------------------------
(***************************************************************************)
(* Theorems about zmqpp::loop for every set of sockets, descriptors and    *)
(* timers, every delay and every bound.                                    *)
(***************************************************************************)
EXTENDS Loop, PollTableProofs

-------------------------------------------------------------------------------
(* No removal is pending when the items' turn comes. *)

(* Between the flush and the items' turn, a pending removal shows in       *)
(* rebuild_poller_.                                                        *)
PendingShows ==
  /\ pc \in {"poll", "polling", "polled", "timers", "inTimer"} /\ ~rebuild =>
       fdLater = <<>> /\ sockLater = <<>>
  /\ rebuild \in BOOLEAN

(* No removal is pending before the first call. *)
LEMMA PendingInit == Init => PendingShows
BY DEF Init, PendingShows

(* Every removal put off sets rebuild_poller_, which only Loopback resets. *)
LEMMA PendingNext == PendingShows /\ [Next]_vars => PendingShows'
<1> SUFFICES ASSUME PendingShows, [Next]_vars PROVE PendingShows'
  OBVIOUS
<1> USE DEF PendingShows, laters, runVars, loopVars
<1>1. ASSUME UserCalls  PROVE PendingShows'
  BY <1>1 DEF UserCalls, AddItem, RemoveItem, AddTimer, ResetTimer, RemoveTimer, Called, UsersTurn
<1>2. ASSUME Start  PROVE PendingShows'
  BY <1>2 DEF Start, NextRound, BeginFlush
<1>3. ASSUME FlushItem  PROVE PendingShows'
  BY <1>3 DEF FlushItem, Escape, BeginFlush, Stopped
<1>4. ASSUME FlushTimers  PROVE PendingShows'
  BY <1>4 DEF FlushTimers, Stopped
<1>5. ASSUME BeginPoll \/ PollEnds \/ EnterTimers  PROVE PendingShows'
  BY <1>5 DEF BeginPoll, PollEnds, PollReturns, PollInterrupted, PollThrows, EnterTimers, Escape,
              BeginFlush, Stopped
<1>6. ASSUME FireTimer \/ TimersDone \/ CallItem \/ ItemsDone  PROVE PendingShows'
  BY <1>6 DEF FireTimer, TimersDone, CallItem, ItemsDone, Loopback, NextRound, BeginFlush
<1>7. ASSUME HandlerReturns \/ HandlerThrows  PROVE PendingShows'
  BY <1>7 DEF HandlerReturns, HandlerThrows, TimerReturns, ItemReturns, Leave, Escape, BeginFlush, Stopped
<1>8. ASSUME Tick \/ UNCHANGED vars  PROVE PendingShows'
  BY <1>8 DEF Tick, vars
<1> QED
  BY <1>1, <1>2, <1>3, <1>4, <1>5, <1>6, <1>7, <1>8 DEF Next, Proceed

(* Whatever callers do: start_handle_poller begins with nothing to remove, *)
(* so a socket removed by a timer's handler is not called in that round.   *)
THEOREM LoopDispatchStartsClean == Spec => DispatchStartsClean
<1>1. Spec => []PendingShows
  BY PendingInit, PendingNext, PTL DEF Spec
<1>2. PendingShows /\ [Next]_vars => [pc = "timers" /\ pc' = "items" => Pending = <<>>]_vars
  <2> SUFFICES ASSUME PendingShows, Next, pc = "timers", pc' = "items"
               PROVE  Pending = <<>>
    OBVIOUS
  <2>1. ~rebuild
    BY DEF PendingShows, Next, UserCalls, AddItem, RemoveItem, AddTimer, ResetTimer, RemoveTimer,
           Called, UsersTurn, Start, Proceed, FlushItem, FlushTimers, BeginPoll, PollEnds, PollReturns,
           PollInterrupted, PollThrows, EnterTimers, FireTimer, TimersDone, SkipItems, Loopback,
           NextRound, BeginFlush, CallItem, ItemsDone, HandlerReturns, TimerReturns, ItemReturns,
           HandlerThrows, Tick
  <2>2. fdLater = <<>> /\ sockLater = <<>>
    BY <2>1 DEF PendingShows
  <2> QED
    BY <2>2 DEF Pending
<1> QED
  BY <1>1, <1>2, PTL DEF Spec, DispatchStartsClean

-------------------------------------------------------------------------------
(* With the plain use nothing undefined is reached. *)

(* dispatching_ is set in the two dispatch phases and nowhere else. *)
DispatchingKnown ==
  /\ dispatching <=> pc \in {"timers", "inTimer", "items", "inItem"}
  /\ pc # "undefined"
  /\ dispatching \in BOOLEAN

PlainUse == use \cap {"throw", "grow"} = {}

(* What users do besides is settled at the beginning. *)
LEMMA UseIsKept == [Next]_vars => use' = use
<1> SUFFICES ASSUME [Next]_vars PROVE use' = use
  OBVIOUS
<1>1. ASSUME UserCalls  PROVE use' = use
  BY <1>1 DEF UserCalls, AddItem, RemoveItem, AddTimer, ResetTimer, RemoveTimer
<1>2. ASSUME Start \/ Proceed  PROVE use' = use
  BY <1>2 DEF Start, Proceed, FlushItem, FlushTimers, BeginPoll, EnterTimers, FireTimer, TimersDone,
              CallItem, ItemsDone
<1>3. ASSUME PollEnds \/ HandlerReturns \/ HandlerThrows  PROVE use' = use
  BY <1>3 DEF PollEnds, PollReturns, PollInterrupted, PollThrows, HandlerReturns, TimerReturns,
              ItemReturns, HandlerThrows
<1>4. ASSUME Tick \/ UNCHANGED vars  PROVE use' = use
  BY <1>4 DEF Tick, vars
<1> QED
  BY <1>1, <1>2, <1>3, <1>4 DEF Next

(* dispatching_ is clear before start(). *)
LEMMA DispatchingInit == Init => DispatchingKnown
BY DEF Init, DispatchingKnown

(* Every way out of the dispatch phases resets dispatching_. *)
LEMMA DispatchingNext ==
  ASSUME PlainUse, DispatchingKnown, [Next]_vars PROVE DispatchingKnown'
<1> USE DEF DispatchingKnown, runVars, loopVars
<1>1. ASSUME UserCalls  PROVE DispatchingKnown'
  <2>1. ASSUME NEW k \in Keys, NEW mask \in Masks, AddItem(k, mask)  PROVE DispatchingKnown'
    <3>1. pc' = pc /\ dispatching' = dispatching
      BY <2>1 DEF PlainUse, AddItem
    <3> QED
      BY <3>1
  <2>2. ASSUME NEW k \in Keys, RemoveItem(k)  PROVE DispatchingKnown'
    BY <2>2 DEF RemoveItem
  <2>3. ASSUME NEW id \in Timers, NEW delay \in Delays, NEW times \in Times, AddTimer(id, delay, times)
        PROVE  DispatchingKnown'
    BY <2>3 DEF AddTimer
  <2>4. ASSUME NEW id \in Timers, ResetTimer(id) \/ RemoveTimer(id)  PROVE DispatchingKnown'
    BY <2>4 DEF ResetTimer, RemoveTimer
  <2> QED
    BY <1>1, <2>1, <2>2, <2>3, <2>4 DEF UserCalls
<1>2. ASSUME Start  PROVE DispatchingKnown'
  BY <1>2 DEF Start, NextRound, BeginFlush
<1>3. ASSUME FlushItem  PROVE DispatchingKnown'
  BY <1>3 DEF FlushItem, Escape, BeginFlush, Stopped
<1>4. ASSUME FlushTimers  PROVE DispatchingKnown'
  <2>1. ~dispatching /\ dispatching' = dispatching
    BY <1>4 DEF FlushTimers
  <2>2. pc' \in {"poll", "idle", "returned"}
    BY <1>4, <2>1 DEF FlushTimers, Stopped
  <2> QED
    BY <2>1, <2>2
<1>5. ASSUME BeginPoll \/ PollEnds \/ EnterTimers  PROVE DispatchingKnown'
  <2>1. CASE BeginPoll
    BY <2>1 DEF BeginPoll
  <2>2. CASE PollReturns
    BY <2>2 DEF PollReturns
  <2>3. CASE PollInterrupted
    BY <2>3 DEF PollInterrupted
  <2>4. CASE PollThrows
    BY <2>4 DEF PollThrows, Escape, BeginFlush, Stopped
  <2>5. CASE EnterTimers
    BY <2>5 DEF EnterTimers
  <2> QED
    BY <1>5, <2>1, <2>2, <2>3, <2>4, <2>5 DEF PollEnds
<1>6. ASSUME FireTimer \/ TimersDone \/ CallItem \/ ItemsDone  PROVE DispatchingKnown'
  BY <1>6 DEF FireTimer, TimersDone, CallItem, ItemsDone, Loopback, NextRound, BeginFlush
<1>7. ASSUME HandlerReturns \/ HandlerThrows  PROVE DispatchingKnown'
  <2>1. ASSUME NEW ok \in BOOLEAN, TimerReturns(ok) \/ ItemReturns(ok)  PROVE DispatchingKnown'
    <3>1. CASE ok
      BY <2>1, <3>1 DEF TimerReturns, ItemReturns
    <3>2. CASE ~ok
      <4>1. Leave
        BY <2>1, <3>2 DEF TimerReturns, ItemReturns
      <4> QED
        BY <4>1 DEF Leave, BeginFlush
    <3> QED
      BY <3>1, <3>2
  <2>2. ~HandlerThrows
    BY DEF PlainUse, HandlerThrows
  <2> QED
    BY <1>7, <2>1, <2>2 DEF HandlerReturns
<1>8. ASSUME Tick \/ UNCHANGED vars  PROVE DispatchingKnown'
  BY <1>8 DEF Tick, vars
<1> QED
  BY <1>1, <1>2, <1>3, <1>4, <1>5, <1>6, <1>7, <1>8 DEF Next, Proceed

Calm == PlainUse => DispatchingKnown

(* With the plain use, the flush always finds dispatching_ reset. *)
LEMMA CalmInvariant == (Init => Calm) /\ (Calm /\ [Next]_vars => Calm')
<1>1. Init => Calm
  BY DispatchingInit DEF Calm
<1>2. Calm /\ [Next]_vars => Calm'
  <2> SUFFICES ASSUME Calm, [Next]_vars, PlainUse' PROVE DispatchingKnown'
    BY DEF Calm
  <2>1. PlainUse
    BY UseIsKept DEF PlainUse
  <2> QED
    BY <2>1, DispatchingNext DEF Calm
<1> QED
  BY <1>1, <1>2

(* When no handler throws and no socket's handler adds a socket, the flush *)
(* always finds dispatching_ reset, whatever else callers do: no list is   *)
(* appended to while it is walked.                                         *)
THEOREM LoopNothingUndefined == Spec => []NothingUndefined
<1>1. Calm => NothingUndefined
  BY DEF Calm, PlainUse, DispatchingKnown, NothingUndefined
<1> QED
  BY <1>1, CalmInvariant, PTL DEF Spec

-------------------------------------------------------------------------------
(* The poller inside the loop. *)

(* The types of what flush_remove_later hands to the poller, and entries   *)
(* that are sound.                                                         *)
PollerInv ==
  /\ poller \in Pollers /\ Sound(poller)
  /\ fdLater \in Seq(Fds) /\ sockLater \in Seq(Sockets)
  /\ pc \in {"flush", "exiting"} => end \in Nat

(* The loop's poller starts empty, and so sound. *)
LEMMA PollerInit == Init => PollerInv
BY EmptyWellFormed DEF Init, PollerInv

(* Whatever the loop does to its poller keeps it sound. *)
LEMMA PollerNext == PollerInv /\ [Next]_vars => PollerInv'
<1> SUFFICES ASSUME PollerInv, [Next]_vars PROVE PollerInv'
  OBVIOUS
<1> USE DEF PollerInv, runVars, loopVars, laters
<1>1. ASSUME UserCalls  PROVE PollerInv'
  <2>1. ASSUME NEW k \in Keys, NEW mask \in Masks, AddItem(k, mask)  PROVE PollerInv'
    BY <2>1, AddWellFormed, MasksAreFlags DEF AddItem
  <2>2. ASSUME NEW k \in Keys, RemoveItem(k)  PROVE PollerInv'
    <3>1. poller' \in Pollers /\ Sound(poller')
      BY <2>2, RemoveWellFormed DEF RemoveItem
    <3>2. CASE dispatching /\ k \in Fds
      BY <2>2, <3>1, <3>2 DEF RemoveItem
    <3>3. CASE dispatching /\ k \notin Fds
      BY <2>2, <3>1, <3>3 DEF RemoveItem, Keys
    <3>4. CASE ~dispatching
      BY <2>2, <3>1, <3>4 DEF RemoveItem
    <3> QED
      BY <3>2, <3>3, <3>4
  <2>3. ASSUME NEW id \in Timers, NEW delay \in Delays, NEW times \in Times, AddTimer(id, delay, times)
        PROVE  PollerInv'
    BY <2>3 DEF AddTimer
  <2>4. ASSUME NEW id \in Timers, ResetTimer(id) \/ RemoveTimer(id)  PROVE PollerInv'
    BY <2>4 DEF ResetTimer, RemoveTimer
  <2> QED
    BY <1>1, <2>1, <2>2, <2>3, <2>4 DEF UserCalls
<1>2. ASSUME Start  PROVE PollerInv'
  BY <1>2 DEF Start, NextRound, BeginFlush
<1>3. ASSUME FlushItem  PROVE PollerInv'
  <2>1. CASE dispatching
    BY <1>3, <2>1 DEF FlushItem
  <2>2. CASE ~dispatching
    <3>1. Pending \in Seq(Keys) /\ end + 1 \in 1..Len(Pending)
      BY <1>3 DEF FlushItem, Pending, Keys
    <3>2. Pending[end + 1] \in Keys
      BY <3>1
    <3>3. poller' = PollerRemove(poller, Pending[end + 1])
      BY <1>3, <2>2 DEF FlushItem
    <3>4. poller' \in Pollers /\ Sound(poller')
      BY <3>2, <3>3, RemoveWellFormed
    <3> QED
      BY <1>3, <2>2, <3>4 DEF FlushItem, Escape, BeginFlush
  <2> QED
    BY <2>1, <2>2
<1>4. ASSUME FlushTimers  PROVE PollerInv'
  <2>1. UNCHANGED poller /\ end' = 0
    BY <1>4 DEF FlushTimers
  <2>2. \/ UNCHANGED <<fdLater, sockLater>>
        \/ fdLater' = <<>> /\ sockLater' = <<>>
    BY <1>4 DEF FlushTimers
  <2>3. poller' \in Pollers /\ Sound(poller')
    <3>1. Sound(poller) => Sound(poller')
      BY <2>1 DEF Sound
    <3> QED
      BY <2>1, <3>1
  <2>4. fdLater' \in Seq(Fds) /\ sockLater' \in Seq(Sockets)
    <3>1. CASE UNCHANGED <<fdLater, sockLater>>
      <4>1. fdLater' = fdLater /\ sockLater' = sockLater
        BY <3>1
      <4> QED
        BY <4>1
    <3>2. CASE fdLater' = <<>> /\ sockLater' = <<>>
      <4>1. <<>> \in Seq(Fds) /\ <<>> \in Seq(Sockets)
        OBVIOUS
      <4> QED
        BY <3>2, <4>1
    <3> QED
      BY <2>2, <3>1, <3>2
  <2> QED
    BY <2>1, <2>3, <2>4
<1>5. ASSUME PollReturns  PROVE PollerInv'
  <2>1. PICK rev \in Readiness(poller) : poller' = PollerRaise(poller, rev)
    BY <1>5 DEF PollReturns
  <2>2. rev \in [DOMAIN poller.items -> SUBSET Flags]
    BY ReadinessIs
  <2>3. poller' \in Pollers /\ Sound(poller')
    BY <2>1, <2>2, RaiseWellFormed
  <2>4. UNCHANGED <<fdLater, sockLater>> /\ pc' = "polled"
    BY <1>5 DEF PollReturns
  <2> QED
    BY <2>3, <2>4
<1>6. ASSUME BeginPoll \/ PollInterrupted \/ PollThrows \/ EnterTimers  PROVE PollerInv'
  BY <1>6 DEF BeginPoll, PollInterrupted, PollThrows, EnterTimers, Escape, BeginFlush
<1>7. ASSUME FireTimer \/ CallItem \/ ItemsDone  PROVE PollerInv'
  BY <1>7 DEF FireTimer, CallItem, ItemsDone, Loopback, NextRound, BeginFlush
<1>8. ASSUME TimersDone  PROVE PollerInv'
  BY <1>8 DEF TimersDone, Loopback, NextRound, BeginFlush
<1>9. ASSUME HandlerReturns \/ HandlerThrows  PROVE PollerInv'
  BY <1>9 DEF HandlerReturns, HandlerThrows, TimerReturns, ItemReturns, Leave, Escape, BeginFlush
<1>10. ASSUME Tick \/ UNCHANGED vars  PROVE PollerInv'
  BY <1>10 DEF Tick, vars
<1> QED
  BY <1>1, <1>2, <1>3, <1>4, <1>5, <1>6, <1>7, <1>8, <1>9, <1>10 DEF Next, Proceed, PollEnds

(* Whatever callers do, adding keys that are watched or whose removal is    *)
(* pending and throwing included, an entry of the loop's poller names an    *)
(* item of its own key: no handler is called on the events of another      *)
(* socket.                                                                 *)
THEOREM LoopPollerSound == Spec => []PollerStaysSound
<1>1. PollerInv => PollerStaysSound
  BY DEF PollerInv, PollerStaysSound
<1> QED
  BY <1>1, PollerInit, PollerNext, PTL DEF Spec

-------------------------------------------------------------------------------
(* Handlers and the poller. *)

(* Every key with a handler is one that the poller knows. *)
Known == items \in Seq(Keys) /\ Range(items) \subseteq WatchedIn(poller)

(* What is pending are keys. *)
LEMMA PendingTyped ==
  ASSUME fdLater \in Seq(Fds), sockLater \in Seq(Sockets)
  PROVE  /\ Pending \in Seq(Keys) /\ Len(Pending) \in Nat
         /\ \A i \in 1..Len(Pending) : Pending[i] \in Keys /\ Pending[i] \in Range(Pending)
<1>1. Pending \in Seq(Keys)
  BY DEF Pending, Keys
<1> QED
  BY <1>1 DEF Range

(* Before the first call nobody has a handler. *)
LEMMA KnownInit == Init => Known
<1>1. <<>> \in Seq(Keys) /\ Range(<<>>) = {}
  BY DEF Range
<1> QED
  BY <1>1 DEF Init, Known

(* One removal, by the user or by the flush. *)
LEMMA KnownErase ==
  ASSUME PollerInv, Known, NEW k \in Keys, items' = Erased(items, k), poller' = PollerRemove(poller, k)
  PROVE  Known'
<1>1. items' \in Seq(Keys) /\ Range(items') = Range(items) \ {k}
  BY ErasedShape DEF Known
<1>2. WatchedIn(poller') = WatchedIn(poller) \ {k}
  BY WatchedMaps DEF PollerInv
<1> QED
  BY <1>1, <1>2 DEF Known

(* A step that is none of the calls on the items, the flush of one or a     *)
(* poll's end leaves the items and the poller alone.                       *)
LEMMA QuietItems ==
  ASSUME [Next]_vars
  PROVE  \/ \E k \in Keys : RemoveItem(k) \/ \E mask \in Masks : AddItem(k, mask)
         \/ FlushItem
         \/ PollReturns
         \/ UNCHANGED <<poller, items>>
<1> USE DEF loopVars, runVars
<1>1. CASE UserCalls
  BY <1>1 DEF UserCalls, AddTimer, ResetTimer, RemoveTimer
<1>2. CASE Start \/ FlushTimers \/ BeginPoll \/ EnterTimers \/ FireTimer
  BY <1>2 DEF Start, FlushTimers, BeginPoll, EnterTimers, FireTimer
<1>3. CASE TimersDone \/ CallItem \/ ItemsDone
  BY <1>3 DEF TimersDone, CallItem, ItemsDone
<1>4. CASE PollInterrupted \/ PollThrows \/ HandlerReturns \/ HandlerThrows
  BY <1>4 DEF PollInterrupted, PollThrows, HandlerReturns, TimerReturns, ItemReturns, HandlerThrows
<1>5. CASE Tick \/ UNCHANGED vars
  BY <1>5 DEF Tick, vars
<1> QED
  BY <1>1, <1>2, <1>3, <1>4, <1>5 DEF Next, Proceed, PollEnds

(* Every step, throwing flushes included, keeps who has a handler known to *)
(* the poller.                                                             *)
LEMMA KnownNext == PollerInv /\ Known /\ [Next]_vars => Known'
<1> SUFFICES ASSUME PollerInv, Known, [Next]_vars PROVE Known'
  OBVIOUS
<1>0. poller \in Pollers /\ Sound(poller) /\ items \in Seq(Keys)
  BY DEF PollerInv, Known
<1>1. ASSUME NEW k \in Keys, NEW mask \in Masks, AddItem(k, mask)  PROVE Known'
  <2>1. items' = Append(items, k) /\ poller' = PollerAdd(poller, k, mask)
    BY <1>1 DEF AddItem
  <2>2. Range(items') = Range(items) \cup {k} /\ items' \in Seq(Keys)
    <3>1. Pushed(items', items, k)
      BY <1>0, <2>1 DEF Pushed
    <3>2. Range(items') = Range(items) \cup {k}
      BY <3>1, PushedRange
    <3> QED
      BY <1>0, <2>1, <3>2
  <2>3. WatchedIn(poller') = WatchedIn(poller) \cup {k}
    BY <1>0, <2>1, WatchedMaps
  <2> QED
    BY <2>2, <2>3 DEF Known
<1>2. ASSUME NEW k \in Keys, RemoveItem(k)  PROVE Known'
  <2>1. CASE UNCHANGED <<items, poller>>
    BY <2>1 DEF Known, WatchedIn, PollerHas
  <2>2. CASE items' = Erased(items, k) /\ poller' = PollerRemove(poller, k)
    BY <2>2, KnownErase
  <2> QED
    BY <1>2, <2>1, <2>2 DEF RemoveItem
<1>3. ASSUME FlushItem  PROVE Known'
  <2>1. end + 1 \in 1..Len(Pending)
    <3>1. end \in Nat /\ Len(Pending) \in Nat /\ end < Len(Pending)
      BY <1>3, PendingTyped DEF PollerInv, FlushItem
    <3> QED
      BY <3>1
  <2>2. Pending[end + 1] \in Keys
    BY <2>1, PendingTyped DEF PollerInv
  <2>3. CASE UNCHANGED <<items, poller>>
    BY <2>3 DEF Known, WatchedIn, PollerHas
  <2>4. CASE /\ items' = Erased(items, Pending[end + 1])
             /\ poller' = PollerRemove(poller, Pending[end + 1])
    BY <2>2, <2>4, KnownErase
  <2> QED
    BY <1>3, <2>3, <2>4 DEF FlushItem
<1>4. ASSUME PollReturns  PROVE Known'
  <2>1. PICK rev \in Readiness(poller) : poller' = PollerRaise(poller, rev)
    BY <1>4 DEF PollReturns
  <2>2. WatchedIn(poller') = WatchedIn(poller)
    BY <1>0, <2>1, ReadinessIs, RaiseMaps
  <2>3. items' = items
    BY <1>4 DEF PollReturns
  <2> QED
    BY <2>2, <2>3 DEF Known
<1>5. CASE UNCHANGED <<poller, items>>
  BY <1>5 DEF Known, WatchedIn, PollerHas
<1> QED
  BY <1>1, <1>2, <1>3, <1>4, <1>5, QuietItems

-------------------------------------------------------------------------------
(* The items, the poller and what the user wants. *)

Flushing == pc \in {"flush", "exiting"}

(* The removals that a flush has not come to. *)
Left == {Pending[i] : i \in (IF Flushing THEN end ELSE 0) + 1..Len(Pending)}

(* The items and the poller agree, and are those that the user wants and   *)
(* those whose removal waits.                                              *)
Agreeing ==
  /\ Complete(poller) /\ Distinct(items) /\ Range(items) = WatchedIn(poller)
  /\ wanted \subseteq Range(items) /\ Range(items) \subseteq wanted \cup Left
  /\ wanted \cap Range(Pending) = {}

(* Nothing waits for a removal where a poll begins. *)
Waiting ==
  /\ dispatching <=> pc \in {"timers", "inTimer", "items", "inItem"}
  /\ pc \in {"idle", "returned", "poll", "polling", "polled"} => Pending = <<>>
  /\ Flushing => end <= Len(Pending)

Ordered == Orderly /\ pc # "undefined" => Agreeing /\ Waiting

(* What is pending for descriptors and for sockets. *)
LEMMA PendingRange ==
  ASSUME fdLater \in Seq(Fds), sockLater \in Seq(Sockets)
  PROVE  /\ Range(Pending) = Range(fdLater) \cup Range(sockLater)
         /\ Range(Pending) = {Pending[i] : i \in 0 + 1..Len(Pending)}
         /\ Pending = <<>> => fdLater = <<>> /\ sockLater = <<>>
<1>1. Joined(Pending, fdLater, sockLater) /\ DOMAIN Pending = 0 + 1..Len(Pending)
  BY DEF Joined, Pending
<1>2. Range(Pending) = Range(fdLater) \cup Range(sockLater)
  BY <1>1, JoinedRange
<1>3. Range(Pending) = {Pending[i] : i \in 0 + 1..Len(Pending)}
  BY <1>1 DEF Range
<1>4. Pending = <<>> => fdLater = <<>> /\ sockLater = <<>>
  BY DEF Pending
<1> QED
  BY <1>2, <1>3, <1>4

(* The same after a step. *)
LEMMA PendingRangeNext ==
  ASSUME fdLater' \in Seq(Fds), sockLater' \in Seq(Sockets)
  PROVE  /\ Range(Pending') = Range(fdLater') \cup Range(sockLater')
         /\ Range(Pending') = {Pending'[i] : i \in 0 + 1..Len(Pending')}
<1>1. PICK f, s, p : f = fdLater' /\ s = sockLater' /\ p = Pending'
  OBVIOUS
<1>2. f \in Seq(Fds) /\ s \in Seq(Sockets) /\ p = f \o s
  BY <1>1 DEF Pending
<1>3. Joined(p, f, s) /\ DOMAIN p = 0 + 1..Len(p)
  BY <1>2 DEF Joined
<1>4. Range(p) = Range(f) \cup Range(s)
  BY <1>3, JoinedRange
<1>5. Range(p) = {p[i] : i \in 0 + 1..Len(p)}
  BY <1>3 DEF Range
<1> QED
  BY <1>1, <1>4, <1>5

(* Nothing is pending. *)
LEMMA NothingPending ==
  /\ Range(<<>>) = {} /\ Len(<<>>) = 0
  /\ fdLater = <<>> /\ sockLater = <<>> => Pending = <<>>
  /\ fdLater' = <<>> /\ sockLater' = <<>> => Pending' = <<>>
<1>1. <<>> \o <<>> = <<>> /\ Range(<<>>) = {} /\ Len(<<>>) = 0
  BY DEF Range
<1> QED
  BY <1>1 DEF Pending

(* One removal more is put off. *)
LEMMA PutOff ==
  ASSUME PollerInv, NEW k \in Keys,
         IF k \in Fds THEN fdLater' = Append(fdLater, k) /\ UNCHANGED sockLater
                      ELSE sockLater' = Append(sockLater, k) /\ UNCHANGED fdLater
  PROVE  Range(Pending') = Range(Pending) \cup {k}
<1>1. /\ fdLater' \in Seq(Fds) /\ sockLater' \in Seq(Sockets)
      /\ Range(fdLater') \cup Range(sockLater') = Range(fdLater) \cup Range(sockLater) \cup {k}
  <2>1. CASE k \in Fds
    <3>1. fdLater \in Seq(Fds) /\ fdLater' = Append(fdLater, k) /\ sockLater' = sockLater
      BY <2>1 DEF PollerInv
    <3>2. Pushed(fdLater', fdLater, k)
      BY <2>1, <3>1 DEF Pushed
    <3>4. Range(fdLater') = Range(fdLater) \cup {k}
      BY <3>2, PushedRange
    <3>5. fdLater' \in Seq(Fds)
      BY <2>1, <3>1
    <3>6. sockLater' \in Seq(Sockets)
      BY <3>1 DEF PollerInv
    <3> QED
      BY <3>1, <3>4, <3>5, <3>6
  <2>2. CASE k \notin Fds
    <3>1. /\ sockLater \in Seq(Sockets) /\ sockLater' = Append(sockLater, k) /\ fdLater' = fdLater
          /\ k \in Sockets
      BY <2>2 DEF PollerInv, Keys
    <3>2. Pushed(sockLater', sockLater, k)
      BY <3>1 DEF Pushed
    <3>4. Range(sockLater') = Range(sockLater) \cup {k}
      BY <3>2, PushedRange
    <3>5. sockLater' \in Seq(Sockets)
      BY <3>1
    <3>6. fdLater' \in Seq(Fds)
      BY <3>1 DEF PollerInv
    <3> QED
      BY <3>1, <3>4, <3>5, <3>6
  <2> QED
    BY <2>1, <2>2
<1>2. Range(Pending') = Range(fdLater') \cup Range(sockLater')
  BY <1>1, PendingRangeNext
<1>3. Range(Pending) = Range(fdLater) \cup Range(sockLater)
  BY PendingRange DEF PollerInv
<1> QED
  BY <1>1, <1>2, <1>3

(* One removal is made, of the items and of the poller. *)
LEMMA EraseAgrees ==
  ASSUME PollerInv, Known, Agreeing,
         NEW k \in Keys, items' = Erased(items, k), poller' = PollerRemove(poller, k)
  PROVE  /\ Complete(poller)' /\ Distinct(items)' /\ (Range(items) = WatchedIn(poller))'
         /\ Range(items') = Range(items) \ {k} /\ ~RemoveThrows(poller, k)
<1>1. poller \in Pollers /\ Sound(poller) /\ items \in Seq(Keys) /\ Complete(poller)
  BY DEF PollerInv, Known, Agreeing
<1>2. Complete(poller') /\ ~RemoveThrows(poller, k) /\ WatchedIn(poller') = WatchedIn(poller) \ {k}
  BY <1>1, RemoveWellFormed, WatchedMaps
<1>3. Range(items') = Range(items) \ {k} /\ Distinct(items')
  BY <1>1, ErasedShape DEF Agreeing, Distinct
<1> QED
  BY <1>2, <1>3 DEF Agreeing

(* A step that leaves the lists alone, at a place where as much is left. *)
LEMMA SameAgreeing ==
  ASSUME Agreeing, UNCHANGED <<items, wanted, fdLater, sockLater>>, Left' = Left,
         Complete(poller)', WatchedIn(poller)' = WatchedIn(poller)
  PROVE  Agreeing'
BY DEF Agreeing, Pending, Distinct

(* Before the first call nobody wants anything. *)
LEMMA OrderedInit == Init => Ordered
<1> SUFFICES ASSUME Init PROVE Agreeing /\ Waiting
  BY DEF Ordered
<1>1. /\ poller = EmptyPoller /\ items = <<>> /\ fdLater = <<>> /\ sockLater = <<>>
      /\ dispatching = FALSE /\ pc = "idle" /\ wanted = {}
  BY DEF Init
<1>2. Pending = <<>> /\ Range(Pending) = {} /\ Range(items) = {}
  BY <1>1, NothingPending
<1>3. Complete(poller) /\ WatchedIn(poller) = {}
  BY <1>1, EmptyWellFormed DEF WatchedIn, PollerHas, EmptyPoller
<1>4. Distinct(items)
  BY <1>1 DEF Distinct
<1>5. Waiting
  BY <1>1, <1>2 DEF Waiting, Flushing
<1> QED
  BY <1>1, <1>2, <1>3, <1>4, <1>5 DEF Agreeing

(* Every step keeps the items and the poller to what the user wants. *)
LEMMA OrderedNext == PollerInv /\ Known /\ Ordered /\ [Next]_vars => Ordered'
<1> SUFFICES ASSUME PollerInv, Known, Ordered, [Next]_vars, Orderly', pc' # "undefined"
             PROVE  Agreeing' /\ Waiting'
  BY DEF Ordered
<1> DEFINE Goal == Agreeing' /\ Waiting'
<1> USE DEF loopVars, runVars, laters
<1>o. Orderly /\ pc # "undefined"
  <2>1. Orderly
    BY UseIsKept DEF Orderly
  <2>2. ASSUME pc = "undefined"  PROVE pc' = pc
    <3>1. CASE UserCalls
      BY <2>2, <3>1 DEF UserCalls, AddItem, RemoveItem, AddTimer, ResetTimer, RemoveTimer, Called, UsersTurn
    <3>2. CASE Start \/ Proceed
      BY <2>2, <3>2 DEF Start, Proceed, FlushItem, FlushTimers, BeginPoll, EnterTimers, FireTimer, TimersDone,
                  CallItem, ItemsDone
    <3>3. CASE PollEnds \/ HandlerReturns \/ HandlerThrows
      BY <2>2, <3>3 DEF PollEnds, PollReturns, PollInterrupted, PollThrows, HandlerReturns, TimerReturns,
                  ItemReturns, HandlerThrows
    <3>4. CASE Tick \/ UNCHANGED vars
      BY <2>2, <3>4 DEF Tick, vars
    <3> QED
      BY <3>1, <3>2, <3>3, <3>4 DEF Next
  <2> QED
    BY <2>1, <2>2
<1>0. Agreeing /\ Waiting
  BY <1>o DEF Ordered
<1>y. /\ poller \in Pollers /\ Sound(poller) /\ items \in Seq(Keys)
      /\ fdLater \in Seq(Fds) /\ sockLater \in Seq(Sockets)
  BY DEF PollerInv, Known
<1>a. /\ Complete(poller) /\ Distinct(items) /\ Range(items) = WatchedIn(poller)
      /\ wanted \subseteq Range(items) /\ Range(items) \subseteq wanted \cup Left
      /\ wanted \cap Range(Pending) = {}
  BY <1>0 DEF Agreeing
<1>d. dispatching <=> pc \in {"timers", "inTimer", "items", "inItem"}
  BY <1>0 DEF Waiting
<1>e. pc \in {"idle", "returned", "poll", "polling", "polled"} => Pending = <<>>
  BY <1>0 DEF Waiting
<1>l. ~Flushing => Left = Range(Pending)
  BY <1>y, PendingRange DEF Left
<1>s. UNCHANGED poller => Complete(poller)' /\ WatchedIn(poller)' = WatchedIn(poller)
  BY <1>a DEF Complete, WatchedIn, PollerHas
<1>m. ASSUME ~Flushing, ~Flushing' \/ end' = 0, UNCHANGED <<fdLater, sockLater, items, wanted>>,
             Complete(poller)', WatchedIn(poller)' = WatchedIn(poller)
      PROVE  Agreeing' /\ Pending' = Pending
  <2>1. Left' = Left /\ Pending' = Pending
    BY <1>m DEF Left, Pending
  <2> QED
    BY <1>0, <1>m, <2>1, SameAgreeing
<1>z. Len(Pending) \in Nat
  BY <1>y, PendingTyped
<1>1. ASSUME NEW k \in Keys, NEW mask \in Masks, AddItem(k, mask)  PROVE Goal
  <2>1. /\ UNCHANGED <<fdLater, sockLater, dispatching, end, pc>>
        /\ pc \in {"idle", "inTimer", "inItem"}
        /\ items' = Append(items, k) /\ poller' = PollerAdd(poller, k, mask)
        /\ wanted' = wanted \cup {k}
    BY <1>1 DEF AddItem, Called, UsersTurn
  <2>2. k \notin Range(items) /\ k \notin Range(Pending)
    BY <1>1, <1>o DEF AddItem, Orderly
  <2>3. ~PollerHas(poller, k)
    BY <1>a, <2>2 DEF WatchedIn
  <2>4. Range(items') = Range(items) \cup {k} /\ Distinct(items')
    <3>1. Pushed(items', items, k)
      BY <1>y, <2>1 DEF Pushed
    <3> QED
      BY <1>a, <2>2, <3>1, PushedRange
  <2>5. Complete(poller') /\ WatchedIn(poller') = WatchedIn(poller) \cup {k}
    BY <1>a, <1>y, <2>1, <2>3, AddWellFormed, WatchedMaps, MasksAreFlags
  <2>6. Pending' = Pending /\ Left' = Left
    BY <2>1 DEF Pending, Left, Flushing
  <2>7. Agreeing'
    BY <1>a, <2>1, <2>2, <2>4, <2>5, <2>6 DEF Agreeing
  <2>8. Waiting'
    BY <1>d, <1>e, <2>1, <2>6 DEF Waiting, Flushing
  <2> QED
    BY <2>7, <2>8
<1>2. ASSUME NEW k \in Keys, RemoveItem(k)  PROVE Goal
  <2>0. /\ pc \in {"idle", "inTimer", "inItem"} /\ pc' = pc /\ UNCHANGED <<dispatching, end>>
        /\ wanted' = wanted \ {k}
    BY <1>2 DEF RemoveItem, Called, UsersTurn
  <2>1. CASE dispatching
    <3>1. /\ UNCHANGED <<items, poller>>
          /\ IF k \in Fds THEN fdLater' = Append(fdLater, k) /\ UNCHANGED sockLater
                          ELSE sockLater' = Append(sockLater, k) /\ UNCHANGED fdLater
      BY <1>2, <2>1 DEF RemoveItem
    <3>2. Range(Pending') = Range(Pending) \cup {k}
      BY <3>1, PutOff
    <3>3. Left' = Range(Pending') /\ Left = Range(Pending)
      <4>1. fdLater' \in Seq(Fds) /\ sockLater' \in Seq(Sockets)
        <5>1. PollerInv'
          BY PollerNext
        <5> QED
          BY <5>1 DEF PollerInv
      <4>2. Range(Pending') = {Pending'[i] : i \in 0 + 1..Len(Pending')}
        BY <4>1, PendingRangeNext
      <4>3. ~Flushing /\ ~Flushing'
        BY <2>0 DEF Flushing
      <4> QED
        BY <1>l, <4>2, <4>3 DEF Left
    <3>4. Agreeing'
      BY <1>a, <1>s, <2>0, <3>1, <3>2, <3>3 DEF Agreeing, Distinct
    <3>5. Waiting'
      BY <1>d, <2>0, <2>1 DEF Waiting, Flushing
    <3> QED
      BY <3>4, <3>5
  <2>2. CASE ~dispatching
    <3>1. /\ items' = Erased(items, k) /\ poller' = PollerRemove(poller, k)
          /\ UNCHANGED <<fdLater, sockLater>>
      BY <1>2, <2>2 DEF RemoveItem
    <3>2. /\ Complete(poller)' /\ Distinct(items)' /\ (Range(items) = WatchedIn(poller))'
          /\ Range(items') = Range(items) \ {k}
      BY <1>0, <3>1, EraseAgrees
    <3>3. Pending' = Pending /\ Left' = Left
      BY <2>0, <3>1 DEF Pending, Left, Flushing
    <3>4. Agreeing'
      BY <1>a, <2>0, <3>2, <3>3 DEF Agreeing
    <3>5. Waiting'
      BY <1>d, <1>e, <2>0, <3>3 DEF Waiting, Flushing
    <3> QED
      BY <3>4, <3>5
  <2> QED
    BY <2>1, <2>2
<1>3. ASSUME NEW id \in Timers,
             ResetTimer(id) \/ RemoveTimer(id) \/
             \E delay \in Delays, times \in Times : AddTimer(id, delay, times)
      PROVE  Goal
  <2>1. UNCHANGED <<poller, items, fdLater, sockLater, dispatching, pc, end, wanted>>
        /\ pc \in {"idle", "inTimer", "inItem"}
    BY <1>3 DEF ResetTimer, RemoveTimer, AddTimer, Called, UsersTurn
  <2>2. Agreeing' /\ Pending' = Pending
    BY <1>m, <1>s, <2>1 DEF Flushing
  <2> QED
    BY <1>d, <1>e, <2>1, <2>2 DEF Waiting, Flushing
<1>4. ASSUME Start  PROVE Goal
  <2>1. /\ pc = "idle" /\ pc' = "flush" /\ end' = 0
        /\ UNCHANGED <<poller, items, fdLater, sockLater, dispatching, wanted>>
    BY <1>4 DEF Start, NextRound, BeginFlush
  <2>2. Agreeing' /\ Pending' = Pending
    BY <1>m, <1>s, <2>1 DEF Flushing
  <2> QED
    BY <1>d, <1>z, <2>1, <2>2 DEF Waiting, Flushing
<1>5. ASSUME FlushItem  PROVE Goal
  <2>1. PICK k : k = Pending[end + 1]
    OBVIOUS
  <2>2. pc \in {"flush", "exiting"} /\ end \in Nat /\ end + 1 \in 1..Len(Pending) /\ ~dispatching
    <3>1. pc \in {"flush", "exiting"} /\ end \in Nat /\ end < Len(Pending)
      BY <1>5 DEF PollerInv, FlushItem
    <3> QED
      BY <1>d, <1>z, <3>1
  <2>3. k \in Keys /\ k \in Range(Pending)
    BY <1>y, <2>1, <2>2, PendingTyped
  <2>4. /\ UNCHANGED <<fdLater, sockLater, dispatching, wanted>>
        /\ items' = Erased(items, k) /\ poller' = PollerRemove(poller, k)
        /\ IF RemoveThrows(poller, k) THEN Escape ELSE end' = end + 1 /\ UNCHANGED pc
    BY <1>5, <2>1, <2>2 DEF FlushItem
  <2>5. /\ Complete(poller)' /\ Distinct(items)' /\ (Range(items) = WatchedIn(poller))'
        /\ Range(items') = Range(items) \ {k} /\ ~RemoveThrows(poller, k)
    BY <1>0, <2>3, <2>4, EraseAgrees
  <2>6. end' = end + 1 /\ pc' = pc /\ Pending' = Pending
    BY <2>4, <2>5 DEF Pending
  <2>7. Left \subseteq Left' \cup {k}
    <3>1. \A i \in end + 1..Len(Pending) : i = end + 1 \/ i \in (end + 1) + 1..Len(Pending)
      BY <1>z, <2>2
    <3> QED
      BY <2>1, <2>2, <2>6, <3>1 DEF Left, Flushing
  <2>8. Agreeing'
    BY <1>a, <2>3, <2>4, <2>5, <2>6, <2>7 DEF Agreeing
  <2>9. Waiting'
    BY <1>d, <2>2, <2>4, <2>6 DEF Waiting, Flushing
  <2> QED
    BY <2>8, <2>9
<1>6. ASSUME FlushTimers  PROVE Goal
  <2>1. /\ pc \in {"flush", "exiting"} /\ end = Len(Pending) /\ ~dispatching
        /\ UNCHANGED <<poller, items, dispatching, wanted>>
    BY <1>d, <1>6 DEF FlushTimers
  <2>2. fdLater' = <<>> /\ sockLater' = <<>> /\ pc' \in {"poll", "idle", "returned"}
    BY <1>6, <2>1 DEF FlushTimers, Stopped
  <2>3. Left = {}
    BY <1>z, <2>1 DEF Left, Flushing
  <2>4. Pending' = <<>> /\ Range(Pending') = {}
    BY <2>2, NothingPending
  <2>5. Agreeing'
    BY <1>a, <1>s, <2>1, <2>3, <2>4 DEF Agreeing, Distinct
  <2>6. Waiting'
    BY <2>1, <2>2, <2>4 DEF Waiting, Flushing
  <2> QED
    BY <2>5, <2>6
<1>7. ASSUME PollReturns  PROVE Goal
  <2>1. /\ pc = "polling" /\ pc' = "polled"
        /\ UNCHANGED <<items, fdLater, sockLater, dispatching, end, wanted>>
    BY <1>7 DEF PollReturns
  <2>2. PICK rev \in Readiness(poller) : poller' = PollerRaise(poller, rev)
    BY <1>7 DEF PollReturns
  <2>3. Complete(poller)' /\ WatchedIn(poller)' = WatchedIn(poller)
    BY <1>a, <1>y, <2>2, ReadinessIs, RaiseWellFormed, RaiseMaps
  <2>4. Agreeing' /\ Pending' = Pending
    BY <1>m, <2>1, <2>3 DEF Flushing
  <2> QED
    BY <1>d, <1>e, <2>1, <2>4 DEF Waiting, Flushing
<1>8. ASSUME BeginPoll \/ PollInterrupted \/ PollThrows  PROVE Goal
  <2>1. /\ pc \in {"poll", "polling"} /\ pc' \in {"polling", "polled", "idle", "returned"}
        /\ UNCHANGED <<poller, items, fdLater, sockLater, dispatching, wanted>>
    BY <1>8 DEF BeginPoll, PollInterrupted, PollThrows, Escape, BeginFlush, Stopped
  <2>2. Agreeing' /\ Pending' = Pending
    BY <1>m, <1>s, <2>1 DEF Flushing
  <2> QED
    BY <1>d, <1>e, <2>1, <2>2 DEF Waiting, Flushing
<1>9. ASSUME EnterTimers  PROVE Goal
  <2>1. /\ pc = "polled" /\ pc' = "timers" /\ dispatching' = TRUE
        /\ UNCHANGED <<poller, items, fdLater, sockLater, end, wanted>>
    BY <1>9 DEF EnterTimers
  <2>2. Agreeing' /\ Pending' = Pending
    BY <1>m, <1>s, <2>1 DEF Flushing
  <2> QED
    BY <2>1, <2>2 DEF Waiting, Flushing
<1>g. ASSUME pc \in {"timers", "inTimer", "items", "inItem"},
             UNCHANGED <<poller, items, fdLater, sockLater, wanted>>,
             \/ pc' \in {"timers", "inTimer", "items", "inItem"} /\ UNCHANGED dispatching
             \/ pc' \in {"flush", "exiting"} /\ end' = 0 /\ dispatching' = FALSE
      PROVE  Goal
  <2>1. Agreeing' /\ Pending' = Pending
    BY <1>g, <1>m, <1>s DEF Flushing
  <2>2. Len(Pending') >= 0
    BY <1>z, <2>1
  <2> QED
    BY <1>d, <1>g, <2>1, <2>2 DEF Waiting, Flushing
<1>10. ASSUME FireTimer \/ CallItem \/ ItemsDone  PROVE Goal
  BY <1>10, <1>g DEF FireTimer, CallItem, ItemsDone, Loopback, NextRound, BeginFlush
<1>11. ASSUME TimersDone  PROVE Goal
  BY <1>11, <1>g DEF TimersDone, Loopback, NextRound, BeginFlush
<1>12. ASSUME NEW ok \in BOOLEAN, TimerReturns(ok) \/ ItemReturns(ok)  PROVE Goal
  <2>1. CASE ok
    BY <1>12, <1>g, <2>1 DEF TimerReturns, ItemReturns
  <2>2. CASE ~ok
    BY <1>12, <1>g, <2>2 DEF TimerReturns, ItemReturns, Leave, BeginFlush
  <2> QED
    BY <2>1, <2>2
<1>13. ASSUME HandlerThrows  PROVE Goal
  BY <1>13, <1>o DEF HandlerThrows, Orderly
<1>14. ASSUME UNCHANGED <<poller, items, fdLater, sockLater, dispatching, pc, end, wanted>>  PROVE Goal
  <2>1. Pending' = Pending /\ Left' = Left
    BY <1>14 DEF Pending, Left, Flushing
  <2>2. Agreeing'
    BY <1>0, <1>s, <1>14, <2>1, SameAgreeing
  <2> QED
    BY <1>0, <1>14, <2>1, <2>2 DEF Waiting, Flushing
<1>15. ASSUME Tick \/ UNCHANGED vars  PROVE Goal
  BY <1>14, <1>15 DEF Tick, vars
<1> QED
  BY <1>1, <1>2, <1>3, <1>4, <1>5, <1>6, <1>7, <1>8, <1>9, <1>10, <1>11, <1>12, <1>13, <1>15
     DEF Next, UserCalls, Proceed, PollEnds, HandlerReturns

(* Every key with a handler is known to the poller, whatever callers do;   *)
(* and where the loop waits, if no key is added while its removal is        *)
(* pending and no handler throws, it waits for exactly the keys that users *)
(* added and did not remove, each once.                                    *)
THEOREM LoopHonoursCallers == Spec => []HonoursCallers
<1>1. PollerInv /\ Known /\ Ordered => HonoursCallers
  <2> SUFFICES ASSUME PollerInv, Known, Ordered, pc = "polling", Orderly
               PROVE  /\ Range(items) = wanted /\ Len(items) = Cardinality(wanted)
                      /\ WatchedIn(poller) = wanted /\ Len(poller.items) = Len(items)
    BY DEF HonoursCallers, Known
  <2>1. Agreeing /\ Waiting
    BY DEF Ordered
  <2>2. Pending = <<>>
    BY <2>1 DEF Waiting
  <2>3. Left = {}
    BY <2>2 DEF Left, Flushing
  <2>4. Range(items) = wanted /\ WatchedIn(poller) = wanted
    BY <2>1, <2>3 DEF Agreeing
  <2>5. Len(poller.items) = Cardinality(WatchedIn(poller))
    BY <2>1, CompleteLength DEF PollerInv, Agreeing
  <2>6. Cardinality(Range(items)) = Len(items)
    <3>1. items \in Seq(Keys) /\ \A i, j \in DOMAIN items : items[i] = items[j] => i = j
      BY <2>1 DEF Known, Agreeing, Distinct
    <3> QED
      BY <3>1, DistinctLength
  <2> QED
    BY <2>4, <2>5, <2>6
<1> QED
  BY <1>1, PollerInit, PollerNext, KnownInit, KnownNext, OrderedInit, OrderedNext, PTL DEF Spec

-------------------------------------------------------------------------------
(* The loop is a dispatcher. *)

Plain == Orderly /\ "grow" \notin use

(* What the poll raised for input, output or an error and is at or after a *)
(* position of the items.                                                  *)
Ahead(from) ==
  {items[i] : i \in {j \in from..Len(items) : RaisedIn(poller)[items[j]] \cap Dispatched # {}}}

(* What the poll raised and no handler has had is what the range-for has   *)
(* ahead of it; a change of the items shows in rebuild_poller_.            *)
Raised ==
  Plain =>
    /\ pc \in {"polled", "timers", "inTimer"} /\ ~rebuild =>
         ready = IF pollRc THEN Ahead(1) ELSE {}
    /\ pc \in {"items", "inItem"} => pos \in Nat \ {0} /\ end = Len(items)
    /\ pc = "items" => ready = Ahead(pos)
    /\ pc = "inItem" => ready = Ahead(pos + 1)
    /\ pc \notin {"polled", "timers", "inTimer", "items", "inItem"} => ready = {}

(* Before the first call nothing is raised. *)
LEMMA RaisedInit == Init => Raised
BY DEF Init, Raised

(* What an item's handler has to read. *)
LEMMA ReadyIsRaised ==
  ASSUME Known, Agreeing, NEW i \in 1..Len(items)
  PROVE  /\ items[i] \in Keys /\ PollerHas(poller, items[i])
         /\ ReadyAt(i) <=> RaisedIn(poller)[items[i]] \cap Dispatched # {}
<1>1. items[i] \in Keys /\ items[i] \in Range(items)
  BY DEF Known, Range
<1>2. PollerHas(poller, items[i])
  BY <1>1 DEF Agreeing, WatchedIn
<1> QED
  BY <1>1, <1>2 DEF ReadyAt, HasInput, HasOutput, HasError, RaisedIn, PollerEvents, Dispatched

(* What a poll raises is what the range-for will have ahead of it. *)
LEMMA PollRaises ==
  ASSUME PollerInv, Known, Agreeing, PollReturns
  PROVE  /\ ready' = IF pollRc' THEN Ahead(1)' ELSE {}
         /\ ready' \subseteq WatchedIn(poller)
<1> DEFINE RaisedAt(rev) == {i \in DOMAIN poller.items : rev[i] \cap Dispatched # {}}
<1>1. PICK rev \in Readiness(poller) :
        /\ poller' = PollerRaise(poller, rev)
        /\ pollRc' = (\E i \in DOMAIN rev : rev[i] # {})
        /\ ready' = {poller.items[i].key : i \in RaisedAt(rev)}
  BY DEF PollReturns, RaisedBy
<1>2. PICK R : R = RaisedAt(rev)
  OBVIOUS
<1>3. rev \in [DOMAIN poller.items -> SUBSET Flags]
  BY ReadinessIs
<1>4. poller \in Pollers /\ Sound(poller) /\ items \in Seq(Keys) /\ items' = items
  BY DEF PollerInv, Known, PollReturns
<1>5. RaisedIn(poller') = [k \in Keys |-> IF PollerHas(poller, k) THEN rev[poller.index[k]] ELSE {}]
  BY <1>1, <1>3, <1>4, RaiseMaps
<1>6. /\ poller.items \in Seq(Item) /\ poller.index \in [Keys -> Nat]
      /\ DOMAIN poller.items = 1..Len(poller.items) /\ Len(poller.items) \in Nat
  BY <1>4 DEF Pollers
<1>7. /\ \A i \in DOMAIN poller.items : rev[i] \cap Dispatched # {} <=> i \in R
      /\ ready' = {poller.items[i].key : i \in R}
  BY <1>1, <1>2
<1>8. \A k \in Keys : PollerHas(poller, k) =>
        poller.index[k] \in DOMAIN poller.items /\ poller.items[poller.index[k]].key = k
  BY <1>4, <1>6 DEF Sound, PollerHas, Absent
<1>9. \A i \in R : /\ i \in DOMAIN poller.items /\ poller.items[i].key \in Keys
                   /\ poller.index[poller.items[i].key] = i /\ PollerHas(poller, poller.items[i].key)
  <2> TAKE i \in R
  <2>1. i \in 1..Len(poller.items)
    BY <1>2, <1>6
  <2>2. poller.items[i].key \in Keys
    BY <1>6, <2>1, ItemFields
  <2>3. poller.index[poller.items[i].key] = i
    BY <2>1 DEF Agreeing, Complete
  <2> QED
    BY <1>6, <2>1, <2>2, <2>3 DEF PollerHas, Absent
<1>10. ready' = {k \in Keys : RaisedIn(poller')[k] \cap Dispatched # {}}
  <2>1. ASSUME NEW k \in ready'  PROVE k \in Keys /\ RaisedIn(poller')[k] \cap Dispatched # {}
    <3>1. PICK i \in R : k = poller.items[i].key
      BY <1>7, <2>1
    <3> QED
      BY <1>5, <1>7, <1>9, <3>1
  <2>2. ASSUME NEW k \in Keys, RaisedIn(poller')[k] \cap Dispatched # {}  PROVE k \in ready'
    <3>1. PollerHas(poller, k) /\ rev[poller.index[k]] \cap Dispatched # {}
      BY <1>5, <2>2
    <3>2. poller.index[k] \in R /\ poller.items[poller.index[k]].key = k
      BY <1>7, <1>8, <3>1
    <3> QED
      BY <1>7, <3>2
  <2> QED
    BY <2>1, <2>2
<1>11. ready' \subseteq WatchedIn(poller)
  BY <1>7, <1>9 DEF WatchedIn
<1>12. \A k \in ready' : \E i \in 1..Len(items) : items[i] = k
  <2>1. ready' \subseteq Range(items)
    BY <1>11 DEF Agreeing
  <2>2. DOMAIN items = 1..Len(items)
    BY <1>4
  <2> QED
    BY <2>1, <2>2 DEF Range
<1>13. \A i \in 1..Len(items) : items[i] \in Keys
  BY <1>4
<1>14. ready' = {items[i] : i \in {j \in 1..Len(items) : RaisedIn(poller')[items[j]] \cap Dispatched # {}}}
  BY <1>10, <1>12, <1>13
<1>15. ready' = Ahead(1)'
  BY <1>4, <1>14 DEF Ahead
<1>16. ~pollRc' => ready' = {}
  BY <1>1, <1>3
<1> QED
  BY <1>11, <1>15, <1>16

(* What holds when users do nothing besides the plain use. *)
LEMMA PlainFacts ==
  ASSUME Known, Calm, Ordered, Plain
  PROVE  /\ pc # "undefined" /\ Agreeing /\ Waiting
         /\ dispatching <=> pc \in {"timers", "inTimer", "items", "inItem"}
         /\ use \cap {"readd", "throw", "grow"} = {}
         /\ Len(items) \in Nat
<1>1. use \cap {"readd", "throw", "grow"} = {} /\ Orderly
  BY DEF Plain, Orderly
<1>2. DispatchingKnown
  BY <1>1 DEF Calm, PlainUse
<1>3. pc # "undefined" /\ (dispatching <=> pc \in {"timers", "inTimer", "items", "inItem"})
  BY <1>2 DEF DispatchingKnown
<1>4. Agreeing /\ Waiting
  BY <1>1, <1>3 DEF Ordered
<1>5. Len(items) \in Nat
  BY DEF Known
<1> QED
  BY <1>1, <1>3, <1>4, <1>5

(* Every step keeps what is raised ahead of the range-for. *)
LEMMA RaisedNext == PollerInv /\ Known /\ Calm /\ Ordered /\ Raised /\ [Next]_vars => Raised'
<1> DEFINE Goal ==
      /\ pc' \in {"polled", "timers", "inTimer"} /\ ~rebuild' =>
           ready' = IF pollRc' THEN Ahead(1)' ELSE {}
      /\ pc' \in {"items", "inItem"} => pos' \in Nat \ {0} /\ end' = Len(items')
      /\ pc' = "items" => ready' = Ahead(pos)'
      /\ pc' = "inItem" => ready' = Ahead(pos + 1)'
      /\ pc' \notin {"polled", "timers", "inTimer", "items", "inItem"} => ready' = {}
<1> SUFFICES ASSUME PollerInv, Known, Calm, Ordered, Raised, [Next]_vars, Plain'  PROVE Goal
  BY DEF Raised
<1> USE DEF loopVars, runVars, laters
<1>p. Plain
  BY UseIsKept DEF Plain, Orderly
<1>0. /\ pc # "undefined" /\ Agreeing /\ Waiting
      /\ dispatching <=> pc \in {"timers", "inTimer", "items", "inItem"}
      /\ use \cap {"readd", "throw", "grow"} = {}
      /\ Len(items) \in Nat
  BY <1>p, PlainFacts
<1>r. /\ pc \in {"polled", "timers", "inTimer"} /\ ~rebuild =>
           ready = IF pollRc THEN Ahead(1) ELSE {}
      /\ pc \in {"items", "inItem"} => pos \in Nat \ {0} /\ end = Len(items)
      /\ pc = "items" => ready = Ahead(pos)
      /\ pc = "inItem" => ready = Ahead(pos + 1)
      /\ pc \notin {"polled", "timers", "inTimer", "items", "inItem"} => ready = {}
  BY <1>p DEF Raised
<1>k. ASSUME UNCHANGED <<items, poller, rebuild, pollRc, ready, pos, end, pc>>  PROVE Goal
  <2>1. Ahead(1)' = Ahead(1) /\ Ahead(pos)' = Ahead(pos) /\ Ahead(pos + 1)' = Ahead(pos + 1)
    BY <1>k DEF Ahead, RaisedIn, PollerHas
  <2> QED
    BY <1>k, <1>r, <2>1
<1>i. ASSUME pc' \notin {"polled", "timers", "inTimer", "items", "inItem"}, ready' = {}  PROVE Goal
  BY <1>i
<1>t. ASSUME pc \in {"polled", "timers", "inTimer"}, pc' \in {"polled", "timers", "inTimer"},
             rebuild' = TRUE \/ UNCHANGED <<items, poller, rebuild, pollRc, ready>>
      PROVE  Goal
  <2>1. CASE rebuild' = TRUE
    BY <1>t, <2>1
  <2>2. CASE UNCHANGED <<items, poller, rebuild, pollRc, ready>>
    <3>1. Ahead(1)' = Ahead(1)
      BY <2>2 DEF Ahead, RaisedIn, PollerHas
    <3> QED
      BY <1>r, <1>t, <2>2, <3>1
  <2> QED
    BY <1>t, <2>1, <2>2
<1>1. ASSUME NEW k \in Keys, NEW mask \in Masks, AddItem(k, mask)  PROVE Goal
  <2>1. pc \in {"idle", "inTimer"} /\ pc' = pc /\ rebuild' = TRUE /\ ready' = ready
    BY <1>0, <1>1 DEF AddItem, Called, UsersTurn
  <2> QED
    BY <1>i, <1>r, <1>t, <2>1
<1>2. ASSUME NEW k \in Keys, RemoveItem(k)  PROVE Goal
  <2>1. pc \in {"idle", "inTimer", "inItem"} /\ UNCHANGED <<pc, ready, pos, end>>
    BY <1>2 DEF RemoveItem, Called, UsersTurn
  <2>2. CASE pc = "idle"
    BY <1>i, <1>r, <2>1, <2>2
  <2>3. CASE pc \in {"inTimer", "inItem"}
    <3>1. rebuild' = TRUE /\ UNCHANGED <<items, poller>>
      BY <1>0, <1>2, <2>3 DEF RemoveItem
    <3>2. CASE pc = "inTimer"
      BY <1>t, <2>1, <3>1, <3>2
    <3>3. CASE pc = "inItem"
      <4>1. Ahead(pos + 1)' = Ahead(pos + 1)
        BY <2>1, <3>1 DEF Ahead, RaisedIn, PollerHas
      <4> QED
        BY <1>r, <2>1, <3>1, <3>3, <4>1
    <3> QED
      BY <2>3, <3>2, <3>3
  <2> QED
    BY <2>1, <2>2, <2>3
<1>3. ASSUME NEW id \in Timers,
             ResetTimer(id) \/ RemoveTimer(id) \/
             \E delay \in Delays, times \in Times : AddTimer(id, delay, times)
      PROVE  Goal
  BY <1>3, <1>k DEF ResetTimer, RemoveTimer, AddTimer
<1>4. ASSUME Start \/ FlushItem \/ FlushTimers \/ BeginPoll  PROVE Goal
  <2>1. pc \in {"idle", "flush", "exiting", "poll"} /\ ready' = ready
    BY <1>4 DEF Start, FlushItem, FlushTimers, BeginPoll
  <2>2. pc' \in {"flush", "exiting", "idle", "returned", "undefined", "poll", "polling"}
    BY <1>4 DEF Start, NextRound, BeginFlush, FlushItem, FlushTimers, BeginPoll, Escape, Stopped
  <2> QED
    BY <1>i, <1>r, <2>1, <2>2
<1>5. ASSUME PollReturns  PROVE Goal
  <2>1. pc' = "polled"
    BY <1>5 DEF PollReturns
  <2>2. ready' = IF pollRc' THEN Ahead(1)' ELSE {}
    BY <1>0, <1>5, PollRaises
  <2> QED
    BY <2>1, <2>2
<1>6. ASSUME PollInterrupted  PROVE Goal
  BY <1>6 DEF PollInterrupted
<1>7. ASSUME PollThrows  PROVE Goal
  BY <1>7 DEF PollThrows, Escape, BeginFlush, Stopped
<1>8. ASSUME EnterTimers \/ FireTimer  PROVE Goal
  BY <1>8, <1>t DEF EnterTimers, FireTimer
<1>9. ASSUME NEW ok \in BOOLEAN, TimerReturns(ok)  PROVE Goal
  <2>1. CASE ok
    BY <1>9, <1>t, <2>1 DEF TimerReturns
  <2>2. CASE ~ok
    BY <1>9, <1>i, <2>2 DEF TimerReturns, Leave, BeginFlush
  <2> QED
    BY <2>1, <2>2
<1>10. ASSUME TimersDone  PROVE Goal
  <2>1. CASE SkipItems
    BY <1>10, <1>i, <2>1 DEF TimersDone, Loopback, NextRound, BeginFlush
  <2>2. CASE ~SkipItems
    <3>1. /\ pc = "timers" /\ pc' = "items" /\ pos' = 1 /\ end' = Len(items)
          /\ UNCHANGED <<ready, items, poller>>
      BY <1>10, <2>2 DEF TimersDone
    <3>2. ready = Ahead(1)
      BY <1>r, <2>2, <3>1 DEF SkipItems
    <3>3. Ahead(pos)' = Ahead(1)
      BY <3>1 DEF Ahead, RaisedIn, PollerHas
    <3> QED
      BY <3>1, <3>2, <3>3
  <2> QED
    BY <2>1, <2>2
<1>11. ASSUME CallItem  PROVE Goal
  <2>0. pc = "items" /\ pc' = "inItem" /\ UNCHANGED <<poller, items, end>>
    BY <1>11 DEF CallItem
  <2>1. PICK i \in pos..end :
          /\ ReadyAt(i) /\ \A j \in pos..(i - 1) : ~ReadyAt(j)
          /\ pos' = i /\ ready' = ready \ {items[i]}
    BY <1>11 DEF CallItem
  <2>2. /\ pos..end \subseteq 1..Len(items) /\ i \in Nat \ {0} /\ pos \in Nat \ {0}
        /\ end = Len(items)
    BY <1>0, <1>r, <2>0
  <2>3. \A j \in pos..end : ReadyAt(j) <=> RaisedIn(poller)[items[j]] \cap Dispatched # {}
    BY <1>0, <2>2, ReadyIsRaised
  <2>4. \A j \in pos..end : items[j] = items[i] => j = i
    <3>1. items \in Seq(Keys)
      BY DEF Known
    <3>2. DOMAIN items = 1..Len(items)
      BY <3>1
    <3> QED
      BY <1>0, <2>2, <3>2 DEF Agreeing, Distinct
  <2>5. ready = {items[j] : j \in {n \in pos..end : RaisedIn(poller)[items[n]] \cap Dispatched # {}}}
    BY <1>r, <2>0, <2>2 DEF Ahead
  <2>6. {n \in i + 1..end : RaisedIn(poller)[items[n]] \cap Dispatched # {}}
          = {n \in pos..end : RaisedIn(poller)[items[n]] \cap Dispatched # {}} \ {i}
    <3>1. \A n \in pos..end : n \in pos..(i - 1) \/ n = i \/ n \in i + 1..end
      BY <1>0, <2>2
    <3>2. \A n \in i + 1..end : n \in pos..end /\ n # i
      BY <1>0, <2>1, <2>2
    <3> QED
      BY <2>1, <2>3, <3>1, <3>2
  <2>7. ready' = {items[j] : j \in {n \in i + 1..end : RaisedIn(poller)[items[n]] \cap Dispatched # {}}}
    BY <2>1, <2>4, <2>5, <2>6
  <2>8. ready' = Ahead(pos + 1)'
    BY <2>0, <2>1, <2>2, <2>7 DEF Ahead
  <2> QED
    BY <2>0, <2>1, <2>2, <2>8
<1>12. ASSUME NEW ok \in BOOLEAN, ItemReturns(ok)  PROVE Goal
  <2>1. CASE ok
    <3>1. /\ pc = "inItem" /\ pc' = "items" /\ pos' = pos + 1
          /\ UNCHANGED <<poller, items, end, ready>>
      BY <1>12, <2>1 DEF ItemReturns
    <3>2. Ahead(pos)' = Ahead(pos + 1)
      BY <3>1 DEF Ahead, RaisedIn, PollerHas
    <3> QED
      BY <1>r, <3>1, <3>2
  <2>2. CASE ~ok
    BY <1>12, <1>i, <2>2 DEF ItemReturns, Leave, BeginFlush
  <2> QED
    BY <2>1, <2>2
<1>13. ASSUME ItemsDone  PROVE Goal
  BY <1>13, <1>i DEF ItemsDone, Loopback, NextRound, BeginFlush
<1>14. ASSUME HandlerThrows  PROVE Goal
  BY <1>0, <1>14 DEF HandlerThrows
<1>15. ASSUME Tick \/ UNCHANGED vars  PROVE Goal
  BY <1>15, <1>k DEF Tick, vars
<1> QED
  BY <1>1, <1>2, <1>3, <1>4, <1>5, <1>6, <1>7, <1>8, <1>9, <1>10, <1>11, <1>12, <1>13, <1>14, <1>15
     DEF Next, UserCalls, Proceed, PollEnds, HandlerReturns

(* A handler is called, once, for each key that this iteration's poll       *)
(* raised for input, output or an error and for no other, unless a handler  *)
(* ends the loop, and none when a timer's handler removed one of them:      *)
(* every step of the loop is one of the dispatcher's or none.               *)
THEOREM LoopImplementsDispatcher == Spec => Promised!DInit /\ ImplementsDispatcher
<1> DEFINE IInv == PollerInv /\ PendingShows /\ Known /\ Calm /\ Ordered /\ Raised
           Kept == Promised!DNext \/ UNCHANGED Promised!dvars
<1>1. Init => Promised!DInit
  BY DEF Init, Promised!DInit
<1>2. Init => IInv
  BY PollerInit, PendingInit, KnownInit, CalmInvariant, OrderedInit, RaisedInit
<1>3. IInv /\ [Next]_vars => IInv'
  BY PollerNext, PendingNext, KnownNext, CalmInvariant, OrderedNext, RaisedNext
<1>4. IInv /\ [Next]_vars => (Orderly /\ "grow" \notin use => Kept)
  <2> SUFFICES ASSUME PollerInv, PendingShows, Known, Calm, Ordered, Raised, [Next]_vars, Plain
               PROVE  Kept
    BY DEF Plain
  <2> USE DEF loopVars, runVars, laters
  <2>0. /\ pc # "undefined" /\ Agreeing /\ Waiting
        /\ dispatching <=> pc \in {"timers", "inTimer", "items", "inItem"}
        /\ use \cap {"readd", "throw", "grow"} = {}
        /\ Len(items) \in Nat
    BY PlainFacts
  <2>r. /\ pc \in {"polled", "timers", "inTimer"} /\ ~rebuild =>
             ready = IF pollRc THEN Ahead(1) ELSE {}
        /\ pc \in {"items", "inItem"} => pos \in Nat \ {0} /\ end = Len(items)
        /\ pc = "items" => ready = Ahead(pos)
        /\ pc = "inItem" => ready = Ahead(pos + 1)
        /\ pc \notin {"polled", "timers", "inTimer", "items", "inItem"} => ready = {}
    BY DEF Raised
  <2>w. Pending = <<>> /\ ~Flushing => Range(items) = wanted /\ WatchedIn(poller) = wanted
    <3>1. Pending = <<>> /\ ~Flushing => Left = {}
      BY DEF Left
    <3> QED
      BY <2>0, <3>1 DEF Agreeing
  <2>i. ASSUME pc \notin {"polled", "timers", "inTimer", "items", "inItem"},
               pc' \notin {"polled", "timers", "inTimer", "items", "inItem"},
               wanted' = wanted, ready' = {}
        PROVE  Kept
    BY <2>i, <2>r DEF Promised!dvars
  <2>t. ASSUME pc \in {"polled", "timers", "inTimer"}, pc' \in {"polled", "timers", "inTimer"},
               wanted' = wanted, ready' = ready
        PROVE  Kept
    BY <2>t DEF Promised!dvars
  <2>d. ASSUME pc \in {"polled", "timers", "inTimer"},
               pc' \notin {"polled", "timers", "inTimer", "items", "inItem"},
               wanted' = wanted, ready' = {}
        PROVE  Kept
    <3>1. Promised!Drop
      BY <2>d DEF Promised!Drop
    <3> QED
      BY <3>1 DEF Promised!DNext
  <2>1. ASSUME NEW k \in Keys, NEW mask \in Masks, AddItem(k, mask)  PROVE Kept
    <3>1. pc \in {"idle", "inTimer"} /\ pc' = pc /\ ready' = ready /\ wanted' = wanted \cup {k}
      BY <2>0, <2>1 DEF AddItem, Called, UsersTurn
    <3>2. Promised!Watch(k)
      BY <3>1 DEF Promised!Watch
    <3> QED
      BY <3>2 DEF Promised!DNext
  <2>2. ASSUME NEW k \in Keys, RemoveItem(k)  PROVE Kept
    <3>1. /\ pc \in {"idle", "inTimer", "inItem"} /\ UNCHANGED <<pc, ready, pos>>
          /\ wanted' = wanted \ {k}
      BY <2>2 DEF RemoveItem, Called, UsersTurn
    <3>2. pc = "inItem" => UNCHANGED items
      BY <2>0, <2>2 DEF RemoveItem
    <3>3. Promised!Forget(k)
      BY <3>1, <3>2 DEF Promised!Forget
    <3> QED
      BY <3>3 DEF Promised!DNext
  <2>s. ASSUME UNCHANGED <<wanted, ready, pc, items, pos>>  PROVE Kept
    BY <2>s DEF Promised!dvars
  <2>3. ASSUME NEW id \in Timers,
               ResetTimer(id) \/ RemoveTimer(id) \/
               \E delay \in Delays, times \in Times : AddTimer(id, delay, times)
        PROVE  Kept
    BY <2>3, <2>s DEF ResetTimer, RemoveTimer, AddTimer
  <2>4. ASSUME Start \/ FlushItem \/ FlushTimers \/ BeginPoll  PROVE Kept
    <3>1. pc \in {"idle", "flush", "exiting", "poll"} /\ ready' = ready /\ wanted' = wanted
      BY <2>4 DEF Start, FlushItem, FlushTimers, BeginPoll
    <3>2. pc' \in {"flush", "exiting", "idle", "returned", "undefined", "poll", "polling"}
      BY <2>4 DEF Start, NextRound, BeginFlush, FlushItem, FlushTimers, BeginPoll, Escape, Stopped
    <3> QED
      BY <2>i, <2>r, <3>1, <3>2
  <2>5. ASSUME PollReturns \/ PollInterrupted  PROVE Kept
    <3>1. pc = "polling" /\ pc' = "polled" /\ wanted' = wanted
      BY <2>5 DEF PollReturns, PollInterrupted
    <3>2. ready' \subseteq wanted
      <4>1. CASE PollReturns
        <5>1. ready' \subseteq WatchedIn(poller)
          BY <2>0, <4>1, PollRaises
        <5> QED
          BY <2>0, <2>w, <3>1, <5>1 DEF Waiting, Flushing
      <4>2. CASE PollInterrupted
        BY <4>2 DEF PollInterrupted
      <4> QED
        BY <2>5, <4>1, <4>2
    <3>3. Promised!Poll
      BY <3>1, <3>2 DEF Promised!Poll
    <3> QED
      BY <3>3 DEF Promised!DNext
  <2>6. ASSUME PollThrows  PROVE Kept
    BY <2>6, <2>i DEF PollThrows, Escape, BeginFlush, Stopped
  <2>7. ASSUME EnterTimers \/ FireTimer  PROVE Kept
    BY <2>7, <2>t DEF EnterTimers, FireTimer
  <2>8. ASSUME NEW ok \in BOOLEAN, TimerReturns(ok)  PROVE Kept
    <3>1. CASE ok
      BY <2>8, <2>t, <3>1 DEF TimerReturns
    <3>2. CASE ~ok
      BY <2>8, <2>d, <3>2 DEF TimerReturns, Leave, BeginFlush
    <3> QED
      BY <3>1, <3>2
  <2>9. ASSUME TimersDone  PROVE Kept
    <3>1. CASE SkipItems
      BY <2>9, <2>d, <3>1 DEF TimersDone, Loopback, NextRound, BeginFlush
    <3>2. CASE ~SkipItems
      <4>1. /\ pc = "timers" /\ pc' = "items" /\ UNCHANGED <<ready, wanted>> /\ ~rebuild
        BY <2>9, <3>2 DEF TimersDone, SkipItems
      <4>2. Pending = <<>>
        BY <4>1 DEF PendingShows, Pending
      <4>3. ready \subseteq Range(items)
        <5>1. ready = Ahead(1)
          BY <2>r, <3>2, <4>1 DEF SkipItems
        <5>2. DOMAIN items = 1..Len(items)
          BY DEF Known
        <5> QED
          BY <5>1, <5>2 DEF Ahead, Range
      <4>4. ready \subseteq wanted
        BY <2>w, <4>1, <4>2, <4>3 DEF Flushing
      <4>5. Promised!Begin
        BY <4>1, <4>4 DEF Promised!Begin
      <4> QED
        BY <4>5 DEF Promised!DNext
    <3> QED
      BY <3>1, <3>2
  <2>10. ASSUME CallItem  PROVE Kept
    <3>0. pc = "items" /\ pc' = "inItem" /\ UNCHANGED <<poller, items, wanted>>
      BY <2>10 DEF CallItem
    <3>1. PICK i \in pos..end : ReadyAt(i) /\ pos' = i /\ ready' = ready \ {items[i]}
      BY <2>10 DEF CallItem
    <3>2. i \in 1..Len(items) /\ i \in pos..Len(items)
      BY <2>0, <2>r, <3>0
    <3>3. items[i] \in Keys /\ RaisedIn(poller)[items[i]] \cap Dispatched # {}
      BY <2>0, <3>1, <3>2, ReadyIsRaised
    <3>4. items[i] \in ready
      BY <2>r, <3>0, <3>2, <3>3 DEF Ahead
    <3>5. Promised!CallHandler(items[i])
      BY <3>0, <3>1, <3>4 DEF Promised!CallHandler
    <3> QED
      BY <3>3, <3>5 DEF Promised!DNext
  <2>11. ASSUME NEW ok \in BOOLEAN, ItemReturns(ok)  PROVE Kept
    <3>1. CASE ok
      <4>1. pc = "inItem" /\ pc' = "items" /\ UNCHANGED <<wanted, ready>>
        BY <2>11, <3>1 DEF ItemReturns
      <4>2. Promised!Return
        BY <4>1 DEF Promised!Return
      <4> QED
        BY <4>2 DEF Promised!DNext
    <3>2. CASE ~ok
      <4>1. pc = "inItem" /\ pc' = "exiting" /\ wanted' = wanted /\ ready' = {}
        BY <2>11, <3>2 DEF ItemReturns, Leave, BeginFlush
      <4>2. Promised!Stop
        BY <4>1 DEF Promised!Stop
      <4> QED
        BY <4>2 DEF Promised!DNext
    <3> QED
      BY <3>1, <3>2
  <2>12. ASSUME ItemsDone  PROVE Kept
    <3>1. /\ pc = "items" /\ pc' = "flush" /\ wanted' = wanted /\ ready' = {}
          /\ \A i \in pos..end : ~ReadyAt(i)
      BY <2>12 DEF ItemsDone, Loopback, NextRound, BeginFlush
    <3>2. Ahead(pos) = {}
      <4>1. end = Len(items) /\ pos..Len(items) \subseteq 1..Len(items)
        BY <2>0, <2>r, <3>1
      <4>2. \A j \in pos..Len(items) : ReadyAt(j) <=> RaisedIn(poller)[items[j]] \cap Dispatched # {}
        BY <2>0, <4>1, ReadyIsRaised
      <4> QED
        BY <3>1, <4>1, <4>2 DEF Ahead
    <3>3. ready = {}
      BY <2>r, <3>1, <3>2
    <3>4. Promised!End
      BY <3>1, <3>3 DEF Promised!End
    <3> QED
      BY <3>4 DEF Promised!DNext
  <2>13. ASSUME HandlerThrows  PROVE Kept
    BY <2>0, <2>13 DEF HandlerThrows
  <2>14. ASSUME Tick \/ UNCHANGED vars  PROVE Kept
    BY <2>14, <2>s DEF Tick, vars
  <2> QED
    BY <2>1, <2>2, <2>3, <2>4, <2>5, <2>6, <2>7, <2>8, <2>9, <2>10, <2>11, <2>12, <2>13, <2>14
       DEF Next, UserCalls, Proceed, PollEnds, HandlerReturns
<1> QED
  <2> HIDE DEF IInv, Kept
  <2>1. Spec => []IInv
    BY <1>2, <1>3, PTL DEF Spec
  <2>2. Spec => [][Orderly /\ "grow" \notin use => Kept]_vars
    BY <1>4, <2>1, PTL DEF Spec
  <2>3. ImplementsDispatcher <=> [][Orderly /\ "grow" \notin use => Kept]_vars
    BY DEF ImplementsDispatcher, Kept
  <2> QED
    BY <1>1, <2>2, <2>3, PTL DEF Spec

-------------------------------------------------------------------------------
(* Lists of timers. *)

DistinctIds(s) == \A i, j \in DOMAIN s : s[i].id = s[j].id => i = j
IdsOf(s) == {s[i].id : i \in DOMAIN s}
Sorted(s) == \A i, j \in DOMAIN s : i < j => s[i].when <= s[j].when

(* The timers of t are those of s at some positions, each of them once. *)
Rearranged(t, s) ==
  \E from \in [DOMAIN t -> DOMAIN s] :
    /\ \A r \in DOMAIN t : t[r] = s[from[r]]
    /\ \A q, r \in DOMAIN t : from[q] = from[r] => q = r

(* A timer at a position of a list. *)
LEMMA TimerFields ==
  ASSUME NEW s \in Seq(Timer), NEW i \in DOMAIN s
  PROVE  /\ s[i] \in Timer /\ s[i].id \in Timers /\ s[i].times \in Nat
         /\ s[i].delay \in Nat /\ s[i].when \in Int
<1>1. s[i] \in Timer
  OBVIOUS
<1> QED
  BY <1>1 DEF Timer

(* Timers keep their identities wherever they are. *)
LEMMA RearrangedIds ==
  ASSUME NEW s, NEW t, Rearranged(t, s), DistinctIds(s)
  PROVE  DistinctIds(t)
<1>1. PICK from \in [DOMAIN t -> DOMAIN s] :
        /\ \A r \in DOMAIN t : t[r] = s[from[r]]
        /\ \A q, r \in DOMAIN t : from[q] = from[r] => q = r
  BY DEF Rearranged
<1> QED
  BY <1>1 DEF DistinctIds

(* timers_.sort: the same timers, the earliest first. *)
LEMMA SortShape ==
  ASSUME NEW s \in Seq(Timer), NEW t, t = SortTimers(s)
  PROVE  /\ t \in Seq(Timer) /\ Range(t) = Range(s) /\ Sorted(t)
         /\ DistinctIds(s) => DistinctIds(t)
<1>0. PICK D, R, place :
        /\ D = DOMAIN s
        /\ R = {x \in D \X D : s[x[1]].when < s[x[2]].when \/
                               (s[x[1]].when = s[x[2]].when /\ x[1] < x[2])}
        /\ place = [i \in D |-> 1 + Cardinality({j \in D : <<j, i>> \in R})]
  OBVIOUS
<1>1. D = 1..Len(s) /\ Len(s) \in Nat /\ IsFiniteSet(D) /\ Cardinality(D) = Len(s)
  <2>1. D = 1..Len(s) /\ Len(s) \in Nat
    BY <1>0
  <2> QED
    BY <2>1, FS_Interval
<1>2. \A i \in D : s[i].when \in Int
  BY <1>0, TimerFields
<1>3. \A i, j \in D : <<i, j>> \in R <=> s[i].when < s[j].when \/ (s[i].when = s[j].when /\ i < j)
  BY <1>0
<1>4. Orders(R, D)
  <2>1. \A i \in D : <<i, i>> \notin R
    BY <1>1, <1>2, <1>3
  <2>2. \A i, j \in D : i # j => <<i, j>> \in R \/ <<j, i>> \in R
    BY <1>1, <1>2, <1>3
  <2>3. ASSUME NEW i \in D, NEW j \in D, NEW m \in D, <<i, j>> \in R, <<j, m>> \in R
        PROVE  <<i, m>> \in R
    <3>1. s[i].when < s[j].when \/ (s[i].when = s[j].when /\ i < j)
      BY <1>3, <2>3
    <3>2. s[j].when < s[m].when \/ (s[j].when = s[m].when /\ j < m)
      BY <1>3, <2>3
    <3>3. s[i].when \in Int /\ s[j].when \in Int /\ s[m].when \in Int /\ i \in Int /\ j \in Int /\ m \in Int
      BY <1>1, <1>2
    <3>4. s[i].when < s[m].when \/ (s[i].when = s[m].when /\ i < m)
      BY <3>1, <3>2, <3>3
    <3> QED
      BY <1>3, <3>4
  <2> QED
    BY <2>1, <2>2, <2>3 DEF Orders
<1>5. \A i \in D : Rank(s, i) = place[i]
  BY <1>0, <1>3 DEF Rank
<1>6. /\ place \in Injection(D, 1..Cardinality(D))
      /\ \A n \in 1..Cardinality(D) : \E i \in D : place[i] = n
      /\ \A i, j \in D : <<i, j>> \in R <=> place[i] < place[j]
  <2>1. Placed(place, R, D)
    BY <1>0 DEF Placed
  <2>2. IsFiniteSet(D)
    BY <1>1
  <2> QED
    BY <1>4, <2>1, <2>2, PlacesAreTaken
<1>7. place \in [D -> D] /\ \A i, j \in D : place[i] = place[j] => i = j
  BY <1>1, <1>6 DEF Injection, IsInjective
<1>8. PICK from : from = [r \in D |-> CHOOSE i \in D : place[i] = r]
  OBVIOUS
<1>9. \A r \in D : from[r] \in D /\ place[from[r]] = r
  BY <1>1, <1>6, <1>8
<1>10. \A i \in D : from[place[i]] = i /\ place[i] \in D
  BY <1>7, <1>9
<1>11. t = [r \in D |-> s[from[r]]]
  <2>1. \A r \in D : (CHOOSE i \in D : Rank(s, i) = r) = (CHOOSE i \in D : place[i] = r)
    BY <1>5
  <2>2. t = [r \in D |-> s[CHOOSE i \in D : Rank(s, i) = r]]
    BY <1>0 DEF SortTimers
  <2> QED
    BY <1>8, <2>1, <2>2
<1>12. DOMAIN t = D
  BY <1>11
<1>13. t \in Seq(Timer)
  <2>1. \A r \in D : t[r] \in Timer
    BY <1>0, <1>9, <1>11, TimerFields
  <2>2. PICK n \in Nat : D = 1..n
    BY <1>1
  <2>3. t \in [1..n -> Timer]
    BY <1>11, <2>1, <2>2
  <2> HIDE DEF Timer
  <2> QED
    BY <2>3, FunIsSeq
<1>14. Range(t) = Range(s)
  <2>1. \A i \in D : s[i] = t[place[i]] /\ place[i] \in D
    BY <1>10, <1>11
  <2>2. \A r \in D : t[r] = s[from[r]] /\ from[r] \in D
    BY <1>9, <1>11
  <2>3. DOMAIN s = D
    BY <1>0
  <2> QED
    BY <1>12, <2>1, <2>2, <2>3 DEF Range
<1>15. Sorted(t)
  <2> SUFFICES ASSUME NEW i \in D, NEW j \in D, i < j  PROVE t[i].when <= t[j].when
    BY <1>12 DEF Sorted
  <2>1. <<from[i], from[j]>> \in R
    BY <1>6, <1>9
  <2>2. s[from[i]].when < s[from[j]].when \/ s[from[i]].when = s[from[j]].when
    BY <1>3, <1>9, <2>1
  <2>3. s[from[i]].when \in Int /\ s[from[j]].when \in Int
    BY <1>2, <1>9
  <2> QED
    BY <1>11, <2>2, <2>3
<1>16. Rearranged(t, s)
  <2>1. from \in [D -> D] /\ \A q, r \in D : from[q] = from[r] => q = r
    BY <1>8, <1>9
  <2> QED
    BY <1>0, <1>11, <1>12, <2>1 DEF Rearranged
<1> QED
  BY <1>13, <1>14, <1>15, <1>16, RearrangedIds

(* What is asked of a list of timers, and what its timers may be. *)
Listed(s) == s \in Seq(Timer) /\ DistinctIds(s)
Within(s) == \A i \in DOMAIN s : s[i].when <= s[i].delay
LateFor(s, id) == \A i \in DOMAIN s : s[i].id = id => s[i].when < 0

(* What is said of each timer of a list is kept when none is added. *)
LEMMA FewerTimers ==
  ASSUME NEW s, NEW t, Range(t) \subseteq Range(s)
  PROVE  /\ IdsOf(t) \subseteq IdsOf(s)
         /\ Within(s) => Within(t)
         /\ \A id : LateFor(s, id) => LateFor(t, id)
<1>1. \A i \in DOMAIN t : \E j \in DOMAIN s : t[i] = s[j]
  BY DEF Range
<1> QED
  BY <1>1 DEF IdsOf, Within, LateFor

(* timers_.sort keeps the timers. *)
LEMMA SortKeeps ==
  ASSUME NEW s, Listed(s), NEW t, t = SortTimers(s)
  PROVE  /\ Listed(t) /\ Sorted(t) /\ Range(t) = Range(s) /\ IdsOf(t) = IdsOf(s)
<1>1. s \in Seq(Timer) /\ DistinctIds(s)
  BY DEF Listed
<1>2. t \in Seq(Timer) /\ Range(t) = Range(s) /\ Sorted(t) /\ DistinctIds(t)
  BY <1>1, SortShape
<1>3. IdsOf(t) \subseteq IdsOf(s) /\ IdsOf(s) \subseteq IdsOf(t)
  BY <1>2, FewerTimers
<1> QED
  BY <1>2, <1>3 DEF Listed

(* The timers of s but those of ids. *)
Cut(s, ids) == Only(s, {i \in DOMAIN s : s[i].id \notin ids})

(* Erasing timers by their identity. *)
LEMMA WithoutShape ==
  ASSUME NEW s, Listed(s), NEW ids, NEW t, t = Cut(s, ids)
  PROVE  /\ Listed(t) /\ Range(t) \subseteq Range(s) /\ IdsOf(t) = IdsOf(s) \ ids
         /\ Sorted(s) => Sorted(t)
<1>0. PICK A, P : A = Timer /\ P = {i \in DOMAIN s : s[i].id \notin ids}
  OBVIOUS
<1>1. s \in Seq(A) /\ DistinctIds(s) /\ P \in SUBSET (DOMAIN s) /\ t = Only(s, P)
  BY <1>0 DEF Listed, Cut
<1>2. t \in Seq(A) /\ Picks(t, s, P)
  BY <1>1, OnlyShape
<1>3. PICK D, from :
        /\ D = DOMAIN t /\ D \subseteq Int /\ from \in [D -> P]
        /\ \A n \in D : t[n] = s[from[n]]
        /\ \A i \in P : \E n \in D : from[n] = i
        /\ \A m, n \in D : m < n => from[m] < from[n]
  <2>1. PICK from \in [1..Len(t) -> P] :
           /\ \A n \in 1..Len(t) : t[n] = s[from[n]]
           /\ \A i \in P : \E n \in 1..Len(t) : from[n] = i
           /\ \A m, n \in 1..Len(t) : m < n => from[m] < from[n]
    BY <1>2 DEF Picks
  <2>2. DOMAIN t = 1..Len(t) /\ Len(t) \in Nat
    BY <1>2
  <2>3. 1..Len(t) \subseteq Int
    BY <2>2
  <2> QED
    BY <2>1, <2>2, <2>3
<1>4. \A n \in D : from[n] \in DOMAIN s /\ from[n] \in Int /\ s[from[n]].id \notin ids
  <2>1. DOMAIN s \subseteq Int
    BY <1>1
  <2> QED
    BY <1>0, <1>3, <2>1
<1>5. Range(t) \subseteq Range(s)
  <2>1. \A n \in D : t[n] = s[from[n]] /\ from[n] \in DOMAIN s
    BY <1>3, <1>4
  <2>2. DOMAIN t = D
    BY <1>3
  <2> QED
    BY <2>1, <2>2 DEF Range
<1>6. IdsOf(t) = IdsOf(s) \ ids
  <2>1. \A n \in D : t[n].id \in IdsOf(s) \ ids
    BY <1>3, <1>4 DEF IdsOf
  <2>2. ASSUME NEW i \in DOMAIN s, s[i].id \notin ids  PROVE s[i].id \in IdsOf(t)
    <3>1. i \in P
      BY <1>0, <2>2
    <3>2. PICK n \in D : from[n] = i
      BY <1>3, <3>1
    <3>3. n \in DOMAIN t /\ t[n].id = s[i].id
      BY <1>3, <3>2
    <3> QED
      BY <3>3 DEF IdsOf
  <2>3. IdsOf(t) \subseteq IdsOf(s) \ ids
    <3>1. \A n \in DOMAIN t : t[n].id \in IdsOf(s) \ ids
      BY <1>3, <2>1
    <3>2. IdsOf(t) = {t[n].id : n \in DOMAIN t}
      BY DEF IdsOf
    <3> QED
      BY <3>1, <3>2
  <2>4. IdsOf(s) \ ids \subseteq IdsOf(t)
    <3>1. IdsOf(s) = {s[i].id : i \in DOMAIN s}
      BY DEF IdsOf
    <3> QED
      BY <2>2, <3>1
  <2> QED
    BY <2>3, <2>4
<1>7. DistinctIds(t)
  <2>1. ASSUME NEW m \in D, NEW n \in D, from[m] = from[n]  PROVE m = n
    <3>1. ~(m < n) /\ ~(n < m) /\ m \in Int /\ n \in Int
      BY <1>3, <1>4, <2>1
    <3> QED
      BY <3>1
  <2>2. ASSUME NEW m \in D, NEW n \in D, t[m].id = t[n].id  PROVE from[m] = from[n]
    <3>1. s[from[m]].id = s[from[n]].id
      BY <1>3, <2>2
    <3>2. from[m] \in DOMAIN s /\ from[n] \in DOMAIN s
      BY <1>4
    <3> QED
      BY <1>1, <3>1, <3>2 DEF DistinctIds
  <2>3. DOMAIN t = D
    BY <1>3
  <2> QED
    BY <2>1, <2>2, <2>3 DEF DistinctIds
<1>8. Sorted(s) => Sorted(t)
  BY <1>3, <1>4 DEF Sorted
<1> QED
  BY <1>0, <1>2, <1>5, <1>6, <1>7, <1>8 DEF Listed

(* A timer more. *)
Added(t, s, x) == Listed(s) /\ x \in Timer /\ x.id \notin IdsOf(s) /\ t = Append(s, x)

(* What push_back makes of a list of timers. *)
LEMMA AddedShape ==
  ASSUME NEW s, NEW x, NEW t, Added(t, s, x)
  PROVE  /\ Listed(t) /\ IdsOf(t) = IdsOf(s) \cup {x.id}
         /\ Within(s) /\ x.when <= x.delay => Within(t)
         /\ \A id : LateFor(s, id) /\ id # x.id => LateFor(t, id)
<1>1. /\ s \in Seq(Timer) /\ DistinctIds(s)
      /\ x \in Timer /\ x.id \notin IdsOf(s) /\ t = Append(s, x)
  BY DEF Listed, Added
<1>2. PICK n \in Nat : n = Len(s) /\ DOMAIN s = 1..n
  BY <1>1
<1>3. /\ t \in Seq(Timer) /\ DOMAIN t = 1..(n + 1)
      /\ \A i \in 1..n : t[i] = s[i]
      /\ t[n + 1] = x
  BY <1>1, <1>2
<1>4. \A i \in DOMAIN t : (i \in DOMAIN s /\ t[i] = s[i]) \/ (i = n + 1 /\ t[i] = x)
  BY <1>2, <1>3
<1>5. n + 1 \in DOMAIN t /\ \A i \in DOMAIN s : i \in DOMAIN t /\ t[i] = s[i]
  BY <1>2, <1>3
<1>6. DistinctIds(t)
  <2>1. \A i \in DOMAIN s : s[i].id # x.id
    BY <1>1 DEF IdsOf
  <2> QED
    BY <1>1, <1>4, <2>1 DEF DistinctIds
<1>7. IdsOf(t) = IdsOf(s) \cup {x.id}
  BY <1>3, <1>4, <1>5 DEF IdsOf
<1>8. /\ Within(s) /\ x.when <= x.delay => Within(t)
      /\ \A id : LateFor(s, id) /\ id # x.id => LateFor(t, id)
  BY <1>4 DEF Within, LateFor
<1> QED
  BY <1>3, <1>6, <1>7, <1>8 DEF Listed

(* A timer set anew. *)
LEMMA ChangedShape ==
  ASSUME NEW s, Listed(s), NEW n \in DOMAIN s, NEW x \in Timer, x.id = s[n].id,
         NEW t, t = [s EXCEPT ![n] = x]
  PROVE  /\ Listed(t) /\ IdsOf(t) = IdsOf(s)
         /\ Within(s) /\ x.when <= x.delay => Within(t)
         /\ \A id : LateFor(s, id) /\ id # x.id => LateFor(t, id)
<1>1. s \in Seq(Timer) /\ DistinctIds(s)
  BY DEF Listed
<1>2. /\ t \in Seq(Timer) /\ DOMAIN t = DOMAIN s
  BY <1>1
<1>3. t[n] = x /\ \A i \in DOMAIN s : i # n => t[i] = s[i]
  BY <1>1
<1>4. \A i \in DOMAIN s : t[i].id = s[i].id
  BY <1>3
<1> QED
  BY <1>1, <1>2, <1>3, <1>4 DEF Listed, DistinctIds, IdsOf, Within, LateFor

(* The position of a timer in the list. *)
LEMMA AtShape ==
  ASSUME Listed(timers), NEW id \in Live
  PROVE  At(id) \in DOMAIN timers /\ timers[At(id)].id = id
<1>1. \E i \in DOMAIN timers : timers[i].id = id
  BY DEF Live
<1> QED
  BY <1>1 DEF At

-------------------------------------------------------------------------------
(* The wait before the earliest timer. *)

(* The list holds each timer once, and while timers are fired, when no     *)
(* removal is made at once, the iterator is the end or a timer of it.      *)
TimersKept ==
  /\ Listed(timers)
  /\ pc \in {"timers", "inTimer"} => dispatching
  /\ pc = "timers" => it = NoTimer \/ it \in Live
  /\ pc = "inTimer" => it \in Live

(* The time that start_handle_timers took is not ahead of the present. *)
Clock == timeNow \in Int /\ timeNow <= 0 /\ deadline \in Nat

(* The list is sorted except while timers are fired, and when a handler    *)
(* that ended the loop left it unsorted.                                   *)
InOrder ==
  "restart" \notin use /\ pc \notin {"timers", "inTimer", "exiting", "returned", "undefined"} =>
    Sorted(timers)

(* What is left of the wait. *)
Waking ==
  pc = "polling" /\ "restart" \notin use =>
    \A i \in DOMAIN timers : deadline <= Most(0, timers[i].when)

(* A timer whose handler runs was due, and so the delay that will be added *)
(* leaves it within the delay.                                             *)
Late ==
  "selfreset" \notin use =>
    /\ Within(timers)
    /\ pc = "inTimer" => LateFor(timers, it)

(* A timer that its handler or another one resets is within its delay. *)
LEMMA ResetShape ==
  ASSUME Listed(timers), NEW id \in Live, NEW t,
         t = [timers EXCEPT ![At(id)].when = timers[At(id)].delay]
  PROVE  /\ Listed(t) /\ IdsOf(t) = Live
         /\ Within(timers) => Within(t)
         /\ \A other : LateFor(timers, other) /\ other # id => LateFor(t, other)
<1>1. PICK n : n = At(id) /\ n \in DOMAIN timers /\ timers[n].id = id
  BY AtShape
<1>2. PICK x : x = [timers[n] EXCEPT !.when = timers[n].delay]
  OBVIOUS
<1>3. timers \in Seq(Timer)
  BY DEF Listed
<1>4. /\ timers[n] \in Timer /\ timers[n].delay \in Nat
  BY <1>1, <1>3, TimerFields
<1>5. x \in Timer /\ x.id = timers[n].id /\ x.when <= x.delay
  BY <1>2, <1>4 DEF Timer
<1>6. t = [timers EXCEPT ![n] = x]
  BY <1>1, <1>2
<1>7. /\ Listed(t) /\ IdsOf(t) = IdsOf(timers)
      /\ Within(timers) /\ x.when <= x.delay => Within(t)
      /\ \A other : LateFor(timers, other) /\ other # x.id => LateFor(t, other)
  <2>1. x \in Timer /\ x.id = timers[n].id /\ n \in DOMAIN timers
    BY <1>1, <1>5
  <2> HIDE DEF Timer
  <2> QED
    BY <1>6, <2>1, ChangedShape
<1>8. Live = IdsOf(timers)
  BY DEF Live, IdsOf
<1> QED
  BY <1>1, <1>5, <1>7, <1>8

(* A timer set one delay further after its handler returned. *)
LEMMA FurtherShape ==
  ASSUME Listed(timers), NEW id \in Live, NEW t,
         t = [timers EXCEPT ![At(id)].times = IF TheTimer(id).times = 0 THEN 0
                                                ELSE TheTimer(id).times - 1,
                            ![At(id)].when = TheTimer(id).when + TheTimer(id).delay]
  PROVE  /\ Listed(t) /\ IdsOf(t) = Live
         /\ Within(timers) /\ LateFor(timers, id) => Within(t)
<1>1. PICK n : n = At(id) /\ n \in DOMAIN timers /\ timers[n].id = id
  BY AtShape
<1>2. PICK x : x = [timers[n] EXCEPT !.times = IF timers[n].times = 0 THEN 0
                                                 ELSE timers[n].times - 1,
                                     !.when = timers[n].when + timers[n].delay]
  OBVIOUS
<1>3. timers \in Seq(Timer)
  BY DEF Listed
<1>4. /\ timers[n] \in Timer /\ timers[n].delay \in Nat /\ timers[n].when \in Int
      /\ timers[n].times \in Nat /\ timers[n].id \in Timers
  BY <1>1, <1>3, TimerFields
<1>5. /\ x.id = timers[n].id /\ x.delay = timers[n].delay
      /\ x.when = timers[n].when + timers[n].delay
      /\ x.times = IF timers[n].times = 0 THEN 0 ELSE timers[n].times - 1
      /\ x = [id |-> x.id, times |-> x.times, delay |-> x.delay, when |-> x.when]
  BY <1>2, <1>4 DEF Timer
<1>6. x \in Timer
  BY <1>4, <1>5 DEF Timer
<1>7. LateFor(timers, id) => x.when <= x.delay
  <2> SUFFICES ASSUME LateFor(timers, id)  PROVE x.when <= x.delay
    OBVIOUS
  <2>1. timers[n].when < 0
    BY <1>1 DEF LateFor
  <2> QED
    BY <1>4, <1>5, <2>1
<1>8. t = [timers EXCEPT ![n] = x]
  BY <1>1, <1>2 DEF TheTimer
<1>9. /\ Listed(t) /\ IdsOf(t) = IdsOf(timers)
      /\ Within(timers) /\ x.when <= x.delay => Within(t)
      /\ \A other : LateFor(timers, other) /\ other # x.id => LateFor(t, other)
  <2>1. x \in Timer /\ x.id = timers[n].id /\ n \in DOMAIN timers
    BY <1>1, <1>5, <1>6
  <2> HIDE DEF Timer
  <2> QED
    BY <1>8, <2>1, ChangedShape
<1>10. Live = IdsOf(timers)
  BY DEF Live, IdsOf
<1> QED
  BY <1>7, <1>9, <1>10

(* The iterator after a timer is the end or another timer. *)
LEMMA AfterShape ==
  ASSUME Listed(timers), NEW id \in Live
  PROVE  After(id) = NoTimer \/ (After(id) \in Live /\ After(id) # id)
<1>1. PICK n : n = At(id) /\ n \in DOMAIN timers /\ timers[n].id = id
  BY AtShape
<1>2. timers \in Seq(Timer) /\ DistinctIds(timers)
  BY DEF Listed
<1>3. n # Len(timers) => n + 1 \in DOMAIN timers /\ n + 1 # n
  BY <1>1, <1>2
<1>4. n # Len(timers) => timers[n + 1].id \in Live /\ timers[n + 1].id # id
  BY <1>1, <1>2, <1>3 DEF Live, DistinctIds
<1> QED
  BY <1>1, <1>4 DEF After

(* Time passes for every timer alike. *)
LEMMA TickShape ==
  ASSUME NEW s, Listed(s), NEW t,
         t = [i \in DOMAIN s |-> [s[i] EXCEPT !.when = @ - 1]]
  PROVE  /\ Listed(t) /\ IdsOf(t) = IdsOf(s) /\ DOMAIN t = DOMAIN s
         /\ \A i \in DOMAIN s : /\ t[i].id = s[i].id /\ t[i].delay = s[i].delay
                                /\ t[i].when = s[i].when - 1
                                /\ s[i].when \in Int /\ s[i].delay \in Nat
<1>1. s \in Seq(Timer) /\ DistinctIds(s) /\ DOMAIN t = DOMAIN s
  BY DEF Listed
<1>2. ASSUME NEW i \in DOMAIN s
      PROVE  /\ t[i] \in Timer /\ t[i].id = s[i].id /\ t[i].delay = s[i].delay
             /\ t[i].when = s[i].when - 1 /\ s[i].when \in Int /\ s[i].delay \in Nat
  <2>1. /\ s[i] \in Timer /\ s[i].id \in Timers /\ s[i].times \in Nat
        /\ s[i].delay \in Nat /\ s[i].when \in Int
    BY <1>1, TimerFields
  <2>2. t[i] = [s[i] EXCEPT !.when = s[i].when - 1]
    OBVIOUS
  <2> QED
    BY <2>1, <2>2 DEF Timer
<1>3. t \in Seq(Timer)
  <2>1. PICK n \in Nat : DOMAIN s = 1..n
    BY <1>1
  <2>2. t \in [1..n -> Timer]
    BY <1>2, <2>1
  <2> HIDE DEF Timer
  <2> QED
    BY <2>2, FunIsSeq
<1>4. \A i \in DOMAIN s : t[i].id = s[i].id
  BY <1>2
<1>5. DistinctIds(t)
  BY <1>1, <1>4 DEF DistinctIds
<1>6. IdsOf(t) = IdsOf(s)
  BY <1>1, <1>4 DEF IdsOf
<1> QED
  BY <1>1, <1>2, <1>3, <1>5, <1>6 DEF Listed

(* The loop starts without timers. *)
LEMMA TimersKeptInit == Init => TimersKept
<1> SUFFICES ASSUME Init  PROVE TimersKept
  OBVIOUS
<1>1. timers = <<>> /\ pc = "idle"
  BY DEF Init
<1>2. timers \in Seq(Timer) /\ DOMAIN timers = {}
  BY <1>1
<1> QED
  BY <1>1, <1>2 DEF TimersKept, Listed, DistinctIds

(* No call and no step loses the timer that the iterator is at. *)
LEMMA TimersKeptNext == TimersKept /\ [Next]_vars => TimersKept'
<1> SUFFICES ASSUME TimersKept, [Next]_vars  PROVE TimersKept'
  OBVIOUS
<1>0. /\ Listed(timers)
      /\ pc \in {"timers", "inTimer"} => dispatching
      /\ pc = "timers" => it = NoTimer \/ it \in Live
      /\ pc = "inTimer" => it \in Live
  BY DEF TimersKept
<1>a. Live = IdsOf(timers) /\ Live' = IdsOf(timers')
  BY DEF Live, IdsOf
<1>1. ASSUME UNCHANGED timers, pc' \notin {"timers", "inTimer"}  PROVE TimersKept'
  BY <1>0, <1>1 DEF TimersKept
<1>2. ASSUME UNCHANGED <<timers, pc, it, dispatching>>  PROVE TimersKept'
  <2>1. Live' = Live
    BY <1>2 DEF Live
  <2> QED
    BY <1>0, <1>2, <2>1 DEF TimersKept
<1>3. ASSUME NEW k \in Keys, NEW mask \in Masks, AddItem(k, mask)  PROVE TimersKept'
  <2>1. UNCHANGED <<timers, it, dispatching>> /\ (pc' = pc \/ pc' = "undefined")
    BY <1>3 DEF AddItem
  <2> QED
    BY <1>1, <1>2, <2>1
<1>4. ASSUME NEW k \in Keys, RemoveItem(k)  PROVE TimersKept'
  BY <1>2, <1>4 DEF RemoveItem, runVars
<1>5. ASSUME NEW id \in Timers, NEW delay \in Delays, NEW times \in Times,
             AddTimer(id, delay, times)
      PROVE  TimersKept'
  <2>1. PICK x, s : /\ x = [id |-> id, times |-> times, delay |-> delay, when |-> delay]
                    /\ s = Append(timers, x)
    OBVIOUS
  <2>2. x \in Timer /\ x.id = id
    BY <2>1, TimesAreNat DEF Timer
  <2>3. id \notin IdsOf(timers) /\ timers' = SortTimers(s) /\ UNCHANGED <<pc, it, dispatching>>
    BY <1>5, <1>a, <2>1 DEF AddTimer, runVars
  <2>4. /\ Listed(s) /\ IdsOf(s) = IdsOf(timers) \cup {x.id}
        /\ Within(timers) /\ x.when <= x.delay => Within(s)
        /\ \A other : LateFor(timers, other) /\ other # x.id => LateFor(s, other)
    <3>1. Added(s, timers, x)
      BY <1>0, <2>1, <2>2, <2>3 DEF Added
    <3> QED
      BY <3>1, AddedShape
  <2>5. Listed(timers') /\ IdsOf(timers') = IdsOf(s)
    BY <2>3, <2>4, SortKeeps
  <2> QED
    BY <1>0, <1>a, <2>2, <2>3, <2>4, <2>5 DEF TimersKept
<1>6. ASSUME NEW id \in Timers, ResetTimer(id)  PROVE TimersKept'
  <2>1. PICK s : s = [timers EXCEPT ![At(id)].when = timers[At(id)].delay]
    OBVIOUS
  <2>2. id \in Live /\ timers' = SortTimers(s) /\ UNCHANGED <<pc, it, dispatching>>
    BY <1>6, <2>1 DEF ResetTimer, runVars
  <2>3. Listed(s) /\ IdsOf(s) = Live
    BY <1>0, <2>1, <2>2, ResetShape
  <2>4. Listed(timers') /\ IdsOf(timers') = IdsOf(s)
    BY <2>2, <2>3, SortKeeps
  <2> QED
    BY <1>0, <1>a, <2>2, <2>3, <2>4 DEF TimersKept
<1>7. ASSUME NEW id \in Timers, RemoveTimer(id)  PROVE TimersKept'
  <2>0. UNCHANGED <<pc, it, dispatching>>
    BY <1>7 DEF RemoveTimer, runVars
  <2>1. CASE dispatching
    BY <1>2, <1>7, <2>0, <2>1 DEF RemoveTimer
  <2>2. CASE ~dispatching
    <3>1. timers' = Cut(timers, {id})
      BY <1>7, <2>2 DEF RemoveTimer, Without, Cut
    <3>2. /\ Listed(timers') /\ Range(timers') \subseteq Range(timers)
          /\ IdsOf(timers') = IdsOf(timers) \ {id}
          /\ Sorted(timers) => Sorted(timers')
      BY <1>0, <3>1, WithoutShape
    <3> QED
      BY <1>0, <2>0, <2>2, <3>2 DEF TimersKept
  <2> QED
    BY <2>1, <2>2
<1>8. ASSUME Start \/ PollThrows \/ HandlerThrows  PROVE TimersKept'
  BY <1>1, <1>8 DEF Start, PollThrows, HandlerThrows, NextRound, Escape, BeginFlush, Stopped
<1>9. ASSUME FlushItem  PROVE TimersKept'
  <2>1. UNCHANGED timers /\ pc' \notin {"timers", "inTimer"}
    BY <1>9 DEF FlushItem, Escape, BeginFlush, Stopped
  <2> QED
    BY <1>1, <2>1
<1>10. ASSUME FlushTimers  PROVE TimersKept'
  <2>1. pc' \notin {"timers", "inTimer"}
    BY <1>10 DEF FlushTimers, Stopped
  <2>2. CASE UNCHANGED timers
    BY <1>1, <2>1, <2>2
  <2>3. CASE ~UNCHANGED timers
    <3>1. timers' = Cut(timers, Range(timerLater))
      BY <1>10, <2>3 DEF FlushTimers, Without, Cut
    <3>2. /\ Listed(timers') /\ Range(timers') \subseteq Range(timers)
          /\ IdsOf(timers') = IdsOf(timers) \ Range(timerLater)
          /\ Sorted(timers) => Sorted(timers')
      BY <1>0, <3>1, WithoutShape
    <3> QED
      BY <2>1, <3>2 DEF TimersKept
  <2> QED
    BY <2>2, <2>3
<1>11. ASSUME BeginPoll \/ PollReturns \/ PollInterrupted  PROVE TimersKept'
  BY <1>1, <1>11 DEF BeginPoll, PollReturns, PollInterrupted, loopVars
<1>12. ASSUME EnterTimers  PROVE TimersKept'
  <2>1. /\ UNCHANGED timers /\ pc' = "timers" /\ dispatching'
        /\ it' = IF timers = <<>> THEN NoTimer ELSE timers[1].id
    BY <1>12 DEF EnterTimers
  <2>2. timers # <<>> => timers[1].id \in Live'
    <3>1. timers \in Seq(Timer)
      BY <1>0 DEF Listed
    <3>2. timers # <<>> => 1 \in DOMAIN timers
      BY <3>1
    <3> QED
      BY <2>1, <3>2 DEF Live
  <2> QED
    BY <1>0, <2>1, <2>2 DEF TimersKept
<1>13. ASSUME FireTimer  PROVE TimersKept'
  <2>1. /\ UNCHANGED <<timers, it, dispatching>> /\ pc = "timers" /\ pc' = "inTimer"
        /\ it # NoTimer
    BY <1>13 DEF FireTimer, DueNow, loopVars
  <2>2. Live' = Live
    BY <2>1 DEF Live
  <2> QED
    BY <1>0, <2>1, <2>2 DEF TimersKept
<1>14. ASSUME NEW ok \in BOOLEAN, TimerReturns(ok)  PROVE TimersKept'
  <2>1. pc = "inTimer" /\ it \in Live /\ dispatching
    BY <1>0, <1>14 DEF TimerReturns
  <2>2. Listed(timers') /\ Live \ {it} \subseteq IdsOf(timers')
    <3>1. CASE TheTimer(it).times = 1
      <4>1. timers' = Cut(timers, {it})
        BY <1>14, <3>1 DEF TimerReturns, Without, Cut
      <4>2. /\ Listed(timers') /\ Range(timers') \subseteq Range(timers)
            /\ IdsOf(timers') = IdsOf(timers) \ {it}
            /\ Sorted(timers) => Sorted(timers')
        BY <1>0, <4>1, WithoutShape
      <4> QED
        BY <1>a, <4>2
    <3>2. CASE TheTimer(it).times # 1
      <4>1. timers' = [timers EXCEPT ![At(it)].times = IF TheTimer(it).times = 0 THEN 0
                                                         ELSE TheTimer(it).times - 1,
                                     ![At(it)].when = TheTimer(it).when + TheTimer(it).delay]
        BY <1>14, <3>2 DEF TimerReturns
      <4>2. Listed(timers') /\ IdsOf(timers') = Live
        BY <1>0, <2>1, <4>1, FurtherShape
      <4> QED
        BY <4>2
    <3> QED
      BY <3>1, <3>2
  <2>3. CASE ok
    <3>1. pc' = "timers" /\ it' = After(it) /\ UNCHANGED dispatching
      BY <1>14, <2>3 DEF TimerReturns
    <3>2. After(it) = NoTimer \/ After(it) \in Live \ {it}
      BY <1>0, <2>1, AfterShape
    <3> QED
      BY <1>a, <2>1, <2>2, <3>1, <3>2 DEF TimersKept
  <2>4. CASE ~ok
    <3>1. pc' = "exiting"
      BY <1>14, <2>4 DEF TimerReturns, Leave, BeginFlush
    <3> QED
      BY <2>2, <3>1 DEF TimersKept
  <2> QED
    BY <2>3, <2>4
<1>15. ASSUME TimersDone  PROVE TimersKept'
  <2>1. timers' = SortTimers(timers) /\ pc' \notin {"timers", "inTimer"}
    BY <1>15 DEF TimersDone, Loopback, NextRound, BeginFlush
  <2>2. Listed(timers')
    BY <1>0, <2>1, SortKeeps
  <2> QED
    BY <2>1, <2>2 DEF TimersKept
<1>16. ASSUME CallItem \/ ItemsDone  PROVE TimersKept'
  BY <1>1, <1>16 DEF CallItem, ItemsDone, Loopback, NextRound, BeginFlush, loopVars
<1>17. ASSUME NEW ok \in BOOLEAN, ItemReturns(ok)  PROVE TimersKept'
  BY <1>1, <1>17 DEF ItemReturns, Leave, BeginFlush
<1>18. ASSUME Tick  PROVE TimersKept'
  <2>1. /\ timers' = [i \in DOMAIN timers |-> [timers[i] EXCEPT !.when = @ - 1]]
        /\ UNCHANGED <<pc, dispatching>>
    BY <1>18 DEF Tick
  <2>2. Listed(timers') /\ Live' = Live
    BY <1>0, <1>a, <2>1, TickShape
  <2>3. UNCHANGED it
    BY <1>18 DEF Tick
  <2> QED
    BY <1>0, <2>1, <2>2, <2>3 DEF TimersKept
<1>19. ASSUME UNCHANGED vars  PROVE TimersKept'
  BY <1>2, <1>19 DEF vars, loopVars, runVars
<1> QED
  BY <1>3, <1>4, <1>5, <1>6, <1>7, <1>8, <1>9, <1>10, <1>11, <1>12, <1>13, <1>14, <1>15, <1>16,
     <1>17, <1>18, <1>19
     DEF Next, UserCalls, Proceed, PollEnds, HandlerReturns

(* No step moves the time taken into the future or the wait below zero.    *)
LEMMA ClockNext == TimersKept /\ Clock /\ [Next]_vars => Clock'
<1> SUFFICES ASSUME TimersKept, Clock, [Next]_vars  PROVE Clock'
  OBVIOUS
<1>0. timeNow \in Int /\ timeNow <= 0 /\ deadline \in Nat /\ MaxLate \in Nat /\ Hour \in Nat
  BY TimesAreNat, BoundsAreNat DEF Clock
<1>1. ASSUME timeNow' \in {timeNow, 0}, deadline' \in {deadline, 0}  PROVE Clock'
  BY <1>0, <1>1 DEF Clock
<1>2. ASSUME UserCalls  PROVE Clock'
  BY <1>1, <1>2
     DEF UserCalls, AddItem, RemoveItem, AddTimer, ResetTimer, RemoveTimer, runVars
<1>3. ASSUME Start \/ PollReturns \/ PollInterrupted \/ PollThrows \/ HandlerThrows \/ EnterTimers
      PROVE  Clock'
  BY <1>1, <1>3
     DEF Start, PollReturns, PollInterrupted, PollThrows, HandlerThrows, EnterTimers, NextRound,
         Escape, BeginFlush
<1>4. ASSUME FlushItem \/ FlushTimers  PROVE Clock'
  BY <1>1, <1>4 DEF FlushItem, FlushTimers, Escape, BeginFlush
<1>5. ASSUME BeginPoll  PROVE Clock'
  <2>1. timeNow' = timeNow /\ deadline' = Tickless
    BY <1>5 DEF BeginPoll
  <2>2. Tickless \in Nat
    <3>1. CASE timers = <<>>
      BY <1>0, <3>1 DEF Tickless
    <3>2. CASE timers # <<>>
      <4>1. timers \in Seq(Timer)
        BY DEF TimersKept, Listed
      <4>2. 1 \in DOMAIN timers
        BY <3>2, <4>1
      <4>3. timers[1].when \in Int
        BY <4>1, <4>2, TimerFields
      <4> QED
        BY <1>0, <3>2, <4>3 DEF Tickless, Most, Least
    <3> QED
      BY <3>1, <3>2
  <2> QED
    BY <1>0, <2>1, <2>2 DEF Clock
<1>6. ASSUME FireTimer \/ CallItem  PROVE Clock'
  BY <1>1, <1>6 DEF FireTimer, CallItem
<1>7. ASSUME TimersDone \/ ItemsDone  PROVE Clock'
  BY <1>1, <1>7 DEF TimersDone, ItemsDone, Loopback, NextRound, BeginFlush
<1>8. ASSUME NEW ok \in BOOLEAN, TimerReturns(ok) \/ ItemReturns(ok)  PROVE Clock'
  BY <1>1, <1>8 DEF TimerReturns, ItemReturns, Leave, BeginFlush
<1>9. ASSUME Tick  PROVE Clock'
  <2>1. /\ timeNow' = IF it = NoTimer THEN 0 ELSE Most(timeNow - 1, -MaxLate)
        /\ deadline' = Most(deadline - 1, 0)
    BY <1>9 DEF Tick
  <2>2. timeNow' \in Int /\ timeNow' <= 0
    BY <1>0, <2>1 DEF Most
  <2> QED
    BY <1>0, <2>1, <2>2 DEF Clock, Most
<1>10. ASSUME UNCHANGED vars  PROVE Clock'
  BY <1>1, <1>10 DEF vars, runVars
<1> QED
  BY <1>2, <1>3, <1>4, <1>5, <1>6, <1>7, <1>8, <1>9, <1>10
     DEF Next, Proceed, PollEnds, HandlerReturns

(* What each step does to the list: the timers that callers add and reset  *)
(* are sorted in, and only a handler's return leaves the list unsorted.    *)
LEMMA InOrderNext == TimersKept /\ InOrder /\ [Next]_vars => InOrder'
<1> SUFFICES ASSUME TimersKept, InOrder, [Next]_vars, "restart" \notin use  PROVE InOrder'
  <2>1. [Next]_vars => use' = use
    BY UseIsKept
  <2> QED
    BY <2>1 DEF InOrder
<1> DEFINE Loose == {"timers", "inTimer", "exiting", "returned", "undefined"}
<1>0. Listed(timers) /\ (pc \notin Loose => Sorted(timers)) /\ Stopped = "returned"
  BY DEF TimersKept, InOrder, Stopped
<1>1. ASSUME pc' \in Loose \/ (UNCHANGED timers /\ pc \notin Loose) \/ Sorted(timers')
      PROVE  InOrder'
  <2>1. CASE UNCHANGED timers /\ pc \notin Loose
    BY <1>0, <2>1 DEF InOrder, Sorted
  <2> QED
    BY <1>1, <2>1 DEF InOrder
<1>2. ASSUME UNCHANGED <<timers, pc>>  PROVE InOrder'
  BY <1>0, <1>1, <1>2
<1>3. ASSUME NEW k \in Keys, RemoveItem(k) \/ \E mask \in Masks : AddItem(k, mask)  PROVE InOrder'
  BY <1>1, <1>2, <1>3 DEF AddItem, RemoveItem, runVars
<1>4. ASSUME NEW id \in Timers, NEW delay \in Delays, NEW times \in Times,
             AddTimer(id, delay, times)
      PROVE  InOrder'
  <2>1. PICK x, s : /\ x = [id |-> id, times |-> times, delay |-> delay, when |-> delay]
                    /\ s = Append(timers, x)
    OBVIOUS
  <2>2. x \in Timer /\ x.id = id
    BY <2>1, TimesAreNat DEF Timer
  <2>3. id \notin IdsOf(timers) /\ timers' = SortTimers(s)
    BY <1>4, <2>1 DEF AddTimer, Live, IdsOf
  <2>4. Added(s, timers, x)
    BY <1>0, <2>1, <2>2, <2>3 DEF Added
  <2>5. Listed(s)
    BY <2>4, AddedShape
  <2>6. Sorted(timers')
    BY <2>3, <2>5, SortKeeps
  <2> QED
    BY <1>1, <2>6
<1>5. ASSUME NEW id \in Timers, ResetTimer(id)  PROVE InOrder'
  <2>1. PICK s : s = [timers EXCEPT ![At(id)].when = timers[At(id)].delay]
    OBVIOUS
  <2>2. id \in Live /\ timers' = SortTimers(s)
    BY <1>5, <2>1 DEF ResetTimer
  <2>3. Listed(s)
    BY <1>0, <2>1, <2>2, ResetShape
  <2>4. Sorted(timers')
    BY <2>2, <2>3, SortKeeps
  <2> QED
    BY <1>1, <2>4
<1>6. ASSUME NEW id \in Timers, RemoveTimer(id)  PROVE InOrder'
  <2>1. pc' = pc
    BY <1>6 DEF RemoveTimer, runVars
  <2>2. UNCHANGED timers \/ timers' = Cut(timers, {id})
    BY <1>6 DEF RemoveTimer, Without, Cut
  <2>3. CASE timers' = Cut(timers, {id})
    <3>1. /\ Listed(timers') /\ Range(timers') \subseteq Range(timers)
          /\ IdsOf(timers') = IdsOf(timers) \ {id}
          /\ Sorted(timers) => Sorted(timers')
      BY <1>0, <2>3, WithoutShape
    <3> QED
      BY <1>0, <1>1, <2>1, <3>1
  <2> QED
    BY <1>2, <2>1, <2>2, <2>3
<1>7. ASSUME Start  PROVE InOrder'
  BY <1>1, <1>7 DEF Start
<1>8. ASSUME FlushItem  PROVE InOrder'
  <2>1. UNCHANGED timers /\ (UNCHANGED pc \/ pc' \in Loose)
    BY <1>0, <1>8 DEF FlushItem, Escape, BeginFlush
  <2> QED
    BY <1>1, <1>2, <2>1
<1>9. ASSUME FlushTimers  PROVE InOrder'
  <2>1. CASE pc' \in Loose
    BY <1>1, <2>1
  <2>2. CASE pc' \notin Loose
    <3>1. pc = "flush" /\ timers' = Cut(timers, Range(timerLater))
      BY <1>0, <1>9, <2>2 DEF FlushTimers, Without, Cut
    <3>2. /\ Listed(timers') /\ Range(timers') \subseteq Range(timers)
          /\ IdsOf(timers') = IdsOf(timers) \ Range(timerLater)
          /\ Sorted(timers) => Sorted(timers')
      BY <1>0, <3>1, WithoutShape
    <3> QED
      BY <1>0, <1>1, <3>1, <3>2
  <2> QED
    BY <2>1, <2>2
<1>10. ASSUME BeginPoll \/ PollReturns \/ PollInterrupted  PROVE InOrder'
  BY <1>1, <1>10 DEF BeginPoll, PollReturns, PollInterrupted, loopVars
<1>11. ASSUME PollThrows \/ HandlerThrows  PROVE InOrder'
  BY <1>0, <1>1, <1>11 DEF PollThrows, HandlerThrows, Escape, BeginFlush
<1>12. ASSUME EnterTimers \/ FireTimer  PROVE InOrder'
  BY <1>1, <1>12 DEF EnterTimers, FireTimer
<1>13. ASSUME NEW ok \in BOOLEAN, TimerReturns(ok)  PROVE InOrder'
  <2>1. pc' \in {"timers", "exiting"}
    BY <1>13 DEF TimerReturns, Leave, BeginFlush
  <2> QED
    BY <1>1, <2>1
<1>14. ASSUME TimersDone  PROVE InOrder'
  <2>1. timers' = SortTimers(timers)
    BY <1>14 DEF TimersDone
  <2>2. Sorted(timers')
    BY <1>0, <2>1, SortKeeps
  <2> QED
    BY <1>1, <2>2
<1>15. ASSUME CallItem \/ ItemsDone  PROVE InOrder'
  BY <1>1, <1>15 DEF CallItem, ItemsDone, Loopback, NextRound, BeginFlush, loopVars
<1>16. ASSUME NEW ok \in BOOLEAN, ItemReturns(ok)  PROVE InOrder'
  BY <1>1, <1>16 DEF ItemReturns, Leave, BeginFlush
<1>17. ASSUME Tick  PROVE InOrder'
  <2>1. pc' = pc /\ timers' = [i \in DOMAIN timers |-> [timers[i] EXCEPT !.when = @ - 1]]
    BY <1>17 DEF Tick
  <2>2. /\ Listed(timers') /\ IdsOf(timers') = IdsOf(timers) /\ DOMAIN timers' = DOMAIN timers
        /\ \A i \in DOMAIN timers :
             /\ timers'[i].id = timers[i].id /\ timers'[i].delay = timers[i].delay
             /\ timers'[i].when = timers[i].when - 1
             /\ timers[i].when \in Int /\ timers[i].delay \in Nat
    BY <1>0, <2>1, TickShape
  <2>3. Sorted(timers) => Sorted(timers')
    BY <2>2 DEF Sorted
  <2> QED
    BY <1>0, <1>1, <2>1, <2>3
<1>18. ASSUME UNCHANGED vars  PROVE InOrder'
  BY <1>2, <1>18 DEF vars, loopVars, runVars
<1> QED
  BY <1>3, <1>4, <1>5, <1>6, <1>7, <1>8, <1>9, <1>10, <1>11, <1>12, <1>13, <1>14, <1>15, <1>16,
     <1>17, <1>18
     DEF Next, UserCalls, Proceed, PollEnds, HandlerReturns

(* Only the poll's beginning sets the wait, and then the list is sorted.   *)
LEMMA WakingNext == TimersKept /\ Clock /\ InOrder /\ Waking /\ [Next]_vars => Waking'
<1> SUFFICES ASSUME TimersKept, Clock, InOrder, Waking, [Next]_vars, "restart" \notin use
             PROVE  Waking'
  <2>1. [Next]_vars => use' = use
    BY UseIsKept
  <2> QED
    BY <2>1 DEF Waking
<1>0. /\ Listed(timers) /\ timers \in Seq(Timer) /\ deadline \in Nat /\ Hour \in Nat
      /\ pc = "poll" => Sorted(timers)
      /\ pc = "polling" => \A i \in DOMAIN timers : deadline <= Most(0, timers[i].when)
  BY TimesAreNat DEF TimersKept, Clock, Listed, InOrder, Waking
<1>1. ASSUME pc' # "polling"  PROVE Waking'
  BY <1>1 DEF Waking
<1>2. ASSUME UserCalls  PROVE Waking'
  <2>1. pc \in {"idle", "inTimer", "inItem"} /\ pc' \in {pc, "undefined"}
    BY <1>2 DEF UserCalls, AddItem, RemoveItem, AddTimer, ResetTimer, RemoveTimer, Called,
                UsersTurn, runVars
  <2> QED
    BY <1>1, <2>1
<1>3. ASSUME Start \/ PollReturns \/ PollInterrupted \/ PollThrows \/ HandlerThrows \/ EnterTimers
      PROVE  Waking'
  BY <1>1, <1>3
     DEF Start, PollReturns, PollInterrupted, PollThrows, HandlerThrows, EnterTimers, NextRound,
         Escape, BeginFlush, Stopped
<1>4. ASSUME FlushItem \/ FlushTimers  PROVE Waking'
  BY <1>1, <1>4 DEF FlushItem, FlushTimers, Escape, BeginFlush, Stopped
<1>5. ASSUME BeginPoll  PROVE Waking'
  <2>1. pc = "poll" /\ deadline' = Tickless /\ UNCHANGED timers
    BY <1>5 DEF BeginPoll, loopVars
  <2>2. ASSUME NEW i \in DOMAIN timers  PROVE Tickless <= Most(0, timers[i].when)
    <3>1. timers # <<>> /\ 1 \in DOMAIN timers /\ i \in Int /\ 1 <= i
      BY <1>0
    <3>2. timers[1].when \in Int /\ timers[i].when \in Int
      BY <1>0, <3>1, TimerFields
    <3>3. timers[1].when <= timers[i].when
      BY <1>0, <2>1, <3>1, <3>2 DEF Sorted
    <3> QED
      BY <1>0, <3>1, <3>2, <3>3 DEF Tickless, Most, Least
  <2> QED
    BY <2>1, <2>2 DEF Waking
<1>6. ASSUME FireTimer \/ CallItem  PROVE Waking'
  BY <1>1, <1>6 DEF FireTimer, CallItem
<1>7. ASSUME TimersDone \/ ItemsDone  PROVE Waking'
  BY <1>1, <1>7 DEF TimersDone, ItemsDone, Loopback, NextRound, BeginFlush
<1>8. ASSUME NEW ok \in BOOLEAN, TimerReturns(ok) \/ ItemReturns(ok)  PROVE Waking'
  BY <1>1, <1>8 DEF TimerReturns, ItemReturns, Leave, BeginFlush
<1>9. ASSUME Tick  PROVE Waking'
  <2>1. /\ pc' = pc /\ deadline' = Most(deadline - 1, 0)
        /\ timers' = [i \in DOMAIN timers |-> [timers[i] EXCEPT !.when = @ - 1]]
    BY <1>9 DEF Tick
  <2>2. /\ Listed(timers') /\ IdsOf(timers') = IdsOf(timers) /\ DOMAIN timers' = DOMAIN timers
        /\ \A i \in DOMAIN timers :
             /\ timers'[i].id = timers[i].id /\ timers'[i].delay = timers[i].delay
             /\ timers'[i].when = timers[i].when - 1
             /\ timers[i].when \in Int /\ timers[i].delay \in Nat
    <3>1. Listed(timers)
      BY <1>0
    <3>2. timers' = [i \in DOMAIN timers |-> [timers[i] EXCEPT !.when = @ - 1]]
      BY <2>1
    <3> QED
      BY <3>1, <3>2, TickShape
  <2>3. CASE pc = "polling"
    <3>1. ASSUME NEW i \in DOMAIN timers'  PROVE deadline' <= Most(0, timers'[i].when)
      <4>1. /\ deadline <= Most(0, timers[i].when) /\ timers'[i].when = timers[i].when - 1
            /\ timers[i].when \in Int
        BY <1>0, <2>2, <2>3
      <4> QED
        BY <1>0, <2>1, <4>1 DEF Most
    <3> QED
      BY <3>1 DEF Waking
  <2>4. CASE pc # "polling"
    BY <1>1, <2>1, <2>4
  <2> QED
    BY <2>3, <2>4
<1>10. ASSUME UNCHANGED vars  PROVE Waking'
  BY <1>0, <1>10 DEF vars, loopVars, runVars, Waking
<1> QED
  BY <1>2, <1>3, <1>4, <1>5, <1>6, <1>7, <1>8, <1>9, <1>10
     DEF Next, Proceed, PollEnds, HandlerReturns

(* A handler runs only for a timer that is late, and leaves it so. *)
LEMMA LateNext == TimersKept /\ Clock /\ Late /\ [Next]_vars => Late'
<1> SUFFICES ASSUME TimersKept, Clock, Late, [Next]_vars, "selfreset" \notin use
             PROVE  Within(timers') /\ (pc' = "inTimer" => LateFor(timers', it'))
  <2>1. [Next]_vars => use' = use
    BY UseIsKept
  <2> QED
    BY <2>1 DEF Late, Within, LateFor
<1>0. /\ Listed(timers) /\ timers \in Seq(Timer) /\ DistinctIds(timers)
      /\ Within(timers) /\ (pc = "inTimer" => LateFor(timers, it))
      /\ pc = "inTimer" => it \in Live
      /\ Live = IdsOf(timers)
  BY DEF TimersKept, Listed, Late, Live, IdsOf
<1> DEFINE Goal == Within(timers') /\ (pc' = "inTimer" => LateFor(timers', it'))
<1>1. ASSUME UNCHANGED timers, pc' # "inTimer" \/ UNCHANGED <<pc, it>>  PROVE Goal
  <2>1. Within(timers')
    BY <1>0, <1>1
  <2>2. pc' = "inTimer" => LateFor(timers', it')
    BY <1>0, <1>1
  <2> QED
    BY <2>1, <2>2
<1>2. ASSUME NEW k \in Keys, RemoveItem(k) \/ \E mask \in Masks : AddItem(k, mask)  PROVE Goal
  <2>1. UNCHANGED <<timers, it>> /\ (pc' = pc \/ pc' = "undefined")
    BY <1>2 DEF AddItem, RemoveItem, runVars
  <2> QED
    BY <1>1, <2>1
<1>3. ASSUME NEW id \in Timers, NEW delay \in Delays, NEW times \in Times,
             AddTimer(id, delay, times)
      PROVE  Goal
  <2>1. PICK x, s : /\ x = [id |-> id, times |-> times, delay |-> delay, when |-> delay]
                    /\ s = Append(timers, x)
    OBVIOUS
  <2>2. x \in Timer /\ x.id = id /\ x.when = x.delay /\ x.delay \in Nat
    BY <2>1, TimesAreNat DEF Timer
  <2>3. id \notin IdsOf(timers) /\ timers' = SortTimers(s) /\ UNCHANGED <<pc, it>>
    BY <1>0, <1>3, <2>1 DEF AddTimer, runVars
  <2>4. Added(s, timers, x)
    BY <1>0, <2>1, <2>2, <2>3 DEF Added
  <2>5. /\ Listed(s) /\ IdsOf(s) = IdsOf(timers) \cup {x.id}
        /\ Within(timers) /\ x.when <= x.delay => Within(s)
        /\ \A other : LateFor(timers, other) /\ other # x.id => LateFor(s, other)
    BY <2>4, AddedShape
  <2>6. Listed(timers') /\ Sorted(timers') /\ Range(timers') = Range(s) /\ IdsOf(timers') = IdsOf(s)
    BY <2>3, <2>5, SortKeeps
  <2>7. /\ Within(s) => Within(timers')
        /\ \A other : LateFor(s, other) => LateFor(timers', other)
    BY <2>6, FewerTimers
  <2>8. x.when <= x.delay
    BY <2>2
  <2>9. Within(timers')
    BY <1>0, <2>5, <2>7, <2>8
  <2>10. pc' = "inTimer" => LateFor(timers', it')
    BY <1>0, <2>2, <2>3, <2>5, <2>7
  <2> QED
    BY <2>9, <2>10
<1>4. ASSUME NEW id \in Timers, ResetTimer(id)  PROVE Goal
  <2>1. PICK s : s = [timers EXCEPT ![At(id)].when = timers[At(id)].delay]
    OBVIOUS
  <2>2. /\ id \in Live /\ timers' = SortTimers(s) /\ UNCHANGED <<pc, it>>
        /\ pc = "inTimer" => it # id
    BY <1>4, <2>1 DEF ResetTimer, runVars
  <2>3. /\ Listed(s) /\ IdsOf(s) = Live
        /\ Within(timers) => Within(s)
        /\ \A other : LateFor(timers, other) /\ other # id => LateFor(s, other)
    BY <1>0, <2>1, <2>2, ResetShape
  <2>4. Listed(timers') /\ Sorted(timers') /\ Range(timers') = Range(s) /\ IdsOf(timers') = IdsOf(s)
    BY <2>2, <2>3, SortKeeps
  <2>5. /\ Within(s) => Within(timers')
        /\ \A other : LateFor(s, other) => LateFor(timers', other)
    BY <2>4, FewerTimers
  <2> QED
    BY <1>0, <2>2, <2>3, <2>5
<1>5. ASSUME NEW ids, timers' = Cut(timers, ids), pc' # "inTimer" \/ UNCHANGED <<pc, it>>  PROVE Goal
  <2>1. /\ Listed(timers') /\ Range(timers') \subseteq Range(timers)
        /\ IdsOf(timers') = IdsOf(timers) \ ids
        /\ Sorted(timers) => Sorted(timers')
    BY <1>0, <1>5, WithoutShape
  <2>2. /\ Within(timers) => Within(timers')
        /\ \A other : LateFor(timers, other) => LateFor(timers', other)
    BY <2>1, FewerTimers
  <2> QED
    BY <1>0, <1>5, <2>2
<1>6. ASSUME NEW id \in Timers, RemoveTimer(id)  PROVE Goal
  <2>1. /\ UNCHANGED timers \/ timers' = Cut(timers, {id})
        /\ UNCHANGED <<pc, it>>
    BY <1>6 DEF RemoveTimer, Without, Cut, runVars
  <2> QED
    BY <1>1, <1>5, <2>1
<1>7. ASSUME Start \/ PollThrows \/ HandlerThrows  PROVE Goal
  BY <1>1, <1>7 DEF Start, PollThrows, HandlerThrows, NextRound, Escape, BeginFlush, Stopped
<1>8. ASSUME FlushItem  PROVE Goal
  <2>1. UNCHANGED timers /\ pc' # "inTimer"
    BY <1>8 DEF FlushItem, Escape, BeginFlush, Stopped
  <2> QED
    BY <1>1, <2>1
<1>9. ASSUME FlushTimers  PROVE Goal
  <2>1. /\ UNCHANGED timers \/ timers' = Cut(timers, Range(timerLater))
        /\ pc' # "inTimer"
    BY <1>9 DEF FlushTimers, Without, Cut, Stopped
  <2> QED
    BY <1>1, <1>5, <2>1
<1>10. ASSUME BeginPoll \/ PollReturns \/ PollInterrupted \/ EnterTimers  PROVE Goal
  BY <1>1, <1>10 DEF BeginPoll, PollReturns, PollInterrupted, EnterTimers, loopVars
<1>11. ASSUME FireTimer  PROVE Goal
  <2>1. /\ UNCHANGED <<timers, it>> /\ pc = "timers"
        /\ it # NoTimer /\ TheTimer(it).when < timeNow
    BY <1>11 DEF FireTimer, DueNow, loopVars
  <2>2. it \in Live
    BY <2>1 DEF TimersKept
  <2>3. At(it) \in DOMAIN timers /\ timers[At(it)].id = it
    BY <1>0, <2>2, AtShape
  <2>4. timers[At(it)].when < 0
    <3>1. timers[At(it)].when < timeNow /\ timeNow \in Int /\ timeNow <= 0
      BY <2>1 DEF TheTimer, Clock
    <3>2. timers[At(it)].when \in Int
      BY <1>0, <2>3, TimerFields
    <3> QED
      BY <3>1, <3>2
  <2>5. LateFor(timers, it)
    BY <1>0, <2>3, <2>4 DEF LateFor, DistinctIds
  <2> QED
    BY <1>0, <2>1, <2>5
<1>12. ASSUME NEW ok \in BOOLEAN, TimerReturns(ok)  PROVE Goal
  <2>1. pc = "inTimer" /\ pc' # "inTimer"
    BY <1>12 DEF TimerReturns, Leave, BeginFlush
  <2>2. CASE TheTimer(it).times = 1
    <3>1. timers' = Cut(timers, {it})
      BY <1>12, <2>2 DEF TimerReturns, Without, Cut
    <3> QED
      BY <1>5, <2>1, <3>1
  <2>3. CASE TheTimer(it).times # 1
    <3>1. timers' = [timers EXCEPT ![At(it)].times = IF TheTimer(it).times = 0 THEN 0
                                                       ELSE TheTimer(it).times - 1,
                                   ![At(it)].when = TheTimer(it).when + TheTimer(it).delay]
      BY <1>12, <2>3 DEF TimerReturns
    <3>2. /\ Listed(timers') /\ IdsOf(timers') = Live
          /\ Within(timers) /\ LateFor(timers, it) => Within(timers')
      BY <1>0, <2>1, <3>1, FurtherShape
    <3> QED
      BY <1>0, <2>1, <3>2
  <2> QED
    BY <2>2, <2>3
<1>13. ASSUME TimersDone  PROVE Goal
  <2>1. timers' = SortTimers(timers) /\ pc' # "inTimer"
    BY <1>13 DEF TimersDone, Loopback, NextRound, BeginFlush
  <2>2. /\ Listed(timers') /\ Sorted(timers') /\ Range(timers') = Range(timers)
        /\ IdsOf(timers') = IdsOf(timers)
    BY <1>0, <2>1, SortKeeps
  <2>3. Within(timers) => Within(timers')
    BY <2>2, FewerTimers
  <2> QED
    BY <1>0, <2>1, <2>3
<1>14. ASSUME CallItem \/ ItemsDone  PROVE Goal
  BY <1>1, <1>14 DEF CallItem, ItemsDone, Loopback, NextRound, BeginFlush, loopVars
<1>15. ASSUME NEW ok \in BOOLEAN, ItemReturns(ok)  PROVE Goal
  BY <1>1, <1>15 DEF ItemReturns, Leave, BeginFlush
<1>16. ASSUME Tick  PROVE Goal
  <2>1. /\ UNCHANGED <<pc, it>>
        /\ timers' = [i \in DOMAIN timers |-> [timers[i] EXCEPT !.when = @ - 1]]
    BY <1>16 DEF Tick
  <2>2. /\ Listed(timers') /\ IdsOf(timers') = IdsOf(timers) /\ DOMAIN timers' = DOMAIN timers
        /\ \A i \in DOMAIN timers :
             /\ timers'[i].id = timers[i].id /\ timers'[i].delay = timers[i].delay
             /\ timers'[i].when = timers[i].when - 1
             /\ timers[i].when \in Int /\ timers[i].delay \in Nat
    <3>1. Listed(timers)
      BY <1>0
    <3>2. timers' = [i \in DOMAIN timers |-> [timers[i] EXCEPT !.when = @ - 1]]
      BY <2>1
    <3> QED
      BY <3>1, <3>2, TickShape
  <2>3. Within(timers')
    BY <1>0, <2>2 DEF Within
  <2>4. pc = "inTimer" => LateFor(timers', it)
    BY <1>0, <2>2 DEF LateFor
  <2> QED
    BY <2>1, <2>3, <2>4
<1>17. ASSUME UNCHANGED vars  PROVE Goal
  BY <1>1, <1>17 DEF vars, loopVars, runVars
<1> QED
  BY <1>2, <1>3, <1>4, <1>6, <1>7, <1>8, <1>9, <1>10, <1>11, <1>12, <1>13, <1>14, <1>15, <1>16,
     <1>17
     DEF Next, UserCalls, Proceed, PollEnds, HandlerReturns

(* The loop wakes for its earliest timer: loop.hpp:152, tickless() takes   *)
(* the front of a list that is sorted whenever the loop waits.             *)
THEOREM LoopWakesForEarliest == Spec => []WakesForEarliest
<1> DEFINE IInv == TimersKept /\ Clock /\ InOrder /\ Waking
<1>1. Init => IInv
  <2>1. Init => TimersKept
    BY TimersKeptInit
  <2>2. Init => Clock /\ InOrder /\ Waking
    BY DEF Init, Clock, InOrder, Sorted, Waking
  <2> QED
    BY <2>1, <2>2
<1>2. IInv /\ [Next]_vars => IInv'
  BY TimersKeptNext, ClockNext, InOrderNext, WakingNext
<1>3. IInv => WakesForEarliest
  BY DEF Clock, Waking, WakesForEarliest
<1> QED
  <2> HIDE DEF IInv
  <2> QED
    BY <1>1, <1>2, <1>3, PTL DEF Spec

(* No timer is further away than its delay, unless its own handler resets  *)
(* it: loop.hpp:84, the delay counts from the reset and is added once.     *)
THEOREM LoopNoFurtherThanDelay == Spec => []NoFurtherThanDelay
<1> DEFINE IInv == TimersKept /\ Clock /\ Late
<1>1. Init => IInv
  <2>1. Init => TimersKept
    BY TimersKeptInit
  <2>2. Init => Clock /\ Late
    BY DEF Init, Clock, Late, Within
  <2> QED
    BY <2>1, <2>2
<1>2. IInv /\ [Next]_vars => IInv'
  BY TimersKeptNext, ClockNext, LateNext
<1>3. IInv => NoFurtherThanDelay
  BY DEF Late, Within, NoFurtherThanDelay
<1> QED
  <2> HIDE DEF IInv
  <2> QED
    BY <1>1, <1>2, <1>3, PTL DEF Spec
===============================================================================
