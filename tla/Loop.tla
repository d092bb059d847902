--------------------------------- MODULE Loop ---------------------------------
(***************************************************************************)
(* zmqpp::loop (src/src/zmqpp/loop.cpp): one thread runs start(), which    *)
(* polls, fires the timers that are due and calls the handlers of the      *)
(* sockets and descriptors that are ready.  Handlers call back into the    *)
(* loop between two of its steps, and time passes at any moment.           *)
(*                                                                         *)
(* Times are relative to the present: Tick takes one from each of them, so *)
(* `when` is what is left before the timer is due and a negative one is    *)
(* late.  A timer is named by its address, which the allocator may reuse.  *)
(***************************************************************************)
EXTENDS PollTable, Lists

CONSTANTS
  Timers,     \* addresses of timer_t objects
  Delays,     \* the delays callers ask for
  Times,      \* the repeat counts callers ask for, 0 for ever
  Hour,       \* the longest wait, one hour in tickless()
  MaxLate,    \* bound: time stops when a timer is this late
  MaxCalls,   \* bound: calls a handler, or the owner while the loop is idle, makes
  MaxItems,   \* bound: the length of the poller's vector
  Uses        \* the sets of what users do beyond the plain use:
              \*   "restart"   start() is called again after it returned
              \*   "selfreset" a timer's handler resets that timer
              \*   "readd"     a key is added again while it is watched or its removal
              \*               is pending
              \*   "grow"      a socket's handler adds a socket
              \*   "throw"     handlers throw

ASSUME TimesAreNat == Delays \subseteq Nat /\ Times \subseteq Nat /\ Hour \in Nat
ASSUME BoundsAreNat == MaxLate \in Nat /\ MaxCalls \in Nat /\ MaxItems \in Nat

NoTimer == "none"

ASSUME NoTimerIsNot == NoTimer \notin Timers

VARIABLES
  poller,       \* poller_
  items,        \* items_, the key of each pair
  timers,       \* timers_
  fdLater,      \* fdRemoveLater_
  sockLater,    \* sockRemoveLater_
  timerLater,   \* timerRemoveLater_
  dispatching,  \* dispatching_
  rebuild,      \* rebuild_poller_
  pc,           \* where start() is
  it,           \* the iterator of start_handle_timers
  timeNow,      \* time_now of start_handle_timers
  pos,          \* the position of start_handle_poller in items_ ...
  end,          \* ... the end its range-for took, and the entries flushed so far
  pollRc,       \* poll_rc
  deadline,     \* what is left of the poll's timeout
  ready,        \* keys this iteration's zmq_poll raised for input, output or an
                \* error and no handler has had
  use,          \* which of Uses it is
  wanted,       \* keys whose last call by the user was add
  calls         \* calls made in this turn of the user

laters == <<fdLater, sockLater, timerLater>>
loopVars == <<poller, items, timers, laters, dispatching, rebuild>>
runVars == <<pc, it, timeNow, pos, end, pollRc, deadline, ready>>
vars == <<use, loopVars, runVars, wanted, calls>>

Timer == [id : Timers, times : Nat, delay : Nat, when : Int]

-------------------------------------------------------------------------------
(* The list of timers. *)

Live == {timers[i].id : i \in DOMAIN timers}
At(id) == CHOOSE i \in DOMAIN timers : timers[i].id = id
TheTimer(id) == timers[At(id)]

(* timers_.sort, which is stable: position i goes to its rank. *)
Rank(s, i) ==
  1 + Cardinality({j \in DOMAIN s : s[j].when < s[i].when \/ (s[j].when = s[i].when /\ j < i)})

(* Mutant: the list is not sorted. *)
SortTimersNot(s) == s

SortTimers(s) == [r \in DOMAIN s |-> s[CHOOSE i \in DOMAIN s : Rank(s, i) = r]]

(* Mutant: the pass ends after one timer. *)
AfterOne(id) == NoTimer

(* The iterator one past timer id. *)
After(id) == IF At(id) = Len(timers) THEN NoTimer ELSE timers[At(id) + 1].id

(* What flush_remove_later takes out of the items, in this order. *)
Pending == fdLater \o sockLater

Least(a, b) == IF a < b THEN a ELSE b
Most(a, b) == IF a > b THEN a ELSE b

(* tickless: the wait before the front timer, at most an hour and not negative. *)
Tickless == IF timers = <<>> THEN Hour ELSE Most(0, Least(Hour, timers[1].when))

Init ==
  /\ use \in Uses
  /\ poller = EmptyPoller
  /\ items = <<>> /\ timers = <<>>
  /\ fdLater = <<>> /\ sockLater = <<>> /\ timerLater = <<>>
  /\ dispatching = FALSE /\ rebuild = FALSE
  /\ pc = "idle" /\ it = NoTimer /\ timeNow = 0 /\ pos = 0 /\ end = 0
  /\ pollRc = FALSE /\ deadline = 0 /\ ready = {}
  /\ wanted = {} /\ calls = 0

-------------------------------------------------------------------------------
(* The user's calls: the owner's before start(), a handler's during it. *)

UsersTurn == pc \in {"idle", "inTimer", "inItem"} /\ calls < MaxCalls
Called == UsersTurn /\ calls' = calls + 1

(* add(socket or descriptor): in a socket's handler items_ may move under  *)
(* the range-for of start_handle_poller, and what follows is undefined.    *)
AddItem(k, mask) ==
  /\ Called /\ Len(poller.items) < MaxItems
  /\ k \in Range(items) \cup Range(Pending) => "readd" \in use
  /\ pc = "inItem" => "grow" \in use
  /\ poller' = PollerAdd(poller, k, mask)
  /\ rebuild' = TRUE
  /\ items' = Append(items, k)
  /\ wanted' = wanted \cup {k}
  /\ \/ UNCHANGED pc
     \/ pc = "inItem" /\ pc' = "undefined"
  /\ UNCHANGED <<use, timers, laters, dispatching, it, timeNow, pos, end,
                 pollRc, deadline, ready>>

(* remove(socket or descriptor): put off while handlers are dispatched. *)
RemoveItem(k) ==
  /\ Called
  /\ wanted' = wanted \ {k}
  /\ IF dispatching
       THEN /\ rebuild' = TRUE
            /\ IF k \in Fds
                 THEN fdLater' = Append(fdLater, k) /\ UNCHANGED sockLater
                 ELSE sockLater' = Append(sockLater, k) /\ UNCHANGED fdLater
            /\ UNCHANGED <<items, poller>>
       ELSE /\ items' = Erased(items, k)
            /\ poller' = PollerRemove(poller, k)
            /\ UNCHANGED <<rebuild, fdLater, sockLater>>
  /\ UNCHANGED <<use, timers, timerLater, dispatching, runVars>>

AddTimer(id, delay, times) ==
  /\ Called
  /\ id \notin Live
  /\ timers' = SortTimers(Append(timers,
       [id |-> id, times |-> times, delay |-> delay, when |-> delay]))
  /\ UNCHANGED <<use, poller, items, laters, dispatching, rebuild, runVars, wanted>>

ResetTimer(id) ==
  /\ Called
  /\ id \in Live
  /\ pc = "inTimer" /\ it = id => "selfreset" \in use
  /\ timers' = SortTimers([timers EXCEPT ![At(id)].when = timers[At(id)].delay])
  /\ UNCHANGED <<use, poller, items, laters, dispatching, rebuild, runVars, wanted>>

Without(ids) == Only(timers, {i \in DOMAIN timers : timers[i].id \notin ids})

RemoveTimer(id) ==
  /\ Called
  /\ id \in Live
  /\ IF dispatching
       THEN /\ timerLater' = Append(timerLater, id)
            /\ UNCHANGED timers
       ELSE /\ timers' = Without({id})
            /\ UNCHANGED timerLater
  /\ UNCHANGED <<use, poller, items, fdLater, sockLater, dispatching, rebuild, runVars, wanted>>

-------------------------------------------------------------------------------
(* start(). *)

(* The top of its while(1), and the flush after it. *)
BeginFlush(where) == pc' = where /\ end' = 0 /\ calls' = 0 /\ pos' = 0 /\ it' = NoTimer /\ timeNow' = 0
NextRound == BeginFlush("flush") /\ rebuild' = FALSE /\ pollRc' = FALSE

(* Mutant: the next round polls without a flush. *)
LoopbackNoFlush ==
  BeginFlush("poll") /\ rebuild' = FALSE /\ pollRc' = FALSE /\ dispatching' = FALSE

Loopback == NextRound /\ dispatching' = FALSE

(* Mutant: the way out leaves dispatching_ set. *)
LeaveDispatching == BeginFlush("exiting") /\ UNCHANGED <<rebuild, pollRc, dispatching>>

Leave == BeginFlush("exiting") /\ dispatching' = FALSE /\ UNCHANGED <<rebuild, pollRc>>

Stopped == IF "restart" \in use THEN "idle" ELSE "returned"

(* An exception leaves start(). *)
Escape == BeginFlush(Stopped) /\ UNCHANGED <<rebuild, pollRc>>

Start ==
  /\ pc = "idle"
  /\ NextRound
  /\ UNCHANGED <<use, poller, items, timers, laters, dispatching, deadline, ready, wanted>>

(* flush_remove_later, one entry: remove() itself, which would append to   *)
(* the very list being walked if dispatching_ were still set.              *)
FlushItem ==
  /\ pc \in {"flush", "exiting"} /\ end < Len(Pending)
  /\ LET k == Pending[end + 1]
     IN  \/ /\ dispatching
            /\ pc' = "undefined"
            /\ UNCHANGED <<poller, items, it, timeNow, pos, end, pollRc, rebuild, calls>>
         \/ /\ ~dispatching
            /\ items' = Erased(items, k)
            /\ poller' = PollerRemove(poller, k)
            /\ IF RemoveThrows(poller, k) THEN Escape
               ELSE end' = end + 1 /\ UNCHANGED <<pc, it, timeNow, pos, pollRc, rebuild, calls>>
  /\ UNCHANGED <<use, timers, laters, dispatching, deadline, ready, wanted>>

(* The timers' entries, and the lists are cleared. *)
FlushTimers ==
  /\ pc \in {"flush", "exiting"} /\ end = Len(Pending)
  /\ IF dispatching /\ timerLater # <<>>
       THEN pc' = "undefined" /\ UNCHANGED <<timers, fdLater, sockLater, timerLater>>
       ELSE /\ timers' = Without(Range(timerLater))
            /\ fdLater' = <<>> /\ sockLater' = <<>> /\ timerLater' = <<>>
            /\ pc' = IF pc = "flush" THEN "poll" ELSE Stopped
  /\ end' = 0
  /\ UNCHANGED <<use, poller, items, dispatching, rebuild, it, timeNow, pos, pollRc, deadline,
                 ready, wanted, calls>>

BeginPoll ==
  /\ pc = "poll"
  /\ pc' = "polling"
  /\ deadline' = Tickless
  /\ UNCHANGED <<use, loopVars, it, timeNow, pos, end, pollRc, ready, wanted, calls>>

(* poller_.poll returns: items are ready, or the time is over. *)
PollReturns ==
  /\ pc = "polling"
  /\ \E rev \in Readiness(poller) :
       /\ poller' = PollerRaise(poller, rev)
       /\ pollRc' = (\E i \in DOMAIN rev : rev[i] # {})
       /\ ready' = RaisedBy(poller, rev)
  /\ pollRc' \/ deadline = 0
  /\ pc' = "polled"
  /\ deadline' = 0
  /\ UNCHANGED <<use, items, timers, laters, dispatching, rebuild, it, timeNow, pos,
                 end, wanted, calls>>

(* A signal: poll returns false and the revents may be those of the poll before. *)
PollInterrupted ==
  /\ pc = "polling"
  /\ pc' = "polled" /\ deadline' = 0
  /\ pollRc' = FALSE /\ ready' = {}
  /\ UNCHANGED <<use, loopVars, it, timeNow, pos, end, wanted, calls>>

(* Another error: poll throws. *)
PollThrows ==
  /\ pc = "polling"
  /\ Escape
  /\ deadline' = 0 /\ ready' = {}
  /\ UNCHANGED <<use, poller, items, timers, laters, dispatching, wanted>>

(* start_handle_timers begins. *)
EnterTimers ==
  /\ pc = "polled"
  /\ pc' = "timers"
  /\ dispatching' = TRUE
  /\ timeNow' = 0
  /\ it' = IF timers = <<>> THEN NoTimer ELSE timers[1].id
  /\ UNCHANGED <<use, poller, items, timers, laters, rebuild, pos, end, pollRc,
                 deadline, ready, wanted, calls>>

(* Mutant: the timers are not compared with the time. *)
DueAnyTime == it # NoTimer

DueNow == it # NoTimer /\ TheTimer(it).when < timeNow

FireTimer ==
  /\ pc = "timers" /\ DueNow
  /\ pc' = "inTimer" /\ calls' = 0
  /\ UNCHANGED <<use, loopVars, it, timeNow, pos, end, pollRc, deadline, ready, wanted>>

(* The handler returns: the timer is erased after its last time, else set  *)
(* one delay further; when the handler said no the list is left unsorted.  *)
TimerReturns(ok) ==
  /\ pc = "inTimer"
  /\ LET t == TheTimer(it)
     IN  IF t.times = 1
           THEN timers' = Without({it})
           ELSE timers' = [timers EXCEPT ![At(it)].times = IF t.times = 0 THEN 0 ELSE t.times - 1,
                                         ![At(it)].when = t.when + t.delay]
  /\ IF ok
       THEN /\ pc' = "timers" /\ it' = After(it) /\ calls' = 0
            /\ UNCHANGED <<dispatching, timeNow, pos, end, rebuild, pollRc>>
       ELSE Leave
  /\ ready' = IF ok THEN ready ELSE {}
  /\ UNCHANGED <<use, poller, items, laters, deadline, wanted>>

(* Mutants: one of the two conditions is dropped. *)
SkipItemsOnTimeout == ~pollRc
SkipItemsOnRebuild == rebuild

(* The items are left for the next round: the poller's content changed, or *)
(* the poll raised nothing.                                                *)
SkipItems == rebuild \/ ~pollRc

(* No timer is due any more: sort, then the ready items, unless the poller *)
(* changed meanwhile.                                                      *)
TimersDone ==
  /\ pc = "timers" /\ ~DueNow
  /\ timers' = SortTimers(timers)
  /\ IF SkipItems
       THEN Loopback /\ ready' = {}
       ELSE /\ pc' = "items" /\ pos' = 1 /\ end' = Len(items)
            /\ it' = NoTimer /\ timeNow' = 0 /\ calls' = 0
            /\ UNCHANGED <<dispatching, rebuild, pollRc, ready>>
  /\ UNCHANGED <<use, poller, items, laters, deadline, wanted>>

(* start_handle_poller: the next item that has input, an error or output. *)
ReadyAt(i) ==
  \/ HasInput(poller, items[i])
  \/ HasError(poller, items[i])
  \/ HasOutput(poller, items[i])

CallItem ==
  /\ pc = "items"
  /\ \E i \in pos..end :
       /\ ReadyAt(i) /\ \A j \in pos..(i - 1) : ~ReadyAt(j)
       /\ pos' = i
       /\ ready' = ready \ {items[i]}
  /\ pc' = "inItem" /\ calls' = 0
  /\ UNCHANGED <<use, loopVars, it, timeNow, end, pollRc, deadline, wanted>>

ItemReturns(ok) ==
  /\ pc = "inItem"
  /\ IF ok
       THEN /\ pc' = "items" /\ pos' = pos + 1 /\ calls' = 0
            /\ UNCHANGED <<dispatching, it, timeNow, end, rebuild, pollRc>>
       ELSE Leave
  /\ ready' = IF ok THEN ready ELSE {}
  /\ UNCHANGED <<use, poller, items, timers, laters, deadline, wanted>>

ItemsDone ==
  /\ pc = "items" /\ \A i \in pos..end : ~ReadyAt(i)
  /\ Loopback
  /\ ready' = {}
  /\ UNCHANGED <<use, poller, items, timers, laters, deadline, wanted>>

(* A handler throws: nothing resets dispatching_. *)
HandlerThrows ==
  /\ "throw" \in use /\ pc \in {"inTimer", "inItem"}
  /\ Escape
  /\ ready' = {}
  /\ UNCHANGED <<use, poller, items, timers, laters, dispatching, deadline, wanted>>

Tick ==
  /\ \A i \in DOMAIN timers : timers[i].when > -MaxLate
  /\ pc # "undefined"
  /\ timers # <<>> \/ deadline > 0
  /\ timers' = [i \in DOMAIN timers |-> [timers[i] EXCEPT !.when = @ - 1]]
  /\ timeNow' = IF it = NoTimer THEN 0 ELSE Most(timeNow - 1, -MaxLate)
  /\ deadline' = Most(deadline - 1, 0)
  /\ UNCHANGED <<use, poller, items, laters, dispatching, rebuild, pc, it, pos, end,
                 pollRc, ready, wanted, calls>>

-------------------------------------------------------------------------------
UserCalls ==
  \/ \E k \in Keys : RemoveItem(k) \/ \E mask \in Masks : AddItem(k, mask)
  \/ \E id \in Timers :
       \/ \E delay \in Delays, times \in Times : AddTimer(id, delay, times)
       \/ ResetTimer(id)
       \/ RemoveTimer(id)

HandlerReturns == \E ok \in BOOLEAN : TimerReturns(ok) \/ ItemReturns(ok)

PollEnds == PollReturns \/ PollInterrupted \/ PollThrows

Proceed ==
  \/ FlushItem \/ FlushTimers \/ BeginPoll
  \/ EnterTimers \/ FireTimer \/ TimersDone
  \/ CallItem \/ ItemsDone

Next == UserCalls \/ Start \/ Proceed \/ PollEnds \/ HandlerReturns \/ HandlerThrows \/ Tick

Spec == Init /\ [][Next]_vars

(* The thread runs, poll() comes back when its time is over, and handlers  *)
(* return.  Nothing makes sockets ready, and nobody has to call start().   *)
TimeIsOver == deadline = 0 /\ PollReturns

FairSpec == Spec /\ WF_vars(Proceed) /\ WF_vars(TimeIsOver) /\ WF_vars(HandlerReturns)

-------------------------------------------------------------------------------
(* Whatever callers do, re-adding keys and throwing included, the events   *)
(* start_handle_poller reads for a key are those of an item of that key.   *)
PollerStaysSound == Sound(poller)

(* Unless handlers throw or a socket's handler adds, no list is appended   *)
(* to or moved while start() walks it: the removals that handlers ask for  *)
(* are put off to the flush, which finds dispatching_ reset on every path  *)
(* to it.                                                                  *)
NothingUndefined == use \cap {"throw", "grow"} = {} => pc # "undefined"

(* No key is added while it is watched or its removal is pending, and no   *)
(* handler throws.                                                         *)
Orderly == use \cap {"readd", "throw"} = {}

(* When the loop waits, it waits for exactly the keys that users added and *)
(* did not remove since, each once and each with one handler: the removals *)
(* put off in both phases have been made.  A key removed and added again   *)
(* before the flush is lost, and a handler that throws undoes it too; even *)
(* then every key with a handler is known to the poller, so that the       *)
(* has_input() of start_handle_poller never throws.                        *)
HonoursCallers ==
  /\ Range(items) \subseteq WatchedIn(poller)
  /\ pc = "polling" /\ Orderly =>
       /\ Range(items) = wanted /\ Len(items) = Cardinality(wanted)
       /\ WatchedIn(poller) = wanted /\ Len(poller.items) = Len(items)

(* start() goes on to the items with no removal pending: a socket that a   *)
(* timer's handler removed is not called in that iteration, though the     *)
(* poll before raised it (tests/test_loop.cpp:49 tries one such order).    *)
DispatchStartsClean ==
  [][pc = "timers" /\ pc' = "items" => Pending = <<>>]_vars

(* The loop as a dispatcher. *)
Promised ==
  INSTANCE Dispatcher
    WITH watched <- wanted, raised <- ready,
         handling <- IF pc = "inItem" THEN items[pos] ELSE "none",
         phase <- CASE pc \in {"polled", "timers", "inTimer"} -> "raised"
                    [] pc = "items" -> "passing"
                    [] pc = "inItem" -> "calling"
                    [] OTHER -> "idle"

(* The loop implements Dispatcher: a handler is called for a key that this *)
(* iteration's poll raised for input, output or an error, never on events  *)
(* that a former poll left behind, all keys so raised are served unless a  *)
(* handler ends the loop, and none when a timer's handler removed one of   *)
(* them (loop.hpp:98 and :105, "Stop monitoring").  A key raised for       *)
(* poll_pri alone (poller.hpp:49) is not: loop.cpp:201 does not ask for it, *)
(* though loop.hpp:66 promises "a handler that will be called when the     *)
(* monitored events occur".                                                *)
ImplementsDispatcher ==
  [][Orderly /\ "grow" \notin use => Promised!DNext \/ UNCHANGED Promised!dvars]_vars

(* loop.hpp:152 "Calculate min time to wait in poller.": the wait is not   *)
(* longer than what any timer has left, unless start() is called again     *)
(* after a timer's handler ended it and left the list unsorted, and never  *)
(* negative, which would be for ever.                                      *)
WakesForEarliest ==
  pc = "polling" =>
    /\ deadline >= 0
    /\ "restart" \notin use => \A i \in DOMAIN timers : deadline <= Most(0, timers[i].when)

(* A timer is never further away than its delay: loop.hpp:84 "Reset timer  *)
(* in the loop, it will start counting delay time again."  Only a timer    *)
(* that its own handler resets has the delay added twice.                  *)
NoFurtherThanDelay ==
  "selfreset" \notin use => \A i \in DOMAIN timers : timers[i].when <= timers[i].delay

(* A timer that is due fires, unless it is reset or removed or the loop    *)
(* ends: neither the other timers nor the ready sockets keep it waiting    *)
(* for ever.                                                               *)
Due(id) == id \in Live /\ TheTimer(id).when < 0
Served(id) ==
  \/ pc = "inTimer" /\ it = id
  \/ ~Due(id)
  \/ pc \in {"idle", "returned"}
DueTimersFire == \A id \in Timers : Due(id) ~> Served(id)
===============================================================================
