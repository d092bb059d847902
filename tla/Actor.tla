--------------------------------- MODULE Actor ---------------------------------
(***************************************************************************)
(* zmqpp::actor (src/src/zmqpp/actor.cpp): one thread owns actor objects,  *)
(* constructs, moves, stops and destroys them; each construction starts a  *)
(* detached thread that runs a routine of the user and talks to the owner  *)
(* over a pipe, a pair of sockets.                                         *)
(*                                                                         *)
(* A pipe stands for its thread too.  A thread keeps `this`, the address   *)
(* of the object that was constructed (home), while the object that holds  *)
(* its pipe may by now be another one.                                     *)
(***************************************************************************)
EXTENDS Integers, Sequences

CONSTANTS
  Objects,   \* storage an actor object can be in
  Pipes,     \* the constructions
  Hwm,       \* how many messages each direction of a pipe takes
  Uses       \* the sets of what happens beyond the plain use:
             \*   "late"      a routine throws after it signalled its start
             \*   "ownko"     a routine sends signal::ko itself
             \*   "mute"      a routine returns true without a start signal
             \*   "assign"    an actor that holds a pipe is assigned to
             \*   "self"      ... also to itself
             \*   "exhausted" the thread cannot be created
             \*   "flood"     the owner fills the pipe
             \*   "signals"   a signal interrupts a thread that waits in send()

ASSUME HwmAssumption == Hwm \in Nat \ {0}

NoPipe == "nullptr"
Gone == "gone"

ASSUME SentinelsAssumption == NoPipe \notin Pipes /\ Gone \notin Objects

VARIABLES
  use,        \* which of Uses it is
  alive,      \* the objects inside their lifetime
  held,       \* parent_pipe_ of each
  stopped,    \* stopped_
  retval,     \* retval_
  eptr,       \* whether eptr_ is set
  lock,       \* who holds mutex_: a pipe's thread, or NoPipe for nobody
  pc,         \* where start_routine is, for each pipe
  home,       \* its `this`, Gone when that object's life is over
  said,       \* the start signal its routine sent
  heard,      \* whether its routine received signal::stop
  outcome,    \* how its routine ended
  up, down,   \* what is under way to the owner and to the thread
  parentEnd,  \* the owner's socket: none, open, closed, or its closing reached the thread
  busy,       \* what the owner's thread waits in
  who, dying, \* for which object, and whether stop() was called by the destructor
  told        \* what the owner was told of each pipe's routine

objVars == <<alive, held, stopped, retval, eptr>>
threadVars == <<pc, home, said, heard, outcome>>
ownerVars == <<busy, who, dying>>
vars == <<use, objVars, lock, threadVars, up, down, parentEnd, ownerVars, told>>

Init ==
  /\ use \in Uses
  /\ alive = {}
  /\ held = [o \in Objects |-> NoPipe]
  /\ stopped = [o \in Objects |-> FALSE] /\ retval = [o \in Objects |-> FALSE]
  /\ eptr = [o \in Objects |-> FALSE] /\ lock = [o \in Objects |-> NoPipe]
  /\ pc = [p \in Pipes |-> "none"] /\ home = [p \in Pipes |-> Gone]
  /\ said = [p \in Pipes |-> "nothing"] /\ heard = [p \in Pipes |-> FALSE]
  /\ outcome = [p \in Pipes |-> "none"]
  /\ up = [p \in Pipes |-> <<>>] /\ down = [p \in Pipes |-> <<>>]
  /\ parentEnd = [p \in Pipes |-> "none"]
  /\ busy = "free" /\ who \in Objects /\ dying = FALSE
  /\ told = [p \in Pipes |-> "nothing"]

-------------------------------------------------------------------------------
(* The thread of a pipe. *)

(* A blocking send up: it waits while the pipe is full or has no peer, and *)
(* is lost when the owner closed its end and this thread does not know yet. *)
SendUp(p, m) ==
  \/ parentEnd[p] = "open" /\ Len(up[p]) < Hwm /\ up' = [up EXCEPT ![p] = Append(@, m)]
  \/ parentEnd[p] = "closed" /\ UNCHANGED up

WouldWait(p) == parentEnd[p] = "gone" \/ (parentEnd[p] = "open" /\ Len(up[p]) = Hwm)

Go(p, where) == pc' = [pc EXCEPT ![p] = where]

(* The routine, which is the user's. *)
RoutineSignals(p, sig) ==
  /\ pc[p] = "routine" /\ said[p] = "nothing"
  /\ sig = "ko" => "ownko" \in use
  /\ SendUp(p, sig)
  /\ said' = [said EXCEPT ![p] = sig]
  /\ UNCHANGED <<use, objVars, lock, pc, home, heard, outcome, down, parentEnd, ownerVars, told>>

RoutineTalks(p) ==
  /\ pc[p] = "routine"
  /\ SendUp(p, "msg")
  /\ UNCHANGED <<use, objVars, lock, threadVars, down, parentEnd, ownerVars, told>>

RoutineReads(p) ==
  /\ pc[p] = "routine" /\ down[p] # <<>>
  /\ heard' = [heard EXCEPT ![p] = @ \/ Head(down[p]) = "stop"]
  /\ down' = [down EXCEPT ![p] = Tail(@)]
  /\ UNCHANGED <<use, objVars, lock, pc, home, said, outcome, up, parentEnd, ownerVars, told>>

RoutineReturns(p, how) ==
  /\ pc[p] = "routine"
  /\ how = "true" => said[p] = "ok" \/ (said[p] = "nothing" /\ "mute" \in use)
  /\ outcome' = [outcome EXCEPT ![p] = how]
  /\ Go(p, "answering")
  /\ UNCHANGED <<use, objVars, lock, home, said, heard, up, down, parentEnd, ownerVars, told>>

RoutineThrows(p) ==
  /\ pc[p] = "routine"
  /\ said[p] # "nothing" => "late" \in use
  /\ outcome' = [outcome EXCEPT ![p] = "thrown"]
  /\ Go(p, "caught")
  /\ UNCHANGED <<use, objVars, lock, home, said, heard, up, down, parentEnd, ownerVars, told>>

(* start_routine: the signal for what the routine returned. *)
Answer(p) ==
  /\ pc[p] = "answering"
  /\ SendUp(p, IF outcome[p] = "true" THEN "ok" ELSE "ko")
  /\ Go(p, "closing")
  /\ UNCHANGED <<use, objVars, lock, home, said, heard, outcome, down, parentEnd, ownerVars, told>>

(* Mutant: the exception is not kept. *)
CatchOnly(p) ==
  /\ pc[p] = "caught"
  /\ home[p] # Gone /\ lock[home[p]] = NoPipe
  /\ lock' = [lock EXCEPT ![home[p]] = p]
  /\ Go(p, "locked")
  /\ UNCHANGED <<use, objVars, home, said, heard, outcome, up, down, parentEnd, ownerVars, told>>

(* The handler of std::exception locks the object's mutex_ and sets eptr_. *)
Catch(p) ==
  /\ pc[p] = "caught"
  /\ IF home[p] = Gone
       THEN Go(p, "wild") /\ UNCHANGED <<lock, eptr>>
       ELSE /\ lock[home[p]] = NoPipe
            /\ lock' = [lock EXCEPT ![home[p]] = p]
            /\ eptr' = [eptr EXCEPT ![home[p]] = TRUE]
            /\ Go(p, "locked")
  /\ UNCHANGED <<use, alive, held, stopped, retval, home, said, heard, outcome, up, down, parentEnd,
                 ownerVars, told>>

AnswerKo(p) ==
  /\ pc[p] = "locked"
  /\ SendUp(p, "ko")
  /\ Go(p, "unlocking")
  /\ UNCHANGED <<use, objVars, lock, home, said, heard, outcome, down, parentEnd, ownerVars, told>>

(* Mutant: after the handler the answer is sent as if the routine had returned. *)
UnlockAndAnswer(p) ==
  /\ pc[p] = "unlocking"
  /\ home[p] # Gone
  /\ Go(p, "answering")
  /\ lock' = [lock EXCEPT ![home[p]] = NoPipe]
  /\ UNCHANGED <<use, objVars, home, said, heard, outcome, up, down, parentEnd, ownerVars, told>>

(* The lock_guard goes out of scope. *)
Unlock(p) ==
  /\ pc[p] = "unlocking"
  /\ IF home[p] = Gone
       THEN Go(p, "wild") /\ UNCHANGED lock
       ELSE Go(p, "closing") /\ lock' = [lock EXCEPT ![home[p]] = NoPipe]
  /\ UNCHANGED <<use, objVars, home, said, heard, outcome, up, down, parentEnd, ownerVars, told>>

(* delete child_pipe: what it did not receive is dropped. *)
Close(p) ==
  /\ pc[p] = "closing"
  /\ Go(p, "ended")
  /\ down' = [down EXCEPT ![p] = <<>>]
  /\ UNCHANGED <<use, objVars, lock, home, said, heard, outcome, up, parentEnd, ownerVars, told>>

(* A signal handler ran: send() returns false, which nobody looks at. *)
Interrupted(p) ==
  /\ "signals" \in use /\ WouldWait(p)
  /\ \/ pc[p] = "answering" /\ Go(p, "closing")
     \/ pc[p] = "locked" /\ Go(p, "unlocking")
  /\ UNCHANGED <<use, objVars, lock, home, said, heard, outcome, up, down, parentEnd, ownerVars, told>>

(* The closing of the owner's end reaches the thread's socket. *)
Reap(p) ==
  /\ parentEnd[p] = "closed"
  /\ parentEnd' = [parentEnd EXCEPT ![p] = "gone"]
  /\ UNCHANGED <<use, objVars, lock, threadVars, up, down, ownerVars, told>>

-------------------------------------------------------------------------------
(* The owner's thread. *)

(* The lifetime of o is over. *)
Dies(o) ==
  /\ alive' = alive \ {o}
  /\ home' = [p \in Pipes |-> IF home[p] = o THEN Gone ELSE home[p]]
  /\ lock' = [lock EXCEPT ![o] = NoPipe]

WaitIn(call, o, d) == busy' = call /\ who' = o /\ dying' = d

Tells(p, news) == told' = [told EXCEPT ![p] = news]

(* actor(routine), up to the wait for the thread's signal. *)
Construct(o, p) ==
  /\ busy = "free" /\ o \notin alive
  /\ parentEnd[p] = "none"
  /\ parentEnd' = [parentEnd EXCEPT ![p] = "open"]
  /\ \/ /\ alive' = alive \cup {o}
        /\ held' = [held EXCEPT ![o] = p]
        /\ stopped' = [stopped EXCEPT ![o] = FALSE]
        /\ eptr' = [eptr EXCEPT ![o] = FALSE]
        /\ home' = [home EXCEPT ![p] = o]
        /\ Go(p, "routine")
        /\ WaitIn("constructor", o, FALSE)
     \/ "exhausted" \in use /\ UNCHANGED <<alive, held, stopped, eptr, home, pc, ownerVars>>
  /\ UNCHANGED <<use, retval, lock, said, heard, outcome, up, down, told>>

(* wait(), for the constructor or for stop(), has m at the pipe's head, *)
Sees(call, m) == busy = call /\ up[held[who]] # <<>> /\ Head(up[held[who]]) = m

(* ... takes it *)
Takes(call, m) == Sees(call, m) /\ up' = [up EXCEPT ![held[who]] = Tail(@)]

(* ... and discards it unless it is a signal. *)
Discards ==
  /\ \E call \in {"constructor", "stop"} : Takes(call, "msg")
  /\ UNCHANGED <<use, objVars, lock, threadVars, down, parentEnd, ownerVars, told>>

Constructed ==
  /\ Takes("constructor", "ok")
  /\ busy' = "free"
  /\ Tells(held[who], "constructed")
  /\ UNCHANGED <<use, objVars, lock, threadVars, down, parentEnd, who, dying>>

(* delete parent_pipe_: what it did not receive is dropped. *)
CloseParentEnd(p) ==
  /\ parentEnd' = [parentEnd EXCEPT ![p] = "closed"]
  /\ up' = [up EXCEPT ![p] = <<>>]

(* signal::ko: the pipe is deleted, then the mutex locked. *)
Refused ==
  /\ Sees("constructor", "ko")
  /\ CloseParentEnd(held[who])
  /\ busy' = "refusing"
  /\ UNCHANGED <<use, objVars, lock, threadVars, down, who, dying, told>>

(* Mutant: the mutex is not locked. *)
RefusesUnlocked == busy = "refusing"

Refuses == busy = "refusing" /\ lock[who] = NoPipe

ConstructorThrows ==
  /\ Refuses
  /\ Tells(held[who], IF eptr[who] THEN "nested" ELSE "refused")
  /\ Dies(who)
  /\ busy' = "free"
  /\ UNCHANGED <<use, held, stopped, retval, eptr, pc, said, heard, outcome, up, down, parentEnd,
                 who, dying>>

(* Mutants of Gives: the source keeps its pipe; the answer, or the fact     *)
(* that there is one, stays behind.                                        *)
GivesCopy(o, q) ==
  /\ held' = [held EXCEPT ![q] = held[o]]
  /\ stopped' = [stopped EXCEPT ![q] = stopped[o]]
  /\ retval' = [retval EXCEPT ![q] = retval[o]]

GivesNoRetval(o, q) ==
  /\ held' = [held EXCEPT ![q] = held[o], ![o] = NoPipe]
  /\ stopped' = [stopped EXCEPT ![q] = stopped[o]]
  /\ UNCHANGED retval

GivesUnstopped(o, q) ==
  /\ held' = [held EXCEPT ![q] = held[o], ![o] = NoPipe]
  /\ stopped' = [stopped EXCEPT ![q] = FALSE]
  /\ retval' = [retval EXCEPT ![q] = retval[o]]

(* operator=(actor&&): q takes what o has. *)
Gives(o, q) ==
  /\ held' = [held EXCEPT ![q] = held[o], ![o] = NoPipe]
  /\ stopped' = [stopped EXCEPT ![q] = stopped[o]]
  /\ retval' = [retval EXCEPT ![q] = retval[o]]

MoveConstruct(o, q) ==
  /\ busy = "free" /\ o \in alive /\ q \notin alive
  /\ alive' = alive \cup {q}
  /\ eptr' = [eptr EXCEPT ![q] = FALSE]
  /\ Gives(o, q)
  /\ UNCHANGED <<use, lock, threadVars, up, down, parentEnd, ownerVars, told>>

MoveAssign(o, q) ==
  /\ busy = "free" /\ o \in alive /\ q \in alive
  /\ held[q] # NoPipe => (IF o = q THEN "self" ELSE "assign") \in use
  /\ Gives(o, q)
  /\ UNCHANGED <<use, alive, eptr, lock, threadVars, up, down, parentEnd, ownerVars, told>>

(* parent_pipe_->send(signal::stop, true): dropped when the thread's end is *)
(* closed or the pipe is full.                                             *)
SendStop(p) ==
  down' = IF pc[p] # "ended" /\ Len(down[p]) < Hwm
            THEN [down EXCEPT ![p] = Append(@, "stop")] ELSE down

(* stop(block). *)
Stop(o, block) ==
  /\ busy = "free" /\ o \in alive /\ held[o] # NoPipe
  /\ SendStop(held[o])
  /\ IF block /\ ~stopped[o] THEN WaitIn("stop", o, FALSE) ELSE UNCHANGED ownerVars
  /\ UNCHANGED <<use, objVars, lock, threadVars, up, parentEnd, told>>

(* ~actor, when stop(true) does not wait. *)
DestroyAtOnce(o) ==
  /\ busy = "free" /\ o \in alive
  /\ \/ held[o] = NoPipe /\ UNCHANGED <<up, down, parentEnd>>
     \/ /\ held[o] # NoPipe /\ stopped[o]
        /\ SendStop(held[o])
        /\ CloseParentEnd(held[o])
  /\ Dies(o)
  /\ UNCHANGED <<use, held, stopped, retval, eptr, pc, said, heard, outcome, ownerVars, told>>

Destroy(o) ==
  /\ busy = "free" /\ o \in alive /\ held[o] # NoPipe /\ ~stopped[o]
  /\ SendStop(held[o])
  /\ WaitIn("stop", o, TRUE)
  /\ UNCHANGED <<use, objVars, lock, threadVars, up, parentEnd, told>>

(* The signal stop(true) waited for. *)
StopAnswered ==
  /\ \E m \in {"ok", "ko"} :
       /\ Sees("stop", m)
       /\ retval' = [retval EXCEPT ![who] = (m = "ok")]
       /\ Tells(held[who], IF m = "ok" THEN "true" ELSE "false")
  /\ stopped' = [stopped EXCEPT ![who] = TRUE]
  /\ busy' = "free"
  /\ IF dying
       THEN Dies(who) /\ CloseParentEnd(held[who])
       ELSE /\ up' = [up EXCEPT ![held[who]] = Tail(@)]
            /\ UNCHANGED <<alive, home, lock, parentEnd>>
  /\ UNCHANGED <<use, held, eptr, pc, said, heard, outcome, down, who, dying>>

(* What the owner does with pipe(): it sends, and receives what is no signal. *)
OwnerTalks(o) ==
  LET p == held[o]
  IN  /\ busy = "free" /\ o \in alive /\ p # NoPipe
      /\ Len(down[p]) < IF "flood" \in use THEN Hwm ELSE Hwm - 1
      /\ down' = [down EXCEPT ![p] = Append(@, "msg")]
      /\ UNCHANGED <<use, objVars, lock, threadVars, up, parentEnd, ownerVars, told>>

OwnerReads(o) ==
  LET p == held[o]
  IN  /\ busy = "free" /\ o \in alive /\ p # NoPipe
      /\ up[p] # <<>> /\ Head(up[p]) = "msg"
      /\ up' = [up EXCEPT ![p] = Tail(@)]
      /\ UNCHANGED <<use, objVars, lock, threadVars, down, parentEnd, ownerVars, told>>

-------------------------------------------------------------------------------
Waits == Discards \/ Constructed \/ Refused \/ ConstructorThrows \/ StopAnswered

Owner ==
  \/ Waits
  \/ \E o \in Objects :
       \/ \E p \in Pipes : Construct(o, p)
       \/ \E q \in Objects : MoveConstruct(o, q) \/ MoveAssign(o, q)
       \/ \E block \in BOOLEAN : Stop(o, block)
       \/ DestroyAtOnce(o) \/ Destroy(o)
       \/ OwnerTalks(o) \/ OwnerReads(o)

Ends(p) == RoutineThrows(p) \/ \E how \in {"true", "false"} : RoutineReturns(p, how)

Routine(p) ==
  \/ \E sig \in {"ok", "ko"} : RoutineSignals(p, sig)
  \/ RoutineTalks(p) \/ RoutineReads(p) \/ Ends(p)

AfterRoutine(p) == Answer(p) \/ Catch(p) \/ AnswerKo(p) \/ Unlock(p) \/ Close(p)

Next == Owner \/ \E p \in Pipes : Routine(p) \/ AfterRoutine(p) \/ Interrupted(p) \/ Reap(p)

Spec == Init /\ [][Next]_vars

(* The threads run; the routine signals its start or ends, reads what it   *)
(* is sent and ends when it was told to stop.  The owner need not do       *)
(* anything except what it is waiting for.                                 *)
FairSpec ==
  /\ Spec /\ WF_vars(Waits)
  /\ \A p \in Pipes :
       /\ WF_vars(AfterRoutine(p)) /\ WF_vars(RoutineReads(p))
       /\ WF_vars(said[p] = "nothing" /\ (RoutineSignals(p, "ok") \/ Ends(p)))
       /\ WF_vars(heard[p] /\ Ends(p))

-------------------------------------------------------------------------------
(* A thread never uses the actor object after its life: start_routine sets *)
(* eptr_ under mutex_, and the constructor locks it before it gives the    *)
(* object up (actor.cpp:54 and :129-132; actor.hpp:122-126 names the race). *)
(* Only a routine that throws after its start signal does.                 *)
NoThreadGoesWild ==
  "late" \notin use => \A p \in Pipes : pc[p] # "wild"

(* Whatever owners and routines do, an actor's pipe is open and no other   *)
(* actor's: no pipe is used after it was freed, none is freed twice.  And  *)
(* an open pipe has an actor that will close it: no move and no failed     *)
(* construction loses one (actor.hpp:33-34 and :141-142), but assigning to *)
(* an actor that has one or running out of threads does.                   *)
Holds(o) == o \in alive /\ held[o] # NoPipe /\ ~(busy = "refusing" /\ who = o)
PipesAreOwned ==
  /\ \A o \in Objects : Holds(o) =>
       /\ parentEnd[held[o]] = "open"
       /\ \A q \in alive : held[q] = held[o] => q = o
  /\ use \cap {"assign", "self", "exhausted"} = {} =>
       \A p \in Pipes : parentEnd[p] = "open" => \E o \in alive : held[o] = p

(* What a later stop(true) answers without waiting is how the routine      *)
(* ended, in whatever object the pipe is by then (tests/test_actor.cpp:73-78).   *)
StopRemembers ==
  \A o \in alive :
    held[o] # NoPipe /\ stopped[o] =>
      outcome[held[o]] # "none" /\ retval[o] = (outcome[held[o]] = "true")

(* The routine and what the owner was told, for ActorPromise. *)
Promise ==
  INSTANCE ActorPromise
    WITH run <- [p \in Pipes |-> IF pc[p] = "none" THEN "none"
                                 ELSE IF outcome[p] = "none" THEN "running" ELSE outcome[p]],
         started <- {p \in Pipes : said[p] = "ok"}

(* The constructor, stop() and the destructor tell the owner what became   *)
(* of the routine, as ActorPromise has it, if the routine signals its      *)
(* start once and neither signals nor throws otherwise (actor.hpp:33-50).  *)
KeepsPromise ==
  [][use \cap {"late", "ownko", "mute", "signals"} = {} =>
       Promise!PNext \/ UNCHANGED Promise!pvars]_vars

(* The constructor, stop(true) and the destructor come back, whatever was  *)
(* sent before and however often stop() was called, when the routine ends  *)
(* after it read signal::stop (actor.hpp:43-50 and :103-105).              *)
WaitsEnd == busy # "free" ~> busy = "free"

(* Once the owner was told of its end, a thread ends and frees its socket  *)
(* (actor.hpp:34-36 and :147-149).                                         *)
ThreadsEnd ==
  \A p \in Pipes : told[p] \notin {"nothing", "constructed"} ~> pc[p] = "ended"
===============================================================================
