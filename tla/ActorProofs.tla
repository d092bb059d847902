------------------------------ MODULE ActorProofs ------------------------------
(***************************************************************************)
(* Theorems about zmqpp::actor for every number of objects and pipes and   *)
(* every high water mark.                                                  *)
(***************************************************************************)
EXTENDS Actor, SequenceTheorems, TLAPS

Places == {"none", "routine", "answering", "caught", "locked", "unlocking", "closing", "ended", "wild"}
Endings == {"true", "false", "thrown"}
Replies == {"msg", "ok", "ko"}
Calls == {"free", "constructor", "stop", "refusing"}
News == {"nothing", "constructed", "refused", "nested", "true", "false"}

Typed ==
  /\ alive \subseteq Objects
  /\ held \in [Objects -> Pipes \cup {NoPipe}] /\ lock \in [Objects -> Pipes \cup {NoPipe}]
  /\ stopped \in [Objects -> BOOLEAN] /\ retval \in [Objects -> BOOLEAN]
  /\ eptr \in [Objects -> BOOLEAN]
  /\ pc \in [Pipes -> Places] /\ home \in [Pipes -> Objects \cup {Gone}]
  /\ said \in [Pipes -> {"nothing", "ok", "ko"}] /\ outcome \in [Pipes -> Endings \cup {"none"}]
  /\ up \in [Pipes -> Seq(Replies)]
  /\ parentEnd \in [Pipes -> {"none", "open", "closed", "gone"}]
  /\ busy \in Calls /\ who \in Objects /\ dying \in BOOLEAN
  /\ told \in [Pipes -> News]
  /\ busy # "free" => who \in alive /\ held[who] # NoPipe

Starting(o) == busy \in {"constructor", "refusing"} /\ who = o

(* A live object's pipe is its own, and open unless the constructor that   *)
(* failed has closed it.                                                   *)
Owning ==
  /\ \A o \in alive : held[o] # NoPipe =>
       parentEnd[held[o]] \in IF busy = "refusing" /\ who = o THEN {"closed", "gone"} ELSE {"open"}
  /\ \A o, q \in alive : held[o] = held[q] /\ held[o] # NoPipe => o = q

Kept ==
  use \cap {"assign", "self", "exhausted"} = {} =>
    \A p \in Pipes : parentEnd[p] = "open" => \E o \in alive : held[o] = p

(* What a pipe without a thread is like, and what pc says of the routine.  *)
Threads ==
  /\ \A p \in Pipes : parentEnd[p] = "none" => pc[p] = "none"
  /\ \A p \in Pipes : pc[p] = "none" =>
       /\ home[p] = Gone /\ said[p] = "nothing" /\ up[p] = <<>> /\ told[p] = "nothing"
       /\ \A o \in alive : held[o] # p
  /\ \A p \in Pipes : outcome[p] = "none" <=> pc[p] \in {"none", "routine"}
  /\ \A p \in Pipes : pc[p] \in {"caught", "locked", "unlocking"} => outcome[p] = "thrown"
  /\ \A p \in Pipes : pc[p] = "answering" => outcome[p] # "thrown"

(* `this` of a thread is a live object, of no other thread. *)
Homes ==
  /\ \A p \in Pipes : home[p] # Gone => home[p] \in alive
  /\ \A p, q \in Pipes : home[p] = home[q] /\ home[p] # Gone => p = q
  /\ \A o \in alive : Starting(o) => home[held[o]] = o

(* A signal under way to the owner is the answer of start_routine, or the  *)
(* start signal, which comes first and only until the constructor took it. *)
IsAnswer(p, m) ==
  /\ pc[p] \in {"unlocking", "closing", "ended", "wild"}
  /\ m = IF outcome[p] = "true" THEN "ok" ELSE "ko"

IsFirst(p, i) == \A j \in 1..i - 1 : up[p][j] = "msg"

Explained(p, i) ==
  \/ up[p][i] = "msg" \/ IsAnswer(p, up[p][i])
  \/ told[p] = "nothing" /\ said[p] = up[p][i] /\ IsFirst(p, i)

Silent(p) == pc[p] = "routine" /\ said[p] = "nothing"

SignalsOf(p) ==
  /\ Silent(p) => told[p] = "nothing" /\ \A i \in 1..Len(up[p]) : up[p][i] = "msg"
  /\ \A i \in 1..Len(up[p]) : Explained(p, i)
  /\ parentEnd[p] \in {"closed", "gone"} => up[p] = <<>>

Signals ==
  /\ \A p \in Pipes : SignalsOf(p)
  /\ busy = "refusing" => ~Silent(held[who])

(* What the owner was told of the pipe of a live object. *)
ToldOf(o) ==
  held[o] # NoPipe =>
    IF Starting(o) THEN told[held[o]] = "nothing" /\ ~stopped[o]
    ELSE IF stopped[o]
           THEN /\ told[held[o]] \in {"true", "false"} /\ outcome[held[o]] # "none"
                /\ retval[o] = (outcome[held[o]] = "true")
           ELSE told[held[o]] = "constructed"

Told ==
  /\ \A o \in alive : ToldOf(o)
  /\ busy = "stop" => ~stopped[who]

(* While a routine has not signalled, the constructor of its object waits. *)
AwaitedOf(p) ==
  /\ pc[p] # "wild"
  /\ pc[p] \in {"caught", "locked", "unlocking"} => said[p] = "nothing"
  /\ pc[p] \in {"routine", "caught", "locked", "unlocking"} /\ said[p] = "nothing" =>
       /\ busy \in {"constructor", "refusing"} /\ held[who] = p /\ home[p] = who
       /\ pc[p] # "unlocking" => busy = "constructor"
  /\ pc[p] \in {"locked", "unlocking"} => lock[home[p]] = p

Awaited == "late" \notin use => \A p \in Pipes : AwaitedOf(p)

PlainUse == use \cap {"late", "ownko", "mute", "signals"} = {}

(* In the plain use the first signal is the start, or the answer of a      *)
(* routine that failed before; eptr_ is set when it threw.                 *)
FirstIsOk(p) == \E i \in 1..Len(up[p]) : up[p][i] = "ok" /\ IsFirst(p, i)

PlainOf(p) ==
  /\ said[p] # "ko"
  /\ outcome[p] = "true" => said[p] = "ok"
  /\ outcome[p] = "thrown" => said[p] = "nothing"
  /\ told[p] \in {"constructed", "true", "false"} => said[p] = "ok"
  /\ told[p] = "nothing" /\ said[p] = "ok" => FirstIsOk(p)

PlainWait ==
  /\ busy \in {"constructor", "refusing"} =>
       (eptr[who] <=> outcome[held[who]] = "thrown" /\ pc[held[who]] # "caught")
  /\ busy = "refusing" =>
       /\ said[held[who]] = "nothing" /\ outcome[held[who]] \in {"false", "thrown"}
       /\ pc[held[who]] # "caught"

PlainStart == PlainUse => PlainWait /\ \A p \in Pipes : PlainOf(p)

-------------------------------------------------------------------------------
(* The types. *)

(* Before the first actor every variable has its type.                     *)
LEMMA TypedInit == Init => Typed
<1> SUFFICES ASSUME Init PROVE Typed
  OBVIOUS
<1> USE DEF Init, Typed, Places, Calls, News, Endings
<1>1. up \in [Pipes -> Seq(Replies)]
  <2>1. <<>> \in Seq(Replies)
    OBVIOUS
  <2> QED
    BY <2>1
<1> QED
  BY <1>1

(* What a send up leaves under way. *)
LEMMA SendUpTyped ==
  ASSUME up \in [Pipes -> Seq(Replies)], NEW p \in Pipes, NEW m \in Replies, SendUp(p, m)
  PROVE  up' \in [Pipes -> Seq(Replies)]
BY DEF SendUp

(* What is left of the signals after one is read is signals.               *)
LEMMA TailTyped ==
  ASSUME up \in [Pipes -> Seq(Replies)], NEW p \in Pipes, up[p] # <<>>
  PROVE  /\ Head(up[p]) = up[p][1] /\ Head(up[p]) \in Replies
         /\ [up EXCEPT ![p] = Tail(@)] \in [Pipes -> Seq(Replies)]
         /\ Len(up[p]) \in Nat \ {0} /\ Len(Tail(up[p])) = Len(up[p]) - 1
         /\ \A i \in 1..Len(Tail(up[p])) : Tail(up[p])[i] = up[p][i + 1]
<1>1. up[p] \in Seq(Replies)
  OBVIOUS
<1>2. Tail(up[p]) \in Seq(Replies)
  BY <1>1
<1> QED
  BY <1>1, <1>2

(* A closed parent end leaves the pipes' types alone.                      *)
LEMMA ClosedTyped ==
  ASSUME up \in [Pipes -> Seq(Replies)], NEW p, CloseParentEnd(p)
  PROVE  up' \in [Pipes -> Seq(Replies)]
<1>1. <<>> \in Seq(Replies)
  OBVIOUS
<1> QED
  BY <1>1 DEF CloseParentEnd

(* What wait() looks at is the pipe of a live object. *)
LEMMA SeesTyped ==
  ASSUME Typed, NEW call \in {"constructor", "stop"}, NEW m, Sees(call, m)
  PROVE  /\ who \in alive /\ held[who] \in Pipes /\ up[held[who]] # <<>> /\ busy = call
         /\ Head(up[held[who]]) = m
BY DEF Typed, Sees, Calls

(* Every step keeps the types.                                             *)
LEMMA TypedNext == Typed /\ [Next]_vars => Typed'
<1> SUFFICES ASSUME Typed, [Next]_vars PROVE Typed'
  OBVIOUS
<1> USE DEF Typed, objVars, threadVars, ownerVars, Places, Calls, News, Endings, Replies, Go
<1>1. ASSUME NEW p \in Pipes, Routine(p)  PROVE Typed'
  <2>1. ASSUME NEW sig \in {"ok", "ko"}, RoutineSignals(p, sig)  PROVE Typed'
    BY <2>1, SendUpTyped DEF RoutineSignals
  <2>2. CASE RoutineTalks(p)
    BY <2>2, SendUpTyped DEF RoutineTalks
  <2>3. CASE RoutineReads(p)
    BY <2>3 DEF RoutineReads
  <2>4. CASE Ends(p)
    <3>1. CASE RoutineThrows(p)
      BY <3>1 DEF RoutineThrows
    <3>2. ASSUME NEW how \in {"true", "false"}, RoutineReturns(p, how)  PROVE Typed'
      BY <3>2 DEF RoutineReturns
    <3> QED
      BY <2>4, <3>1, <3>2 DEF Ends
  <2> QED
    BY <1>1, <2>1, <2>2, <2>3, <2>4 DEF Routine
<1>2. ASSUME NEW p \in Pipes, AfterRoutine(p)  PROVE Typed'
  <2>1. CASE Answer(p)
    BY <2>1, SendUpTyped DEF Answer
  <2>2. CASE Catch(p)
    BY <2>2 DEF Catch
  <2>3. CASE AnswerKo(p)
    BY <2>3, SendUpTyped DEF AnswerKo
  <2>4. CASE Unlock(p)
    BY <2>4 DEF Unlock
  <2>5. CASE Close(p)
    BY <2>5 DEF Close
  <2> QED
    BY <1>2, <2>1, <2>2, <2>3, <2>4, <2>5 DEF AfterRoutine
<1>3. ASSUME NEW p \in Pipes, Interrupted(p) \/ Reap(p)  PROVE Typed'
  BY <1>3 DEF Interrupted, Reap
<1>4. ASSUME Waits  PROVE Typed'
  <2>1. CASE Discards
    <3>1. PICK call \in {"constructor", "stop"} : Takes(call, "msg")
      BY <2>1 DEF Discards
    <3>2. Sees(call, "msg") /\ up' = [up EXCEPT ![held[who]] = Tail(@)]
      BY <3>1 DEF Takes
    <3>3. up' \in [Pipes -> Seq(Replies)]
      BY <3>2, SeesTyped, TailTyped
    <3> QED
      BY <2>1, <3>3 DEF Discards
  <2>2. CASE Constructed
    <3>1. Sees("constructor", "ok") /\ up' = [up EXCEPT ![held[who]] = Tail(@)]
      BY <2>2 DEF Constructed, Takes
    <3>2. up' \in [Pipes -> Seq(Replies)]
      BY <3>1, SeesTyped, TailTyped
    <3> QED
      BY <2>2, <3>1, <3>2, SeesTyped DEF Constructed, Tells
  <2>3. CASE Refused
    <3>1. up' \in [Pipes -> Seq(Replies)]
      BY <2>3, ClosedTyped DEF Refused, Sees
    <3> QED
      BY <2>3, <3>1 DEF Refused, CloseParentEnd, Sees
  <2>4. CASE ConstructorThrows
    BY <2>4 DEF ConstructorThrows, Dies, Tells
  <2>5. CASE StopAnswered
    <3>1. PICK m \in {"ok", "ko"} :
            /\ Sees("stop", m) /\ retval' = [retval EXCEPT ![who] = (m = "ok")]
            /\ Tells(held[who], IF m = "ok" THEN "true" ELSE "false")
      BY <2>5 DEF StopAnswered
    <3>2. retval' \in [Objects -> BOOLEAN] /\ told' \in [Pipes -> News]
      BY <3>1, SeesTyped DEF Tells
    <3>3. CASE dying
      <4>1. Dies(who) /\ CloseParentEnd(held[who]) /\ busy' = "free" /\ stopped' = [stopped EXCEPT ![who] = TRUE]
        BY <2>5, <3>3 DEF StopAnswered
      <4>2. up' \in [Pipes -> Seq(Replies)]
        BY <4>1, ClosedTyped
      <4> QED
        BY <2>5, <3>2, <4>1, <4>2 DEF StopAnswered, Dies, CloseParentEnd
    <3>4. CASE ~dying
      <4>1. up' \in [Pipes -> Seq(Replies)]
        <5>1. up' = [up EXCEPT ![held[who]] = Tail(@)]
          BY <2>5, <3>4 DEF StopAnswered
        <5> QED
          BY <3>1, <5>1, SeesTyped, TailTyped
      <4> QED
        BY <2>5, <3>2, <3>4, <4>1 DEF StopAnswered
    <3> QED
      BY <3>3, <3>4
  <2> QED
    BY <1>4, <2>1, <2>2, <2>3, <2>4, <2>5 DEF Waits
<1>5. ASSUME NEW o \in Objects, NEW p \in Pipes, Construct(o, p)  PROVE Typed'
  <2>1. CASE alive' = alive \cup {o} /\ held' = [held EXCEPT ![o] = p] /\ WaitIn("constructor", o, FALSE)
    <3>1. p # NoPipe /\ busy' = "constructor" /\ who' = o /\ dying' = FALSE
      BY <2>1, SentinelsAssumption DEF WaitIn
    <3> QED
      BY <1>5, <2>1, <3>1 DEF Construct
  <2>2. CASE UNCHANGED <<alive, held, stopped, eptr, home, pc, ownerVars>>
    BY <1>5, <2>2 DEF Construct
  <2> QED
    BY <1>5, <2>1, <2>2 DEF Construct
<1>6. ASSUME NEW o \in Objects, NEW q \in Objects, MoveConstruct(o, q) \/ MoveAssign(o, q)
      PROVE  Typed'
  <2>1. busy = "free" /\ busy' = busy /\ Gives(o, q) /\ alive' \subseteq Objects
    BY <1>6 DEF MoveConstruct, MoveAssign
  <2>2. held' \in [Objects -> Pipes \cup {NoPipe}] /\ stopped' \in [Objects -> BOOLEAN]
    BY <2>1 DEF Gives
  <2>3. retval' \in [Objects -> BOOLEAN]
    BY <2>1 DEF Gives
  <2>4. eptr' \in [Objects -> BOOLEAN]
    BY <1>6 DEF MoveConstruct, MoveAssign
  <2> QED
    BY <1>6, <2>1, <2>2, <2>3, <2>4 DEF MoveConstruct, MoveAssign
<1>7. ASSUME NEW o \in Objects, Destroy(o) \/ \E block \in BOOLEAN : Stop(o, block)  PROVE Typed'
  BY <1>7 DEF Destroy, Stop, WaitIn
<1>8. ASSUME NEW o \in Objects, DestroyAtOnce(o)  PROVE Typed'
  <2>1. up' \in [Pipes -> Seq(Replies)]
    BY <1>8, ClosedTyped DEF DestroyAtOnce
  <2> QED
    BY <1>8, <2>1 DEF DestroyAtOnce, Dies, CloseParentEnd
<1>9. ASSUME NEW o \in Objects, OwnerTalks(o) \/ OwnerReads(o)  PROVE Typed'
  <2>1. CASE OwnerTalks(o)
    BY <2>1 DEF OwnerTalks
  <2>2. CASE OwnerReads(o)
    <3>1. held[o] \in Pipes /\ up[held[o]] # <<>> /\ up' = [up EXCEPT ![held[o]] = Tail(@)]
      BY <2>2 DEF OwnerReads
    <3>2. up' \in [Pipes -> Seq(Replies)]
      BY <3>1, TailTyped
    <3> QED
      BY <2>2, <3>2 DEF OwnerReads
  <2> QED
    BY <1>9, <2>1, <2>2
<1>10. CASE UNCHANGED vars
  BY <1>10 DEF vars
<1> QED
  BY <1>1, <1>2, <1>3, <1>4, <1>5, <1>6, <1>7, <1>8, <1>9, <1>10 DEF Next, Owner

-------------------------------------------------------------------------------
(* What the actions leave alone. *)

(* A thread touches nothing of the owner's but eptr_ and mutex_. *)
LEMMA ThreadsKeepOwner ==
  ASSUME NEW p \in Pipes, Routine(p) \/ AfterRoutine(p) \/ Interrupted(p)
  PROVE  /\ UNCHANGED <<use, alive, held, stopped, retval, home, parentEnd, ownerVars, told>>
         /\ pc[p] # "none"
<1> USE DEF objVars, ownerVars, threadVars
<1>1. CASE Routine(p)
  BY <1>1 DEF Routine, Ends, RoutineSignals, RoutineTalks, RoutineReads, RoutineReturns, RoutineThrows
<1>2. CASE AfterRoutine(p)
  BY <1>2 DEF AfterRoutine, Answer, Catch, AnswerKo, Unlock, Close
<1>3. CASE Interrupted(p)
  BY <1>3 DEF Interrupted
<1> QED
  BY <1>1, <1>2, <1>3

(* Messages that the owner discards, sends and reads. *)
Talk == Discards \/ \E o \in Objects : OwnerTalks(o) \/ OwnerReads(o)

(* A message between parent and routine disturbs no owner.                 *)
LEMMA TalkKeepsAll ==
  Talk => UNCHANGED <<use, objVars, lock, threadVars, parentEnd, ownerVars, told>>
BY DEF Talk, Discards, OwnerTalks, OwnerReads

(* Stop and Destroy send signal::stop and may begin to wait. *)
LEMMA StopKeeps ==
  ASSUME NEW o \in Objects, Destroy(o) \/ \E block \in BOOLEAN : Stop(o, block)
  PROVE  /\ UNCHANGED <<use, objVars, lock, threadVars, up, parentEnd, told>>
         /\ busy = "free" /\ o \in alive /\ held[o] # NoPipe
         /\ \/ UNCHANGED ownerVars
            \/ busy' = "stop" /\ who' = o /\ ~stopped[o]
BY DEF Destroy, Stop, WaitIn

-------------------------------------------------------------------------------
(* Pipes and the objects that hold them. *)

(* Before the first actor nobody owns a pipe.                              *)
LEMMA OwningInit == Init => Owning /\ Kept
BY DEF Init, Owning, Kept

(* Every step keeps each pipe to one actor.                                *)
LEMMA OwningNext == Typed /\ Owning /\ [Next]_vars => Owning'
<1> SUFFICES ASSUME Typed, Owning, [Next]_vars PROVE Owning'
  OBVIOUS
<1> USE DEF Owning, objVars, threadVars, ownerVars
<1>1. ASSUME NEW p \in Pipes, Routine(p) \/ AfterRoutine(p) \/ Interrupted(p)  PROVE Owning'
  BY <1>1, ThreadsKeepOwner
<1>2. ASSUME NEW p \in Pipes, Reap(p)  PROVE Owning'
  BY <1>2 DEF Reap, Typed
<1>3. ASSUME Talk  PROVE Owning'
  BY <1>3, TalkKeepsAll
<1>4. ASSUME Constructed  PROVE Owning'
  BY <1>4, SeesTyped DEF Constructed, Takes
<1>5. ASSUME Refused  PROVE Owning'
  <2>1. busy = "constructor" /\ who \in alive /\ held[who] \in Pipes /\ busy' = "refusing"
    BY <1>5, SeesTyped DEF Refused
  <2>2. UNCHANGED <<alive, held, who>> /\ parentEnd' = [parentEnd EXCEPT ![held[who]] = "closed"]
    BY <1>5 DEF Refused, CloseParentEnd
  <2> QED
    BY <2>1, <2>2 DEF Typed
<1>6. ASSUME ConstructorThrows  PROVE Owning'
  BY <1>6 DEF ConstructorThrows, Dies, Refuses, Typed
<1>7. ASSUME StopAnswered  PROVE Owning'
  <2>1. busy = "stop" /\ who \in alive /\ held[who] \in Pipes /\ busy' = "free" /\ UNCHANGED held
    BY <1>7, SeesTyped DEF StopAnswered
  <2>2. \/ /\ alive' = alive \ {who} /\ parentEnd' = [parentEnd EXCEPT ![held[who]] = "closed"]
        \/ UNCHANGED <<alive, parentEnd>>
    BY <1>7 DEF StopAnswered, Dies, CloseParentEnd
  <2> QED
    BY <2>1, <2>2 DEF Typed
<1>8. ASSUME NEW o \in Objects, NEW p \in Pipes, Construct(o, p)  PROVE Owning'
  BY <1>8, SentinelsAssumption DEF Construct, WaitIn, Typed
<1>9. ASSUME NEW o \in Objects, NEW q \in Objects, MoveConstruct(o, q) \/ MoveAssign(o, q)
      PROVE  Owning'
  <2>1. /\ busy = "free" /\ UNCHANGED <<busy, who, parentEnd>> /\ o \in alive
        /\ alive' \subseteq alive \cup {q}
        /\ held' = [held EXCEPT ![q] = held[o], ![o] = NoPipe]
    BY <1>9 DEF MoveConstruct, MoveAssign, Gives
  <2>2. \A r \in alive' : held'[r] # NoPipe => r # o /\ held'[r] = held[IF r = q THEN o ELSE r]
    BY <2>1 DEF Typed
  <2> DEFINE source(r) == IF r = q THEN o ELSE r
  <2>3. \A r \in alive' : held'[r] # NoPipe =>
          source(r) \in alive /\ held'[r] = held[source(r)] /\ parentEnd[held[source(r)]] = "open"
    BY <2>1, <2>2
  <2>4. ASSUME NEW r \in alive', NEW t \in alive', held'[r] = held'[t], held'[r] # NoPipe
        PROVE  r = t
    <3>1. source(r) = source(t)
      BY <2>3, <2>4
    <3> QED
      BY <2>2, <2>4, <3>1
  <2>5. \A r \in alive' : held'[r] # NoPipe => parentEnd'[held'[r]] = "open"
    BY <2>1, <2>3
  <2>6. busy' = "free"
    BY <2>1
  <2> HIDE DEF source
  <2> QED
    BY <2>4, <2>5, <2>6
<1>10. ASSUME NEW o \in Objects, Destroy(o) \/ \E block \in BOOLEAN : Stop(o, block)  PROVE Owning'
  BY <1>10, StopKeeps
<1>11. ASSUME NEW o \in Objects, DestroyAtOnce(o)  PROVE Owning'
  <2>1. /\ busy = "free" /\ UNCHANGED <<busy, who, held>> /\ o \in alive /\ alive' = alive \ {o}
        /\ \/ UNCHANGED parentEnd
           \/ held[o] # NoPipe /\ parentEnd' = [parentEnd EXCEPT ![held[o]] = "closed"]
    BY <1>11 DEF DestroyAtOnce, Dies, CloseParentEnd
  <2> QED
    BY <2>1 DEF Typed
<1>12. CASE UNCHANGED vars
  BY <1>12 DEF vars
<1> QED
  BY <1>1, <1>2, <1>3, <1>4, <1>5, <1>6, <1>7, <1>8, <1>9, <1>10, <1>11, <1>12 DEF Next, Owner, Waits, Talk

(* Every step keeps what stop() answered.                                  *)
LEMMA KeptNext == Typed /\ Owning /\ Kept /\ [Next]_vars => Kept'
<1> SUFFICES ASSUME Typed, Owning, Kept, [Next]_vars PROVE Kept'
  OBVIOUS
<1> USE DEF Kept, objVars, threadVars, ownerVars
<1>1. ASSUME NEW p \in Pipes, Routine(p) \/ AfterRoutine(p) \/ Interrupted(p)  PROVE Kept'
  BY <1>1, ThreadsKeepOwner
<1>2. ASSUME NEW p \in Pipes, Reap(p)  PROVE Kept'
  BY <1>2 DEF Reap, Typed
<1>3. ASSUME Talk  PROVE Kept'
  BY <1>3, TalkKeepsAll
<1>4. ASSUME Constructed  PROVE Kept'
  BY <1>4 DEF Constructed
<1>5. ASSUME Refused  PROVE Kept'
  BY <1>5 DEF Refused, CloseParentEnd, Typed
<1>6. ASSUME ConstructorThrows  PROVE Kept'
  BY <1>6 DEF ConstructorThrows, Dies, Refuses, Typed, Owning
<1>7. ASSUME StopAnswered  PROVE Kept'
  <2>1. who \in alive /\ held[who] \in Pipes /\ UNCHANGED <<use, held>>
    BY <1>7, SeesTyped DEF StopAnswered
  <2>2. \/ /\ alive' = alive \ {who} /\ parentEnd' = [parentEnd EXCEPT ![held[who]] = "closed"]
        \/ UNCHANGED <<alive, parentEnd>>
    BY <1>7 DEF StopAnswered, Dies, CloseParentEnd
  <2> QED
    BY <2>1, <2>2 DEF Typed
<1>8. ASSUME NEW o \in Objects, NEW p \in Pipes, Construct(o, p)  PROVE Kept'
  BY <1>8 DEF Construct, WaitIn, Typed
<1>9. ASSUME NEW o \in Objects, NEW q \in Objects, MoveConstruct(o, q) \/ MoveAssign(o, q)
      PROVE  Kept'
  <2>1. /\ UNCHANGED <<use, parentEnd>> /\ o \in alive /\ alive' = alive \cup {q}
        /\ held' = [held EXCEPT ![q] = held[o], ![o] = NoPipe]
        /\ q \in alive /\ held[q] # NoPipe => (IF o = q THEN "self" ELSE "assign") \in use
    BY <1>9 DEF MoveConstruct, MoveAssign, Gives
  <2> QED
    BY <2>1, SentinelsAssumption DEF Typed
<1>10. ASSUME NEW o \in Objects, Destroy(o) \/ \E block \in BOOLEAN : Stop(o, block)  PROVE Kept'
  BY <1>10, StopKeeps
<1>11. ASSUME NEW o \in Objects, DestroyAtOnce(o)  PROVE Kept'
  <2>1. /\ UNCHANGED <<use, held>> /\ o \in alive /\ alive' = alive \ {o}
        /\ \/ held[o] = NoPipe /\ UNCHANGED parentEnd
           \/ held[o] # NoPipe /\ parentEnd' = [parentEnd EXCEPT ![held[o]] = "closed"]
    BY <1>11 DEF DestroyAtOnce, Dies, CloseParentEnd
  <2> QED
    BY <2>1, SentinelsAssumption DEF Typed
<1>12. CASE UNCHANGED vars
  BY <1>12 DEF vars
<1> QED
  BY <1>1, <1>2, <1>3, <1>4, <1>5, <1>6, <1>7, <1>8, <1>9, <1>10, <1>11, <1>12 DEF Next, Owner, Waits, Talk

(* Whatever owners and routines do: two live actors never have the same    *)
(* pipe, and the pipe of one is open; without assignment to an actor that  *)
(* has one and while threads can be made, an open pipe has a live actor.   *)
THEOREM ActorPipesAreOwned == Spec => []PipesAreOwned
<1> DEFINE Inv == Typed /\ Owning /\ Kept
<1>1. Init => Inv
  BY TypedInit, OwningInit
<1>2. Inv /\ [Next]_vars => Inv'
  BY TypedNext, OwningNext, KeptNext
<1>3. Inv => PipesAreOwned
  BY DEF Typed, Owning, Kept, PipesAreOwned, Holds
<1> QED
  BY <1>1, <1>2, <1>3, PTL DEF Spec

-------------------------------------------------------------------------------
(* The threads and the objects they keep the address of. *)

(* Before the first actor no thread runs.                                  *)
LEMMA ThreadsInit == Init => Threads /\ Homes
BY DEF Init, Threads, Homes, Starting

(* A send up leaves what was under way as it was, and at most one more. *)
LEMMA SendUpExtends ==
  ASSUME up \in [Pipes -> Seq(Replies)], NEW p \in Pipes, NEW m \in Replies, SendUp(p, m)
  PROVE  /\ \A r \in Pipes \ {p} : up'[r] = up[r]
         /\ \/ up'[p] = up[p]
            \/ parentEnd[p] = "open" /\ up'[p] = Append(up[p], m)
         /\ \A i \in 1..Len(up'[p]) :
              \/ i \in 1..Len(up[p]) /\ up'[p][i] = up[p][i]
              \/ i = Len(up[p]) + 1 /\ up'[p][i] = m
         /\ \A i \in 1..Len(up[p]) : i \in 1..Len(up'[p]) /\ up'[p][i] = up[p][i]
         /\ parentEnd[p] = "open" => Len(up[p]) + 1 \in 1..Len(up'[p]) /\ up'[p][Len(up[p]) + 1] = m
<1>1. up[p] \in Seq(Replies)
  OBVIOUS
<1>2. CASE parentEnd[p] = "closed" /\ UNCHANGED up
  <2>1. \A r : up'[r] = up[r]
    BY <1>2
  <2>2. Len(up'[p]) = Len(up[p]) /\ \A i : up'[p][i] = up[p][i]
    BY <2>1, Zenon
  <2> QED
    BY <1>2, <2>1, <2>2
<1>3. CASE parentEnd[p] = "open" /\ up' = [up EXCEPT ![p] = Append(@, m)]
  <2>1. up'[p] = Append(up[p], m)
    BY <1>3
  <2>2. /\ Len(Append(up[p], m)) = Len(up[p]) + 1 /\ Append(up[p], m)[Len(up[p]) + 1] = m
        /\ \A i \in 1..Len(up[p]) : Append(up[p], m)[i] = up[p][i]
    BY <1>1, AppendProperties
  <2>3. Len(up[p]) \in Nat
    BY <1>1
  <2>4. \A r \in Pipes \ {p} : up'[r] = up[r]
    BY <1>3
  <2>5. /\ \A i \in 1..Len(up'[p]) :
              \/ i \in 1..Len(up[p]) /\ up'[p][i] = up[p][i]
              \/ i = Len(up[p]) + 1 /\ up'[p][i] = m
        /\ \A i \in 1..Len(up[p]) : i \in 1..Len(up'[p]) /\ up'[p][i] = up[p][i]
        /\ Len(up[p]) + 1 \in 1..Len(up'[p]) /\ up'[p][Len(up[p]) + 1] = m
    BY <2>1, <2>2, <2>3
  <2> QED
    BY <1>3, <2>1, <2>4, <2>5
<1> QED
  BY <1>2, <1>3 DEF SendUp

(* What a step of a thread can do to its place, its signal and its end. *)
LEMMA ThreadMoves ==
  ASSUME Typed, Threads, NEW p \in Pipes, Routine(p) \/ AfterRoutine(p) \/ Interrupted(p)
  PROVE  /\ \A r \in Pipes \ {p} : pc'[r] = pc[r] /\ outcome'[r] = outcome[r] /\ said'[r] = said[r]
                                   /\ up'[r] = up[r]
         /\ pc[p] # "none" /\ pc'[p] # "none"
         /\ outcome'[p] = "none" <=> pc'[p] = "routine"
         /\ outcome[p] # "none" => outcome'[p] = outcome[p]
         /\ pc'[p] \in {"caught", "locked", "unlocking"} => outcome'[p] = "thrown"
         /\ pc'[p] = "answering" => outcome'[p] # "thrown"
<1> USE DEF Typed, Threads, objVars, threadVars, Go, Places, Endings, Replies
<1>1. ASSUME NEW sig \in {"ok", "ko"}, RoutineSignals(p, sig)
      PROVE  \A r \in Pipes \ {p} : up'[r] = up[r]
  BY <1>1, SendUpExtends DEF RoutineSignals
<1>2. CASE RoutineTalks(p) \/ RoutineReads(p) \/ \E sig \in {"ok", "ko"} : RoutineSignals(p, sig)
  <2>1. \A r \in Pipes \ {p} : up'[r] = up[r]
    BY <1>1, <1>2, SendUpExtends DEF RoutineTalks, RoutineReads
  <2> QED
    BY <1>2, <2>1 DEF RoutineTalks, RoutineReads, RoutineSignals
<1>3. CASE Ends(p)
  BY <1>3 DEF Ends, RoutineReturns, RoutineThrows
<1>4. CASE Answer(p) \/ AnswerKo(p)
  <2>1. \A r \in Pipes \ {p} : up'[r] = up[r]
    BY <1>4, SendUpExtends DEF Answer, AnswerKo
  <2> QED
    BY <1>4, <2>1 DEF Answer, AnswerKo
<1>5. CASE Catch(p) \/ Unlock(p) \/ Close(p) \/ Interrupted(p)
  BY <1>5 DEF Catch, Unlock, Close, Interrupted
<1> QED
  BY <1>2, <1>3, <1>4, <1>5 DEF Routine, AfterRoutine

(* Every step keeps the threads to the calls of their actors.              *)
LEMMA ThreadsNext == Typed /\ Owning /\ Threads /\ [Next]_vars => Threads'
<1> SUFFICES ASSUME Typed, Owning, Threads, [Next]_vars PROVE Threads'
  OBVIOUS
<1> USE DEF Threads, objVars, threadVars, ownerVars
<1>1. ASSUME NEW p \in Pipes, Routine(p) \/ AfterRoutine(p) \/ Interrupted(p)  PROVE Threads'
  <2>1. /\ UNCHANGED <<alive, held, home, parentEnd, told>>
        /\ pc[p] # "none"
    BY <1>1, ThreadsKeepOwner
  <2> QED
    BY <1>1, <2>1, ThreadMoves
<1>2. ASSUME NEW p \in Pipes, Reap(p)  PROVE Threads'
  BY <1>2 DEF Reap, Typed
<1>3. ASSUME Talk  PROVE Threads'
  <2>1. \A p \in Pipes : up[p] = <<>> => up'[p] = <<>>
    BY <1>3 DEF Talk, Discards, Takes, Sees, OwnerTalks, OwnerReads, Typed
  <2> QED
    BY <1>3, <2>1, TalkKeepsAll
<1>4. ASSUME Constructed  PROVE Threads'
  <2>1. up' = [up EXCEPT ![held[who]] = Tail(@)] /\ up[held[who]] # <<>>
    BY <1>4, SeesTyped DEF Constructed, Takes
  <2> QED
    BY <1>4, <2>1 DEF Constructed, Tells, Typed
<1>5. ASSUME Refused  PROVE Threads'
  BY <1>5 DEF Refused, CloseParentEnd, Typed
<1>6. ASSUME ConstructorThrows  PROVE Threads'
  <2>1. who \in alive /\ held[who] \in Pipes /\ pc[held[who]] # "none"
    BY <1>6 DEF ConstructorThrows, Refuses, Typed
  <2> QED
    BY <1>6, <2>1, SentinelsAssumption DEF ConstructorThrows, Dies, Tells, Typed
<1>7. ASSUME StopAnswered  PROVE Threads'
  <2>1. who \in alive /\ held[who] \in Pipes /\ pc[held[who]] # "none"
    BY <1>7, SeesTyped DEF StopAnswered
  <2>2. \A p \in Pipes : p # held[who] => up'[p] = up[p] /\ told'[p] = told[p] /\ parentEnd'[p] = parentEnd[p]
    BY <1>7 DEF StopAnswered, Tells, CloseParentEnd, Typed
  <2>3. \A p \in Pipes : home[p] = Gone => home'[p] = Gone
    BY <1>7 DEF StopAnswered, Dies
  <2>4. alive' \subseteq alive /\ UNCHANGED <<pc, said, held, outcome>>
    BY <1>7 DEF StopAnswered, Dies
  <2>5. parentEnd[held[who]] # "none" /\ (parentEnd'[held[who]] = "none" => FALSE)
    BY <1>7, <2>1 DEF StopAnswered, CloseParentEnd, Typed
  <2> QED
    BY <2>1, <2>2, <2>3, <2>4, <2>5
<1>8. ASSUME NEW o \in Objects, NEW p \in Pipes, Construct(o, p)  PROVE Threads'
  <2>1. /\ parentEnd[p] = "none" /\ pc[p] = "none" /\ parentEnd' = [parentEnd EXCEPT ![p] = "open"]
        /\ UNCHANGED <<said, outcome, up, told>>
    BY <1>8 DEF Construct
  <2>2. \/ UNCHANGED <<alive, held, home, pc>>
        \/ /\ alive' = alive \cup {o} /\ held' = [held EXCEPT ![o] = p]
           /\ home' = [home EXCEPT ![p] = o] /\ pc' = [pc EXCEPT ![p] = "routine"]
    BY <1>8 DEF Construct, Go
  <2> QED
    BY <2>1, <2>2 DEF Typed
<1>9. ASSUME NEW o \in Objects, NEW q \in Objects, MoveConstruct(o, q) \/ MoveAssign(o, q)
      PROVE  Threads'
  <2>1. /\ UNCHANGED <<threadVars, up, parentEnd, told>> /\ o \in alive
        /\ alive' \subseteq alive \cup {q}
        /\ held' = [held EXCEPT ![q] = held[o], ![o] = NoPipe]
    BY <1>9 DEF MoveConstruct, MoveAssign, Gives
  <2> QED
    BY <2>1, SentinelsAssumption DEF Typed
<1>10. ASSUME NEW o \in Objects, Destroy(o) \/ \E block \in BOOLEAN : Stop(o, block)  PROVE Threads'
  BY <1>10, StopKeeps
<1>11. ASSUME NEW o \in Objects, DestroyAtOnce(o)  PROVE Threads'
  BY <1>11 DEF DestroyAtOnce, Dies, CloseParentEnd, Typed
<1>12. CASE UNCHANGED vars
  BY <1>12 DEF vars
<1> QED
  BY <1>1, <1>2, <1>3, <1>4, <1>5, <1>6, <1>7, <1>8, <1>9, <1>10, <1>11, <1>12 DEF Next, Owner, Waits, Talk

(* Every step keeps a constructor's pipe with its actor.                   *)
LEMMA HomesNext == Typed /\ Owning /\ Homes /\ [Next]_vars => Homes'
<1> SUFFICES ASSUME Typed, Owning, Homes, [Next]_vars PROVE Homes'
  OBVIOUS
<1> USE DEF Homes, Starting, objVars, threadVars, ownerVars
<1>1. ASSUME NEW p \in Pipes, Routine(p) \/ AfterRoutine(p) \/ Interrupted(p)  PROVE Homes'
  BY <1>1, ThreadsKeepOwner
<1>2. ASSUME NEW p \in Pipes, Reap(p)  PROVE Homes'
  BY <1>2 DEF Reap
<1>3. ASSUME Talk  PROVE Homes'
  BY <1>3, TalkKeepsAll
<1>4. ASSUME Constructed  PROVE Homes'
  BY <1>4 DEF Constructed
<1>5. ASSUME Refused  PROVE Homes'
  BY <1>5, SeesTyped DEF Refused
<1>6. ASSUME ConstructorThrows  PROVE Homes'
  BY <1>6 DEF ConstructorThrows, Dies
<1>7. ASSUME StopAnswered  PROVE Homes'
  BY <1>7 DEF StopAnswered, Dies
<1>8. ASSUME NEW o \in Objects, NEW p \in Pipes, Construct(o, p)  PROVE Homes'
  <2>1. busy = "free" /\ o \notin alive
    BY <1>8 DEF Construct
  <2>2. \/ UNCHANGED <<alive, held, home, busy, who>>
        \/ /\ alive' = alive \cup {o} /\ held' = [held EXCEPT ![o] = p]
           /\ home' = [home EXCEPT ![p] = o] /\ who' = o
    BY <1>8 DEF Construct, WaitIn
  <2>3. ASSUME alive' = alive \cup {o}, held' = [held EXCEPT ![o] = p],
               home' = [home EXCEPT ![p] = o], who' = o
        PROVE  Homes'
    <3>1. held'[o] = p /\ home'[p] = o
      BY <2>3 DEF Typed
    <3>2. \A r \in Pipes \ {p} : home'[r] = home[r] /\ (home[r] # Gone => home[r] # o)
      BY <2>1, <2>3 DEF Typed
    <3> QED
      BY <2>3, <3>1, <3>2
  <2> QED
    BY <2>1, <2>2, <2>3
<1>9. ASSUME NEW o \in Objects, NEW q \in Objects, MoveConstruct(o, q) \/ MoveAssign(o, q)
      PROVE  Homes'
  <2>1. UNCHANGED <<home, busy>> /\ busy = "free" /\ alive \subseteq alive'
    BY <1>9 DEF MoveConstruct, MoveAssign
  <2> QED
    BY <2>1
<1>10. ASSUME NEW o \in Objects, Destroy(o) \/ \E block \in BOOLEAN : Stop(o, block)  PROVE Homes'
  BY <1>10, StopKeeps
<1>11. ASSUME NEW o \in Objects, DestroyAtOnce(o)  PROVE Homes'
  BY <1>11 DEF DestroyAtOnce, Dies
<1>12. CASE UNCHANGED vars
  BY <1>12 DEF vars
<1> QED
  BY <1>1, <1>2, <1>3, <1>4, <1>5, <1>6, <1>7, <1>8, <1>9, <1>10, <1>11, <1>12 DEF Next, Owner, Waits, Talk

-------------------------------------------------------------------------------
(* The signals on their way to the owner. *)

(* Before the first actor nothing was said.                                *)
LEMMA SignalsInit == Init => Signals /\ Told
BY DEF Init, Signals, SignalsOf, Silent, Told, ToldOf, Starting

Thread(p) == <<pc[p], said[p], outcome[p]>>

(* Signals of a pipe that no step touches stay explained.                  *)
LEMMA SignalsSame ==
  ASSUME NEW p \in Pipes, SignalsOf(p),
         UNCHANGED <<Thread(p), up[p], told[p], parentEnd[p]>>
  PROVE  SignalsOf(p)'
BY DEF SignalsOf, Silent, Explained, IsAnswer, IsFirst, Thread

(* A pipe without signals has nothing to explain.                          *)
LEMMA SignalsCleared ==
  ASSUME NEW p \in Pipes, SignalsOf(p), up'[p] = <<>>, UNCHANGED Thread(p),
         told'[p] = told[p] \/ ~Silent(p)
  PROVE  SignalsOf(p)'
BY DEF SignalsOf, Silent, Thread

(* A message, or the signal that the owner waits for, is taken. *)
LEMMA SignalsTaken ==
  ASSUME Typed, NEW p \in Pipes, SignalsOf(p), up[p] # <<>>, up' = [up EXCEPT ![p] = Tail(@)],
         UNCHANGED <<Thread(p), parentEnd[p]>>,
         \/ Head(up[p]) = "msg" /\ told'[p] = told[p]
         \/ Head(up[p]) # "msg" /\ told[p] = "nothing"
         \/ told[p] # "nothing" /\ told'[p] # "nothing"
  PROVE  SignalsOf(p)'
<1>1. /\ Len(up[p]) \in Nat \ {0} /\ Len(up'[p]) = Len(up[p]) - 1
      /\ \A i \in 1..Len(up'[p]) : up'[p][i] = up[p][i + 1]
      /\ Head(up[p]) = up[p][1]
  BY TailTyped DEF Typed
<1>2. Silent(p)' => Silent(p)
  BY DEF Silent, Thread
<1>3. \A m : IsAnswer(p, m)' <=> IsAnswer(p, m)
  BY DEF IsAnswer, Thread
<1>4. ASSUME Silent(p)  PROVE told'[p] = "nothing" /\ \A i \in 1..Len(up'[p]) : up'[p][i] = "msg"
  BY <1>1, <1>4 DEF SignalsOf
<1>5. ASSUME NEW i \in 1..Len(up'[p])  PROVE Explained(p, i)'
  <2>1. i + 1 \in 1..Len(up[p]) /\ up'[p][i] = up[p][i + 1] /\ Explained(p, i + 1)
    BY <1>1 DEF SignalsOf
  <2>2. CASE up[p][i + 1] = "msg" \/ IsAnswer(p, up[p][i + 1])
    BY <1>3, <2>1, <2>2 DEF Explained, IsAnswer, Thread
  <2>3. CASE told[p] = "nothing" /\ said[p] = up[p][i + 1] /\ IsFirst(p, i + 1)
    <3>1. Head(up[p]) = "msg" /\ told'[p] = told[p] /\ said'[p] = said[p]
      BY <1>1, <2>3 DEF IsFirst, Thread
    <3>2. IsFirst(p, i)'
      <4> SUFFICES ASSUME NEW j \in 1..i - 1 PROVE up'[p][j] = "msg"
        BY DEF IsFirst
      <4>1. j \in 1..Len(up'[p]) /\ j + 1 \in 1..i
        BY <1>1
      <4>2. up'[p][j] = up[p][j + 1]
        BY <1>1, <4>1
      <4>3. up[p][j + 1] = "msg"
        BY <2>3, <4>1 DEF IsFirst
      <4> QED
        BY <4>2, <4>3
    <3> QED
      BY <2>1, <2>3, <3>1, <3>2 DEF Explained
  <2> QED
    BY <2>1, <2>2, <2>3 DEF Explained
<1>6. parentEnd'[p] \notin {"closed", "gone"}
  BY DEF SignalsOf
<1> QED
  BY <1>2, <1>4, <1>5, <1>6 DEF SignalsOf

(* A thread sends: its start signal, a message, or its answer. *)
LEMMA SignalsSent ==
  ASSUME Typed, NEW p \in Pipes, SignalsOf(p), NEW m \in Replies, SendUp(p, m),
         UNCHANGED <<told[p], parentEnd[p]>>,
         \A k : IsAnswer(p, k) => IsAnswer(p, k)',
         \/ m = "msg" /\ UNCHANGED <<pc[p], said[p]>>
         \/ Silent(p) /\ said'[p] = m
         \/ IsAnswer(p, m)' /\ said'[p] = said[p] /\ ~Silent(p)'
  PROVE  SignalsOf(p)'
<1> USE DEF Replies
<1>1. /\ up'[p] = up[p] \/ parentEnd[p] = "open"
      /\ Len(up[p]) \in Nat
      /\ \A i \in 1..Len(up'[p]) :
           \/ i \in 1..Len(up[p]) /\ up'[p][i] = up[p][i]
           \/ i = Len(up[p]) + 1 /\ up'[p][i] = m
  BY SendUpExtends DEF Typed
<1>2. ASSUME NEW i \in 1..Len(up'[p])  PROVE Explained(p, i)'
  <2>1. IsFirst(p, i) => IsFirst(p, i)'
    BY <1>1 DEF IsFirst
  <2>2. CASE i \in 1..Len(up[p]) /\ up'[p][i] = up[p][i]
    BY <2>1, <2>2 DEF SignalsOf, Explained, Silent
  <2>3. CASE i = Len(up[p]) + 1 /\ up'[p][i] = m
    <3>1. ASSUME Silent(p), said'[p] = m  PROVE told'[p] = "nothing" /\ IsFirst(p, i)'
      BY <1>1, <2>3, <3>1 DEF SignalsOf, IsFirst
    <3> QED
      BY <2>3, <3>1 DEF Explained
  <2> QED
    BY <1>1, <2>2, <2>3
<1>3. Silent(p)' => Silent(p) /\ m = "msg"
  BY DEF Silent
<1>4. Silent(p)' => told'[p] = "nothing" /\ \A i \in 1..Len(up'[p]) : up'[p][i] = "msg"
  BY <1>1, <1>3 DEF SignalsOf
<1>5. parentEnd'[p] \in {"closed", "gone"} => up'[p] = <<>>
  BY <1>1 DEF SignalsOf
<1> QED
  BY <1>2, <1>4, <1>5 DEF SignalsOf

(* A step of a thread leaves the signals of its pipe explained. *)
LEMMA SignalsOfThread ==
  ASSUME Typed, Threads, NEW p \in Pipes, SignalsOf(p),
         Routine(p) \/ AfterRoutine(p) \/ Interrupted(p)
  PROVE  SignalsOf(p)' /\ (Silent(p)' => Silent(p))
<1> USE DEF Typed, objVars, threadVars, Go, Replies, Endings
<1>0. told'[p] = told[p] /\ parentEnd'[p] = parentEnd[p]
  BY ThreadsKeepOwner
<1>1. ASSUME NEW sig \in {"ok", "ko"}, RoutineSignals(p, sig)
      PROVE  SignalsOf(p)' /\ ~Silent(p)'
  <2>1. Silent(p) /\ said'[p] = sig /\ SendUp(p, sig) /\ UNCHANGED <<pc, outcome>>
    BY <1>1 DEF RoutineSignals, Silent
  <2>2. \A k : IsAnswer(p, k) => IsAnswer(p, k)'
    BY <2>1 DEF IsAnswer
  <2>3. SignalsOf(p)'
    BY <1>0, <2>1, <2>2, SignalsSent
  <2> QED
    BY <2>1, <2>3 DEF Silent
<1>2. CASE RoutineTalks(p)
  <2>1. SendUp(p, "msg") /\ UNCHANGED <<pc, said, outcome>>
    BY <1>2 DEF RoutineTalks
  <2>2. \A k : IsAnswer(p, k) => IsAnswer(p, k)'
    BY <2>1 DEF IsAnswer
  <2> QED
    BY <1>0, <2>1, <2>2, SignalsSent DEF Silent
<1>3. CASE Answer(p) \/ AnswerKo(p)
  <2> DEFINE m == IF outcome[p] = "true" THEN "ok" ELSE "ko"
  <2>1. /\ SendUp(p, m) /\ UNCHANGED <<said, outcome>>
        /\ pc[p] \in {"answering", "locked"} /\ pc'[p] \in {"closing", "unlocking"}
    BY <1>3 DEF Answer, AnswerKo, Threads
  <2>2. \A k : IsAnswer(p, k) => IsAnswer(p, k)'
    BY <2>1 DEF IsAnswer
  <2>3. IsAnswer(p, m)' /\ ~Silent(p)'
    BY <2>1 DEF IsAnswer, Silent
  <2> QED
    BY <1>0, <2>1, <2>2, <2>3, SignalsSent
<1>4. CASE RoutineReads(p) \/ Ends(p) \/ Catch(p) \/ Unlock(p) \/ Close(p) \/ Interrupted(p)
  <2>1. UNCHANGED <<said, up>> /\ (Silent(p)' => Silent(p))
    BY <1>4 DEF RoutineReads, Ends, RoutineReturns, RoutineThrows, Catch, Unlock, Close, Interrupted, Silent
  <2>2. \A k : IsAnswer(p, k) => IsAnswer(p, k)'
    BY <1>4 DEF RoutineReads, Ends, RoutineReturns, RoutineThrows, Catch, Unlock, Close, Interrupted,
                IsAnswer
  <2> QED
    BY <1>0, <2>1, <2>2 DEF SignalsOf, Explained, IsFirst
<1> QED
  BY <1>1, <1>2, <1>3, <1>4 DEF Routine, AfterRoutine, Silent

(* Every step keeps the signals of each pipe explained.                    *)
LEMMA SignalsNext ==
  Typed /\ Owning /\ Threads /\ Signals /\ Told /\ [Next]_vars => Signals'
<1> SUFFICES ASSUME Typed, Owning, Threads, Signals, Told, [Next]_vars PROVE Signals'
  OBVIOUS
<1> USE DEF Signals, objVars, threadVars, ownerVars
<1>1. ASSUME NEW p \in Pipes, Routine(p) \/ AfterRoutine(p) \/ Interrupted(p)  PROVE Signals'
  <2>1. \A r \in Pipes \ {p} : UNCHANGED <<Thread(r), up[r], told[r], parentEnd[r]>>
    BY <1>1, ThreadMoves, ThreadsKeepOwner DEF Thread
  <2>2. \A r \in Pipes : SignalsOf(r)'
    BY <1>1, <2>1, SignalsSame, SignalsOfThread
  <2>3. busy' = "refusing" => busy = "refusing" /\ held'[who'] = held[who] /\ held[who] \in Pipes
    BY <1>1, ThreadsKeepOwner DEF Typed
  <2>4. \A r \in Pipes \ {p} : Silent(r)' => Silent(r)
    BY <2>1 DEF Silent, Thread
  <2> QED
    BY <1>1, <2>2, <2>3, <2>4, SignalsOfThread DEF Silent
<1>2. ASSUME NEW p \in Pipes, Reap(p)  PROVE Signals'
  BY <1>2 DEF Reap, SignalsOf, Silent, Explained, IsAnswer, IsFirst, Typed
<1>3. ASSUME Talk  PROVE Signals'
  <2>1. \A r \in Pipes : UNCHANGED <<Thread(r), told[r], parentEnd[r]>>
    BY <1>3, TalkKeepsAll DEF Thread
  <2>2. ASSUME UNCHANGED up \/ \E p \in Pipes : /\ up[p] # <<>> /\ Head(up[p]) = "msg"
                                              /\ up' = [up EXCEPT ![p] = Tail(@)]
        PROVE  \A r \in Pipes : SignalsOf(r)'
    <3>1. CASE UNCHANGED up
      BY <2>1, <3>1, SignalsSame
    <3>2. ASSUME NEW p \in Pipes, up[p] # <<>>, Head(up[p]) = "msg", up' = [up EXCEPT ![p] = Tail(@)]
          PROVE  \A r \in Pipes : SignalsOf(r)'
      <4>1. SignalsOf(p)'
        BY <2>1, <3>2, SignalsTaken
      <4>2. \A r \in Pipes \ {p} : SignalsOf(r)'
        BY <2>1, <3>2, SignalsSame DEF Typed
      <4> QED
        BY <4>1, <4>2
    <3> QED
      BY <2>2, <3>1, <3>2
  <2>3. CASE Discards
    BY <2>2, <2>3, SeesTyped DEF Discards, Takes
  <2>4. ASSUME NEW o \in Objects, OwnerTalks(o) \/ OwnerReads(o)
        PROVE  \A r \in Pipes : SignalsOf(r)'
    BY <2>2, <2>4 DEF OwnerTalks, OwnerReads, Typed
  <2> QED
    BY <1>3, <2>3, <2>4, TalkKeepsAll DEF Talk, Silent
<1>4. ASSUME Constructed  PROVE Signals'
  <2>0. PICK p \in Pipes : p = held[who]
    BY <1>4, SeesTyped DEF Constructed, Takes
  <2>1. /\ p = held[who] /\ up[p] # <<>> /\ Head(up[p]) = "ok" /\ up' = [up EXCEPT ![p] = Tail(@)]
        /\ busy = "constructor" /\ who \in alive
    BY <1>4, <2>0, SeesTyped DEF Constructed, Takes
  <2>2. told[p] = "nothing"
    BY <2>1, SentinelsAssumption DEF Told, ToldOf, Starting
  <2>3. \A r \in Pipes : UNCHANGED <<Thread(r), parentEnd[r]>>
    BY <1>4 DEF Constructed, Thread
  <2>4. \A r \in Pipes \ {p} : up'[r] = up[r] /\ told'[r] = told[r]
    BY <1>4, <2>1 DEF Constructed, Tells, Typed
  <2>5. SignalsOf(p)'
    BY <2>1, <2>2, <2>3, SignalsTaken
  <2>6. \A r \in Pipes \ {p} : SignalsOf(r)'
    BY <2>3, <2>4, SignalsSame
  <2> QED
    BY <1>4, <2>5, <2>6 DEF Constructed
<1>5. ASSUME Refused  PROVE Signals'
  <2>0. PICK p \in Pipes : p = held[who]
    BY <1>5, SeesTyped DEF Refused
  <2>1. p = held[who] /\ up[p] # <<>> /\ Head(up[p]) = "ko"
    BY <1>5, <2>0, SeesTyped DEF Refused
  <2>2. ~Silent(p)
    <3>1. up[p][1] = "ko" /\ 1 \in 1..Len(up[p])
      BY <2>1, TailTyped DEF Typed
    <3> QED
      BY <2>1, <3>1 DEF SignalsOf
  <2>3. \A r \in Pipes : UNCHANGED <<Thread(r), told[r]>>
    BY <1>5 DEF Refused, Thread
  <2>4. up'[p] = <<>> /\ \A r \in Pipes \ {p} : up'[r] = up[r] /\ parentEnd'[r] = parentEnd[r]
    BY <1>5, <2>1 DEF Refused, CloseParentEnd, Typed
  <2>5. \A r \in Pipes : SignalsOf(r)'
    BY <2>1, <2>3, <2>4, SignalsSame, SignalsCleared
  <2> QED
    BY <1>5, <2>1, <2>2, <2>5 DEF Refused, Silent
<1>6. ASSUME ConstructorThrows  PROVE Signals'
  <2>0. PICK p \in Pipes : p = held[who]
    BY <1>6 DEF ConstructorThrows, Refuses, Typed
  <2>1. p = held[who] /\ busy = "refusing" /\ who \in alive /\ up[p] = <<>> /\ ~Silent(p)
    BY <1>6, <2>0 DEF ConstructorThrows, Refuses, Typed, Owning, SignalsOf
  <2>2. \A r \in Pipes : UNCHANGED <<Thread(r), up[r], parentEnd[r]>>
    BY <1>6 DEF ConstructorThrows, Thread
  <2>3. \A r \in Pipes \ {p} : told'[r] = told[r]
    BY <1>6, <2>1 DEF ConstructorThrows, Tells, Typed
  <2>4. \A r \in Pipes : SignalsOf(r)'
    BY <2>1, <2>2, <2>3, SignalsSame, SignalsCleared
  <2> QED
    BY <1>6, <2>4 DEF ConstructorThrows
<1>7. ASSUME StopAnswered  PROVE Signals'
  <2>0. PICK p \in Pipes : p = held[who]
    BY <1>7, SeesTyped DEF StopAnswered
  <2>1. /\ p = held[who] /\ up[p] # <<>> /\ busy = "stop" /\ who \in alive
        /\ told' \in {[told EXCEPT ![p] = "true"], [told EXCEPT ![p] = "false"]}
    BY <1>7, <2>0, SeesTyped DEF StopAnswered, Tells
  <2>2. told[p] # "nothing" /\ told'[p] # "nothing" /\ ~Silent(p)
    BY <2>1, SentinelsAssumption DEF Told, ToldOf, Starting, SignalsOf, Typed
  <2>3. \A r \in Pipes : UNCHANGED Thread(r)
    BY <1>7 DEF StopAnswered, Thread
  <2>4. \A r \in Pipes \ {p} : up'[r] = up[r] /\ told'[r] = told[r] /\ parentEnd'[r] = parentEnd[r]
    BY <1>7, <2>1 DEF StopAnswered, CloseParentEnd, Typed
  <2>5. \/ up'[p] = <<>>
        \/ up' = [up EXCEPT ![p] = Tail(@)] /\ parentEnd'[p] = parentEnd[p]
    BY <1>7, <2>1 DEF StopAnswered, CloseParentEnd, Typed
  <2>6. SignalsOf(p)'
    <3>1. CASE up'[p] = <<>>
      BY <2>1, <2>2, <2>3, <3>1, SignalsCleared
    <3>2. CASE up' = [up EXCEPT ![p] = Tail(@)] /\ parentEnd'[p] = parentEnd[p]
      BY <2>1, <2>2, <2>3, <3>2, SignalsTaken
    <3> QED
      BY <2>5, <3>1, <3>2
  <2>7. \A r \in Pipes \ {p} : SignalsOf(r)'
    BY <2>3, <2>4, SignalsSame
  <2> QED
    BY <1>7, <2>6, <2>7 DEF StopAnswered
<1>8. ASSUME NEW o \in Objects, NEW p \in Pipes, Construct(o, p)  PROVE Signals'
  <2>1. /\ UNCHANGED <<said, outcome, up, told>> /\ parentEnd'[p] = "open"
        /\ up[p] = <<>> /\ told[p] = "nothing"
    BY <1>8 DEF Construct, Threads, Typed
  <2>2. \A r \in Pipes \ {p} : UNCHANGED <<Thread(r), up[r], told[r], parentEnd[r]>>
    BY <1>8 DEF Construct, Go, Typed, Thread
  <2>3. SignalsOf(p)'
    BY <2>1 DEF SignalsOf
  <2> QED
    BY <1>8, <2>2, <2>3, SignalsSame DEF Construct, WaitIn
<1>9. ASSUME NEW o \in Objects, NEW q \in Objects, MoveConstruct(o, q) \/ MoveAssign(o, q)
      PROVE  Signals'
  <2>1. UNCHANGED <<threadVars, up, parentEnd, told>> /\ busy' = "free"
    BY <1>9 DEF MoveConstruct, MoveAssign
  <2>2. \A r \in Pipes : UNCHANGED <<Thread(r), up[r], told[r], parentEnd[r]>>
    BY <2>1 DEF Thread
  <2> QED
    BY <2>1, <2>2, SignalsSame DEF Silent
<1>10. ASSUME NEW o \in Objects, Destroy(o) \/ \E block \in BOOLEAN : Stop(o, block)  PROVE Signals'
  <2>1. UNCHANGED <<threadVars, up, parentEnd, told, held>> /\ busy' # "refusing"
    BY <1>10, StopKeeps
  <2>2. \A r \in Pipes : UNCHANGED <<Thread(r), up[r], told[r], parentEnd[r]>>
    BY <2>1 DEF Thread
  <2> QED
    BY <2>1, <2>2, SignalsSame DEF Silent
<1>11. ASSUME NEW o \in Objects, DestroyAtOnce(o)  PROVE Signals'
  <2>1. /\ \A r \in Pipes : UNCHANGED <<Thread(r), told[r]>>
        /\ busy' = "free"
    BY <1>11 DEF DestroyAtOnce, Thread
  <2>2. \A r \in Pipes : up'[r] = <<>> \/ (up'[r] = up[r] /\ parentEnd'[r] = parentEnd[r])
    BY <1>11 DEF DestroyAtOnce, CloseParentEnd, Typed
  <2> QED
    BY <2>1, <2>2, SignalsSame, SignalsCleared
<1>12. CASE UNCHANGED vars
  <2>1. \A r \in Pipes : UNCHANGED <<Thread(r), up[r], told[r], parentEnd[r]>>
    BY <1>12 DEF vars, Thread
  <2> QED
    BY <1>12, <2>1, SignalsSame DEF vars, Silent
<1> QED
  BY <1>1, <1>2, <1>3, <1>4, <1>5, <1>6, <1>7, <1>8, <1>9, <1>10, <1>11, <1>12 DEF Next, Owner, Waits, Talk

-------------------------------------------------------------------------------
(* What the owner was told. *)

(* What stop(true) takes is the answer of start_routine. *)
LEMMA StopTakesAnswer ==
  ASSUME Typed, Signals, Told, NEW m \in {"ok", "ko"}, Sees("stop", m)
  PROVE  /\ told[held[who]] = "constructed" /\ IsAnswer(held[who], m)
         /\ who \in alive /\ held[who] \in Pipes /\ ~stopped[who]
<1> DEFINE p == held[who]
<1>1. p \in Pipes /\ up[p] # <<>> /\ Head(up[p]) = m /\ busy = "stop" /\ who \in alive
  BY SeesTyped
<1>2. told[p] = "constructed"
  BY <1>1, SentinelsAssumption DEF Told, ToldOf, Starting
<1>3. up[p][1] = m /\ 1 \in 1..Len(up[p])
  BY <1>1, TailTyped DEF Typed
<1>4. IsAnswer(p, m)
  BY <1>1, <1>2, <1>3 DEF Signals, SignalsOf, Explained
<1> QED
  BY <1>1, <1>2, <1>4 DEF Told

(* Every step keeps what owners were told to what routines said.           *)
LEMMA ToldNext ==
  Typed /\ Owning /\ Threads /\ Signals /\ Told /\ [Next]_vars => Told'
<1> SUFFICES ASSUME Typed, Owning, Threads, Signals, Told, [Next]_vars PROVE Told'
  OBVIOUS
<1> USE DEF Told, objVars, threadVars, ownerVars
<1>1. ASSUME NEW p \in Pipes, Routine(p) \/ AfterRoutine(p) \/ Interrupted(p)  PROVE Told'
  <2>1. UNCHANGED <<alive, held, stopped, retval, busy, who, told>>
    BY <1>1, ThreadsKeepOwner
  <2>2. \A r \in Pipes : outcome[r] # "none" => outcome'[r] = outcome[r]
    BY <1>1, ThreadMoves
  <2> QED
    BY <2>1, <2>2 DEF ToldOf, Starting, Typed
<1>2. ASSUME NEW p \in Pipes, Reap(p)  PROVE Told'
  BY <1>2 DEF Reap, ToldOf, Starting
<1>3. ASSUME Talk  PROVE Told'
  BY <1>3, TalkKeepsAll DEF ToldOf, Starting
<1>4. ASSUME Constructed  PROVE Told'
  <2>1. busy = "constructor" /\ who \in alive /\ held[who] \in Pipes
    BY <1>4, SeesTyped DEF Constructed, Takes
  <2>2. /\ busy' = "free" /\ told' = [told EXCEPT ![held[who]] = "constructed"]
        /\ UNCHANGED <<alive, held, stopped, retval, outcome>>
    BY <1>4 DEF Constructed, Tells
  <2>3. \A o \in alive : o # who /\ held[o] # NoPipe => held[o] # held[who] /\ ~Starting(o) /\ ~Starting(o)'
    BY <2>1, <2>2 DEF Owning, Starting
  <2>4. ~stopped[who]
    BY <2>1, SentinelsAssumption DEF ToldOf, Starting
  <2> QED
    BY <2>1, <2>2, <2>3, <2>4 DEF ToldOf, Starting, Typed
<1>5. ASSUME Refused  PROVE Told'
  <2>1. busy = "constructor" /\ busy' = "refusing" /\ UNCHANGED <<objVars, outcome, told, who>>
    BY <1>5, SeesTyped DEF Refused
  <2> QED
    BY <2>1 DEF ToldOf, Starting
<1>6. ASSUME ConstructorThrows  PROVE Told'
  <2>1. /\ busy = "refusing" /\ who \in alive /\ held[who] # NoPipe
        /\ busy' = "free" /\ alive' = alive \ {who} /\ UNCHANGED <<held, stopped, retval, outcome>>
    BY <1>6 DEF ConstructorThrows, Refuses, Dies, Typed
  <2>2. \A r \in Pipes \ {held[who]} : told'[r] = told[r]
    BY <1>6 DEF ConstructorThrows, Tells, Typed
  <2> QED
    BY <2>1, <2>2 DEF ToldOf, Starting, Typed, Owning
<1>7. ASSUME StopAnswered  PROVE Told'
  <2>1. PICK m \in {"ok", "ko"} :
          /\ Sees("stop", m) /\ retval' = [retval EXCEPT ![who] = (m = "ok")]
          /\ told' = [told EXCEPT ![held[who]] = IF m = "ok" THEN "true" ELSE "false"]
    BY <1>7 DEF StopAnswered, Tells
  <2>2. /\ who \in alive /\ held[who] \in Pipes /\ IsAnswer(held[who], m) /\ busy = "stop"
    BY <2>1, StopTakesAnswer, SeesTyped
  <2>3. outcome[held[who]] # "none" /\ (m = "ok" <=> outcome[held[who]] = "true")
    BY <2>2 DEF IsAnswer, Threads
  <2>4. /\ stopped' = [stopped EXCEPT ![who] = TRUE] /\ busy' = "free" /\ alive' \subseteq alive
        /\ UNCHANGED <<held, outcome>>
    BY <1>7 DEF StopAnswered, Dies
  <2>5. ASSUME NEW o \in alive', o # who  PROVE ToldOf(o)'
    <3>1. held[o] # NoPipe => held[o] # held[who] /\ held[o] \in Pipes
      BY <2>2, <2>4, <2>5 DEF Owning, Typed
    <3>2. /\ UNCHANGED <<held[o], stopped[o], retval[o]>> /\ ~Starting(o) /\ ~Starting(o)'
          /\ held[o] # NoPipe => told'[held[o]] = told[held[o]] /\ outcome'[held[o]] = outcome[held[o]]
      BY <2>1, <2>2, <2>4, <2>5, <3>1 DEF Typed, Starting
    <3> QED
      BY <2>4, <3>2 DEF ToldOf
  <2>6. ToldOf(who)
    BY <2>2
  <2>7. (\A o \in Objects : o = who => ToldOf(o)')
    <3> SUFFICES ASSUME NEW o \in Objects, o = who  PROVE ToldOf(o)'
      OBVIOUS
    <3>1. /\ held'[o] = held[who] /\ stopped'[o] /\ retval'[o] = (m = "ok") /\ ~Starting(o)'
          /\ told'[held[who]] \in {"true", "false"} /\ outcome'[held[who]] = outcome[held[who]]
      BY <2>1, <2>2, <2>4 DEF Typed, Starting
    <3> QED
      BY <2>3, <2>4, <3>1 DEF ToldOf
  <2> QED
    BY <2>4, <2>5, <2>7 DEF Typed
<1>8. ASSUME NEW o \in Objects, NEW p \in Pipes, Construct(o, p)  PROVE Told'
  <2>1. /\ busy = "free" /\ o \notin alive /\ told[p] = "nothing" /\ UNCHANGED <<retval, outcome, told>>
        /\ \A r \in alive : held[r] # p
    BY <1>8 DEF Construct, Threads
  <2>2. CASE UNCHANGED <<alive, held, stopped, eptr, home, pc, ownerVars>>
    BY <2>1, <2>2 DEF ToldOf, Starting
  <2>3. CASE /\ alive' = alive \cup {o} /\ held' = [held EXCEPT ![o] = p]
             /\ stopped' = [stopped EXCEPT ![o] = FALSE] /\ WaitIn("constructor", o, FALSE)
    <3>1. busy' = "constructor" /\ who' = o
      BY <2>3 DEF WaitIn
    <3>2. ToldOf(o)'
      BY <2>1, <2>3, <3>1 DEF ToldOf, Starting, Typed
    <3>3. ASSUME NEW r \in alive  PROVE ToldOf(r)'
      <4>1. /\ UNCHANGED <<held[r], stopped[r], retval[r]>> /\ ~Starting(r) /\ ~Starting(r)'
            /\ UNCHANGED <<told, outcome>> /\ r # o
        BY <2>1, <2>3, <3>1 DEF Starting, Typed
      <4> QED
        BY <4>1 DEF ToldOf
    <3> QED
      BY <2>3, <3>1, <3>2, <3>3
  <2> QED
    BY <1>8, <2>2, <2>3 DEF Construct
<1>9. ASSUME NEW o \in Objects, NEW q \in Objects, MoveConstruct(o, q) \/ MoveAssign(o, q)
      PROVE  Told'
  <2>1. /\ busy = "free" /\ UNCHANGED <<busy, told, outcome>> /\ o \in alive
        /\ alive' \subseteq alive \cup {q}
        /\ held' = [held EXCEPT ![q] = held[o], ![o] = NoPipe]
        /\ stopped' = [stopped EXCEPT ![q] = stopped[o]]
        /\ retval' = [retval EXCEPT ![q] = retval[o]]
    BY <1>9 DEF MoveConstruct, MoveAssign, Gives
  <2>2. ASSUME NEW r \in alive', held'[r] # NoPipe  PROVE ToldOf(r)'
    <3>1. PICK t \in alive : /\ held'[r] = held[t] /\ stopped'[r] = stopped[t] /\ retval'[r] = retval[t]
      <4>1. r # o
        BY <2>1, <2>2 DEF Typed
      <4>2. CASE r = q
        BY <2>1, <4>1, <4>2 DEF Typed
      <4>3. CASE r # q
        BY <2>1, <4>1, <4>3 DEF Typed
      <4> QED
        BY <4>2, <4>3
    <3>2. ~Starting(t) /\ ~Starting(r)'
      BY <2>1 DEF Starting
    <3> QED
      BY <2>1, <2>2, <3>1, <3>2 DEF ToldOf
  <2>3. \A r \in alive' : ToldOf(r)'
    BY <2>2 DEF ToldOf
  <2> QED
    BY <2>1, <2>3
<1>10. ASSUME NEW o \in Objects, Destroy(o) \/ \E block \in BOOLEAN : Stop(o, block)  PROVE Told'
  <2>1. /\ UNCHANGED <<objVars, outcome, told>> /\ busy = "free" /\ busy' \in {"free", "stop"}
        /\ busy' = "stop" => ~stopped[who']
    BY <1>10, StopKeeps
  <2> QED
    BY <2>1 DEF ToldOf, Starting
<1>11. ASSUME NEW o \in Objects, DestroyAtOnce(o)  PROVE Told'
  <2>1. /\ UNCHANGED <<held, stopped, retval, outcome, told, busy>> /\ alive' \subseteq alive /\ busy = "free"
    BY <1>11 DEF DestroyAtOnce, Dies
  <2> QED
    BY <2>1 DEF ToldOf, Starting
<1>12. CASE UNCHANGED vars
  BY <1>12 DEF vars, ToldOf, Starting
<1> QED
  BY <1>1, <1>2, <1>3, <1>4, <1>5, <1>6, <1>7, <1>8, <1>9, <1>10, <1>11, <1>12 DEF Next, Owner, Waits, Talk

(* However actors are moved and stopped, and however their routines end:   *)
(* an actor whose stop() has waited remembers how its routine ended.       *)
THEOREM ActorStopRemembers == Spec => []StopRemembers
<1> DEFINE Inv == Typed /\ Owning /\ Threads /\ Signals /\ Told
<1>1. Init => Inv
  BY TypedInit, OwningInit, ThreadsInit, SignalsInit
<1>2. Inv /\ [Next]_vars => Inv'
  BY TypedNext, OwningNext, ThreadsNext, SignalsNext, ToldNext
<1>3. Inv => StopRemembers
  BY DEF Told, ToldOf, StopRemembers
<1> QED
  BY <1>1, <1>2, <1>3, PTL DEF Spec

-------------------------------------------------------------------------------
(* No thread uses an object after its life. *)

(* No step changes what callers do.                                        *)
LEMMA UseIsKept == [Next]_vars => use' = use
<1> SUFFICES ASSUME Next \/ UNCHANGED vars PROVE use' = use
  BY DEF vars
<1>1. ASSUME NEW p \in Pipes, Routine(p) \/ AfterRoutine(p) \/ Interrupted(p) \/ Reap(p)
      PROVE  use' = use
  BY <1>1, ThreadsKeepOwner DEF Reap
<1>2. ASSUME Waits  PROVE use' = use
  BY <1>2 DEF Waits, Discards, Constructed, Refused, ConstructorThrows, StopAnswered
<1>3. ASSUME NEW o \in Objects, NEW p \in Pipes, Construct(o, p)  PROVE use' = use
  BY <1>3 DEF Construct
<1>4. ASSUME NEW o \in Objects, NEW q \in Objects, MoveConstruct(o, q) \/ MoveAssign(o, q)
      PROVE  use' = use
  BY <1>4 DEF MoveConstruct, MoveAssign
<1>5. ASSUME NEW o \in Objects,
             \/ \E block \in BOOLEAN : Stop(o, block)
             \/ Destroy(o) \/ DestroyAtOnce(o) \/ OwnerTalks(o) \/ OwnerReads(o)
      PROVE  use' = use
  BY <1>5 DEF Stop, Destroy, DestroyAtOnce, OwnerTalks, OwnerReads
<1> QED
  BY <1>1, <1>2, <1>3, <1>4, <1>5 DEF Next, Owner, vars

(* Before the first actor nobody waits.                                    *)
LEMMA AwaitedInit == Init => Awaited
BY DEF Init, Awaited, AwaitedOf

(* An owner that stops waiting in a constructor: its pipe's thread is past *)
(* what it does before the answer.                                         *)
Past(p) == pc[p] \notin {"caught", "locked", "unlocking"} /\ ~Silent(p)

(* Every step keeps an answer on its way to each waiting stop().           *)
LEMMA AwaitedNext ==
  ASSUME Typed, Owning, Threads, Homes, Signals, Awaited, "late" \notin use, [Next]_vars
  PROVE  \A p \in Pipes : AwaitedOf(p)'
<1> USE DEF AwaitedOf, objVars, threadVars, ownerVars
<1>0. \A p \in Pipes : AwaitedOf(p)
  BY DEF Awaited
<1>1. ASSUME NEW p \in Pipes, Routine(p) \/ AfterRoutine(p) \/ Interrupted(p)
      PROVE  \A r \in Pipes : AwaitedOf(r)'
  <2>1. /\ UNCHANGED <<held, home, busy, who>>
        /\ \A r \in Pipes \ {p} : pc'[r] = pc[r] /\ said'[r] = said[r]
    BY <1>1, ThreadsKeepOwner, ThreadMoves
  <2>2. \A o \in Objects : lock'[o] # lock[o] => home[p] = o
    BY <1>1 DEF Routine, Ends, RoutineSignals, RoutineTalks, RoutineReads, RoutineReturns, RoutineThrows,
                AfterRoutine, Answer, Catch, AnswerKo, Unlock, Close, Interrupted, Typed
  <2>3. ASSUME NEW r \in Pipes \ {p}  PROVE AwaitedOf(r)'
    <3>1. pc[r] \in {"locked", "unlocking"} => home[r] \in Objects /\ home[r] # home[p]
      BY <1>0, SentinelsAssumption DEF Homes, Typed
    <3> QED
      BY <1>0, <2>1, <2>2, <3>1
  <2>4. pc[p] \in {"caught", "locked", "unlocking"} => home[p] \in Objects
    BY <1>0 DEF Typed
  <2>5. AwaitedOf(p)'
    <3>1. CASE \E sig \in {"ok", "ko"} : RoutineSignals(p, sig)
      BY <1>0, <2>1, <3>1 DEF RoutineSignals, Typed
    <3>2. CASE RoutineTalks(p) \/ RoutineReads(p)
      BY <1>0, <2>1, <3>2 DEF RoutineTalks, RoutineReads
    <3>3. CASE Ends(p)
      BY <1>0, <2>1, <3>3 DEF Ends, RoutineReturns, RoutineThrows, Go, Typed
    <3>4. CASE Answer(p) \/ Close(p) \/ AnswerKo(p)
      BY <1>0, <2>1, <3>4 DEF Answer, Close, AnswerKo, Go, Typed
    <3>5. CASE Catch(p)
      BY <1>0, <2>1, <2>4, <3>5, SentinelsAssumption DEF Catch, Go, Typed
    <3>6. CASE Unlock(p) \/ Interrupted(p)
      BY <1>0, <2>1, <2>4, <3>6, SentinelsAssumption DEF Unlock, Interrupted, Go, Typed
    <3> QED
      BY <1>1, <3>1, <3>2, <3>3, <3>4, <3>5, <3>6 DEF Routine, AfterRoutine
  <2> QED
    BY <2>3, <2>5
<1>2. ASSUME NEW p \in Pipes, Reap(p)  PROVE \A r \in Pipes : AwaitedOf(r)'
  BY <1>0, <1>2 DEF Reap
<1>3. ASSUME Talk  PROVE \A r \in Pipes : AwaitedOf(r)'
  BY <1>0, <1>3, TalkKeepsAll
<1>4. ASSUME Constructed  PROVE \A r \in Pipes : AwaitedOf(r)'
  <2>0. PICK p \in Pipes : p = held[who]
    BY <1>4, SeesTyped DEF Constructed, Takes
  <2>1. up[p] # <<>> /\ Head(up[p]) = "ok" /\ busy = "constructor"
    BY <1>4, <2>0, SeesTyped DEF Constructed, Takes
  <2>2. Explained(p, 1) /\ up[p][1] = "ok" /\ 1 \in 1..Len(up[p])
    BY <2>1, TailTyped DEF Typed, Signals, SignalsOf
  <2>3. Past(p)
    BY <1>0, <2>2 DEF Past, Silent, Explained, IsAnswer, Threads, Signals, SignalsOf
  <2>4. UNCHANGED <<pc, said, held, home, who, lock>>
    BY <1>4 DEF Constructed
  <2> QED
    BY <1>0, <2>0, <2>3, <2>4 DEF Past, Silent
<1>5. ASSUME Refused  PROVE \A r \in Pipes : AwaitedOf(r)'
  <2>0. PICK p \in Pipes : p = held[who]
    BY <1>5, SeesTyped DEF Refused
  <2>1. up[p] # <<>> /\ Head(up[p]) = "ko"
    BY <1>5, <2>0, SeesTyped DEF Refused
  <2>2. Explained(p, 1) /\ up[p][1] = "ko" /\ 1 \in 1..Len(up[p])
    BY <2>1, TailTyped DEF Typed, Signals, SignalsOf
  <2>3. pc[p] \notin {"caught", "locked"} /\ ~Silent(p)
    BY <1>0, <2>2 DEF Silent, Explained, IsAnswer, Threads, Signals, SignalsOf
  <2>4. UNCHANGED <<pc, said, held, home, who, lock>> /\ busy' = "refusing"
    BY <1>5 DEF Refused
  <2> QED
    BY <1>0, <2>0, <2>3, <2>4 DEF Silent
<1>6. ASSUME ConstructorThrows  PROVE \A r \in Pipes : AwaitedOf(r)'
  <2>1. busy = "refusing" /\ lock[who] = NoPipe /\ UNCHANGED <<pc, said, held, who>>
    BY <1>6 DEF ConstructorThrows, Refuses
  <2>2. \A r \in Pipes : Past(r)
    BY <1>0, <2>1, SentinelsAssumption DEF Past, Silent
  <2> QED
    BY <1>0, <2>1, <2>2 DEF Past, Silent
<1>7. ASSUME StopAnswered  PROVE \A r \in Pipes : AwaitedOf(r)'
  <2>1. busy = "stop" /\ UNCHANGED <<pc, said>>
    BY <1>7, SeesTyped DEF StopAnswered
  <2> QED
    BY <1>0, <2>1
<1>8. ASSUME NEW o \in Objects, NEW p \in Pipes, Construct(o, p)
      PROVE  \A r \in Pipes : AwaitedOf(r)'
  <2>1. /\ busy = "free" /\ pc[p] = "none" /\ UNCHANGED said
    BY <1>8 DEF Construct, Threads
  <2>2. CASE UNCHANGED <<alive, held, stopped, eptr, home, pc, ownerVars>>
    BY <1>0, <2>1, <2>2
  <2>3. CASE /\ held' = [held EXCEPT ![o] = p] /\ home' = [home EXCEPT ![p] = o]
             /\ Go(p, "routine") /\ WaitIn("constructor", o, FALSE)
    BY <1>0, <2>1, <2>3 DEF Go, WaitIn, Typed
  <2> QED
    BY <1>8, <2>2, <2>3 DEF Construct
<1>9. ASSUME NEW o \in Objects, NEW q \in Objects, MoveConstruct(o, q) \/ MoveAssign(o, q)
      PROVE  \A r \in Pipes : AwaitedOf(r)'
  BY <1>0, <1>9 DEF MoveConstruct, MoveAssign
<1>10. ASSUME NEW o \in Objects, Destroy(o) \/ \E block \in BOOLEAN : Stop(o, block)
       PROVE  \A r \in Pipes : AwaitedOf(r)'
  BY <1>0, <1>10, StopKeeps
<1>11. ASSUME NEW o \in Objects, DestroyAtOnce(o)  PROVE \A r \in Pipes : AwaitedOf(r)'
  BY <1>0, <1>11 DEF DestroyAtOnce
<1>12. CASE UNCHANGED vars
  BY <1>0, <1>12 DEF vars
<1> QED
  BY <1>1, <1>2, <1>3, <1>4, <1>5, <1>6, <1>7, <1>8, <1>9, <1>10, <1>11, <1>12 DEF Next, Owner, Waits, Talk

Facts == Typed /\ Owning /\ Threads /\ Homes /\ Signals /\ Told /\ Awaited

(* The invariant behind the theorems.                                      *)
LEMMA FactsInvariant == Spec => []Facts
<1>1. Init => Facts
  BY TypedInit, OwningInit, ThreadsInit, SignalsInit, AwaitedInit DEF Facts
<1>2. Facts /\ [Next]_vars => Facts'
  <2>1. Facts /\ [Next]_vars => Awaited'
    BY UseIsKept, AwaitedNext DEF Facts, Awaited
  <2> QED
    BY <2>1, TypedNext, OwningNext, ThreadsNext, HomesNext, SignalsNext, ToldNext DEF Facts
<1> QED
  BY <1>1, <1>2, PTL DEF Spec

(* Whatever owners do: as long as no routine throws after its start signal, *)
(* the object whose mutex_ and eptr_ a thread uses is alive.               *)
THEOREM ActorNoThreadGoesWild == Spec => []NoThreadGoesWild
<1>1. Facts => NoThreadGoesWild
  BY DEF Facts, Awaited, AwaitedOf, NoThreadGoesWild
<1> QED
  BY <1>1, FactsInvariant, PTL

-------------------------------------------------------------------------------
(* What the owner is told. *)

(* Before the first actor all routines are plain.                          *)
LEMMA PlainInit == Init => PlainStart
BY DEF Init, PlainStart, PlainOf, PlainWait

(* A pipe that no step touches keeps a plain routine.                      *)
LEMMA PlainSame ==
  ASSUME NEW p \in Pipes, PlainOf(p), UNCHANGED <<said[p], outcome[p], told[p], up[p]>>
  PROVE  PlainOf(p)'
BY DEF PlainOf, FirstIsOk, IsFirst

(* The start signal that a routine sends is the first under way. *)
LEMMA PlainOfThread ==
  ASSUME Facts, PlainUse, NEW p \in Pipes, PlainOf(p), Routine(p) \/ AfterRoutine(p) \/ Interrupted(p)
  PROVE  PlainOf(p)'
<1> USE DEF objVars, threadVars
<1>0. Typed /\ Signals /\ Owning /\ (\A r \in Pipes : AwaitedOf(r)) /\ up \in [Pipes -> Seq(Replies)]
  BY DEF Facts, Awaited, PlainUse, Typed
<1>1. told'[p] = told[p]
  BY ThreadsKeepOwner
<1>2. ASSUME NEW m \in Replies, SendUp(p, m)  PROVE FirstIsOk(p) => FirstIsOk(p)'
  <2> SUFFICES ASSUME NEW i \in 1..Len(up[p]), up[p][i] = "ok", IsFirst(p, i)  PROVE FirstIsOk(p)'
    BY DEF FirstIsOk
  <2>1. \A k \in 1..Len(up[p]) : k \in 1..Len(up'[p]) /\ up'[p][k] = up[p][k]
    BY <1>0, <1>2, SendUpExtends
  <2>2. \A j \in 1..i - 1 : j \in 1..Len(up[p])
    BY <1>0
  <2>3. IsFirst(p, i)'
    BY <2>1, <2>2 DEF IsFirst
  <2> QED
    BY <2>1, <2>3 DEF FirstIsOk
<1>3. CASE \E sig \in {"ok", "ko"} : RoutineSignals(p, sig)
  <2>1. RoutineSignals(p, "ok") /\ Silent(p)
    BY <1>3 DEF RoutineSignals, PlainUse, Silent
  <2>2. parentEnd[p] = "open" /\ told[p] = "nothing" /\ \A i \in 1..Len(up[p]) : up[p][i] = "msg"
    BY <1>0, <2>1, SentinelsAssumption DEF AwaitedOf, Silent, Owning, Signals, SignalsOf, Typed
  <2>0. PICK n \in Nat : n = Len(up[p]) + 1
    BY <1>0
  <2>3. /\ n \in 1..Len(up'[p]) /\ up'[p][n] = "ok"
        /\ \A k \in 1..Len(up[p]) : up'[p][k] = up[p][k]
    BY <1>0, <2>0, <2>1, <2>2, SendUpExtends DEF RoutineSignals, Replies
  <2>4. n - 1 = Len(up[p])
    BY <1>0, <2>0
  <2>5. IsFirst(p, n)'
    BY <2>2, <2>3, <2>4 DEF IsFirst
  <2>6. FirstIsOk(p)'
    BY <2>3, <2>5 DEF FirstIsOk
  <2>7. said'[p] = "ok" /\ outcome'[p] = outcome[p] /\ outcome[p] = "none"
    BY <1>0, <2>1 DEF RoutineSignals, Silent, Typed, Threads, Facts
  <2> QED
    BY <1>1, <2>2, <2>6, <2>7 DEF PlainOf
<1>4. CASE RoutineTalks(p) \/ Answer(p) \/ AnswerKo(p)
  <2>1. FirstIsOk(p) => FirstIsOk(p)'
    BY <1>2, <1>4 DEF RoutineTalks, Answer, AnswerKo, Replies
  <2> QED
    BY <1>1, <1>4, <2>1 DEF RoutineTalks, Answer, AnswerKo, PlainOf
<1>5. CASE Ends(p)
  <2>1. UNCHANGED <<said, up>>
    BY <1>5 DEF Ends, RoutineReturns, RoutineThrows
  <2>2. FirstIsOk(p) => FirstIsOk(p)'
    BY <2>1 DEF FirstIsOk, IsFirst
  <2>3. /\ outcome'[p] = "true" => said[p] = "ok"
        /\ outcome'[p] = "thrown" => said[p] = "nothing"
    BY <1>0, <1>5 DEF Ends, RoutineReturns, RoutineThrows, PlainUse, Typed
  <2> QED
    BY <1>1, <2>1, <2>2, <2>3 DEF PlainOf
<1>6. CASE RoutineReads(p) \/ Catch(p) \/ Unlock(p) \/ Close(p) \/ Interrupted(p)
  BY <1>1, <1>6 DEF RoutineReads, Catch, Unlock, Close, Interrupted, PlainOf, FirstIsOk, IsFirst
<1> QED
  BY <1>3, <1>4, <1>5, <1>6 DEF Routine, AfterRoutine

(* No thread's step disturbs a constructor that waits.                     *)
LEMMA PlainWaitThread ==
  ASSUME Facts, PlainWait, NEW p \in Pipes, Routine(p) \/ AfterRoutine(p) \/ Interrupted(p)
  PROVE  PlainWait'
<1> USE DEF objVars, threadVars, ownerVars
<1>0. Typed /\ Threads /\ Homes
  BY DEF Facts
<1>1. UNCHANGED <<held, busy, who>> /\ \A r \in Pipes \ {p} : pc'[r] = pc[r] /\ outcome'[r] = outcome[r]
                                                      /\ said'[r] = said[r]
  BY <1>0, ThreadsKeepOwner, ThreadMoves
<1>2. busy # "free" => held[who] \in Pipes /\ who \in alive
  BY <1>0 DEF Typed
<1>3. ASSUME busy \in {"constructor", "refusing"}  PROVE home[held[who]] = who
  BY <1>0, <1>2, <1>3 DEF Homes, Starting
<1>4. CASE Catch(p)
  <2>1. /\ pc[p] = "caught" /\ pc'[p] # "caught" /\ outcome[p] = "thrown" /\ UNCHANGED <<outcome, said>>
        /\ IF home[p] = Gone THEN UNCHANGED eptr ELSE eptr' = [eptr EXCEPT ![home[p]] = TRUE]
    BY <1>0, <1>4 DEF Catch, Go, Threads, Typed
  <2>2. CASE held[who] = p
    BY <1>1, <1>2, <1>3, <2>1, <2>2, <1>0, SentinelsAssumption DEF PlainWait, Typed
  <2>3. CASE held[who] # p
    <3>1. busy \in {"constructor", "refusing"} => eptr'[who] = eptr[who]
      BY <1>0, <1>2, <1>3, <2>1, <2>3, SentinelsAssumption DEF Homes, Typed
    <3> QED
      BY <1>1, <1>2, <2>1, <2>3, <3>1 DEF PlainWait
  <2> QED
    BY <2>2, <2>3
<1>5. CASE Routine(p)
  <2>1. /\ pc[p] = "routine" /\ outcome[p] = "none" /\ UNCHANGED eptr
        /\ outcome'[p] = "thrown" => pc'[p] = "caught"
    BY <1>0, <1>5 DEF Routine, Ends, RoutineSignals, RoutineTalks, RoutineReads, RoutineReturns, RoutineThrows,
                Threads, Go, Typed
  <2> QED
    BY <1>1, <1>2, <2>1 DEF PlainWait
<1>6. CASE Answer(p) \/ AnswerKo(p) \/ Unlock(p) \/ Close(p) \/ Interrupted(p)
  <2>1. UNCHANGED <<eptr, outcome, said>> /\ pc[p] # "caught" /\ pc'[p] # "caught"
    BY <1>0, <1>6 DEF Typed, Answer, AnswerKo, Unlock, Close, Interrupted, Go
  <2> QED
    BY <1>1, <1>2, <2>1 DEF PlainWait
<1> QED
  BY <1>4, <1>5, <1>6 DEF AfterRoutine

(* The signal ko that a constructor takes is the answer of a routine that  *)
(* failed before its start; ok says that it started.                       *)
LEMMA ConstructorTakes ==
  ASSUME Facts, NEW m \in {"ok", "ko"}, Sees("constructor", m), NEW p \in Pipes, p = held[who], PlainOf(p)
  PROVE  /\ told[p] = "nothing"
         /\ m = "ok" => said[p] = "ok"
         /\ m = "ko" => /\ said[p] = "nothing" /\ outcome[p] \in {"false", "thrown"} /\ pc[p] # "caught"
<1>0. Typed /\ Told /\ Signals /\ Threads
  BY DEF Facts
<1>1. up[p] # <<>> /\ Head(up[p]) = m /\ busy = "constructor" /\ who \in alive
  BY <1>0, SeesTyped
<1>2. told[p] = "nothing"
  BY <1>0, <1>1, SentinelsAssumption DEF Told, ToldOf, Starting
<1>3. Explained(p, 1) /\ up[p][1] = m /\ 1 \in 1..Len(up[p])
  <2>1. up[p][1] = m /\ 1 \in 1..Len(up[p])
    BY <1>0, <1>1, TailTyped DEF Typed
  <2> QED
    BY <1>0, <2>1 DEF Signals, SignalsOf
<1>4. FirstIsOk(p) => m = "ok"
  <2> SUFFICES ASSUME NEW i \in 1..Len(up[p]), up[p][i] = "ok", IsFirst(p, i), m = "ko" PROVE FALSE
    BY DEF FirstIsOk
  <2>1. i = 1
    BY <1>3 DEF IsFirst
  <2> QED
    BY <1>3, <2>1
<1>5. \/ IsAnswer(p, m)
      \/ said[p] = m
  BY <1>3 DEF Explained
<1> QED
  BY <1>0, <1>2, <1>4, <1>5 DEF PlainOf, IsAnswer, Threads, Typed, Endings

(* Every step keeps plain routines plain.                                  *)
LEMMA PlainNext ==
  ASSUME Facts, Facts', PlainUse, PlainWait, \A p \in Pipes : PlainOf(p), [Next]_vars
  PROVE  PlainWait' /\ \A p \in Pipes : PlainOf(p)'
<1> DEFINE Goal == PlainWait' /\ \A p \in Pipes : PlainOf(p)'
<1> USE DEF objVars, threadVars, ownerVars
<1>0. Typed /\ Owning /\ Threads /\ Told /\ Typed'
  BY DEF Facts
<1>1. ASSUME NEW p \in Pipes, Routine(p) \/ AfterRoutine(p) \/ Interrupted(p)  PROVE Goal
  <2>1. \A r \in Pipes \ {p} : UNCHANGED <<said[r], outcome[r], told[r], up[r]>>
    BY <1>0, <1>1, ThreadMoves, ThreadsKeepOwner
  <2> QED
    BY <1>1, <2>1, PlainSame, PlainOfThread, PlainWaitThread
<1>2. ASSUME NEW p \in Pipes, Reap(p)  PROVE Goal
  BY <1>2, PlainSame DEF Reap, PlainWait
<1>3. ASSUME Talk  PROVE Goal
  <2>1. UNCHANGED <<objVars, threadVars, parentEnd, ownerVars, told>>
    BY <1>3, TalkKeepsAll
  <2>2. PlainWait'
    BY <2>1 DEF PlainWait
  <2>3. ASSUME NEW p \in Pipes, up[p] # <<>>, Head(up[p]) = "msg", up' = [up EXCEPT ![p] = Tail(@)]
        PROVE  \A r \in Pipes : PlainOf(r)'
    <3>1. /\ Len(up[p]) \in Nat \ {0} /\ Len(up'[p]) = Len(up[p]) - 1
          /\ \A i \in 1..Len(up'[p]) : up'[p][i] = up[p][i + 1]
          /\ up[p][1] = "msg" /\ \A r \in Pipes \ {p} : up'[r] = up[r]
      BY <1>0, <2>3, TailTyped DEF Typed
    <3>2. FirstIsOk(p) => FirstIsOk(p)'
      <4> SUFFICES ASSUME NEW i \in 1..Len(up[p]), up[p][i] = "ok", IsFirst(p, i)  PROVE FirstIsOk(p)'
        BY DEF FirstIsOk
      <4>1. i - 1 \in 1..Len(up'[p]) /\ up'[p][i - 1] = "ok"
        BY <3>1
      <4>2. \A j \in 1..i - 1 - 1 : /\ j \in 1..Len(up'[p])
                                  /\ up'[p][j] = "msg"
        <5> SUFFICES ASSUME NEW j \in 1..i - 1 - 1 PROVE j \in 1..Len(up'[p]) /\ up'[p][j] = "msg"
          OBVIOUS
        <5>1. j \in 1..Len(up'[p]) /\ j + 1 \in 1..i - 1
          BY <3>1
        <5> QED
          BY <3>1, <5>1 DEF IsFirst
      <4> QED
        BY <4>1, <4>2 DEF FirstIsOk, IsFirst
    <3>3. PlainOf(p)'
      BY <2>1, <3>2 DEF PlainOf
    <3> QED
      BY <2>1, <3>1, <3>3, PlainSame
  <2>4. CASE UNCHANGED up
    BY <2>1, <2>2, <2>4, PlainSame
  <2>5. CASE Discards
    <3>1. PICK call \in {"constructor", "stop"} : Takes(call, "msg")
      BY <2>5 DEF Discards
    <3>2. PICK p \in Pipes : p = held[who]
      BY <1>0, <3>1, SeesTyped DEF Takes
    <3>3. up[p] # <<>> /\ Head(up[p]) = "msg" /\ up' = [up EXCEPT ![p] = Tail(@)]
      BY <1>0, <3>1, <3>2, SeesTyped DEF Takes
    <3> QED
      BY <2>2, <2>3, <3>3
  <2>6. ASSUME NEW o \in Objects, OwnerReads(o)  PROVE Goal
    <3>1. PICK p \in Pipes : p = held[o]
      BY <1>0, <2>6 DEF OwnerReads, Typed
    <3>2. up[p] # <<>> /\ Head(up[p]) = "msg" /\ up' = [up EXCEPT ![p] = Tail(@)]
      BY <2>6, <3>1 DEF OwnerReads
    <3> QED
      BY <2>2, <2>3, <3>2
  <2> QED
    BY <1>3, <2>4, <2>5, <2>6 DEF Talk, OwnerTalks
<1>4. ASSUME Constructed  PROVE Goal
  <2>0. PICK p \in Pipes : p = held[who]
    BY <1>0, <1>4, SeesTyped DEF Constructed, Takes
  <2>1. said[p] = "ok"
    BY <1>4, <2>0, ConstructorTakes DEF Constructed, Takes
  <2>2. /\ busy' = "free" /\ UNCHANGED <<said, outcome>> /\ told' = [told EXCEPT ![p] = "constructed"]
        /\ up' = [up EXCEPT ![p] = Tail(@)]
    BY <1>4, <2>0 DEF Constructed, Takes, Tells
  <2>3. PlainOf(p)'
    BY <1>0, <2>1, <2>2 DEF PlainOf, Typed
  <2>4. \A r \in Pipes \ {p} : PlainOf(r)'
    BY <1>0, <2>2, PlainSame DEF Typed
  <2> QED
    BY <2>2, <2>3, <2>4 DEF PlainWait
<1>5. ASSUME Refused  PROVE Goal
  <2>0. PICK p \in Pipes : p = held[who]
    BY <1>0, <1>5, SeesTyped DEF Refused
  <2>1. said[p] = "nothing" /\ outcome[p] \in {"false", "thrown"} /\ pc[p] # "caught"
    BY <1>5, <2>0, ConstructorTakes DEF Refused
  <2>2. /\ busy = "constructor" /\ UNCHANGED <<objVars, threadVars, who, told>>
        /\ \A r \in Pipes \ {p} : up'[r] = up[r]
    BY <1>0, <1>5, <2>0, SeesTyped DEF Refused, CloseParentEnd, Typed
  <2>3. PlainWait'
    BY <2>0, <2>1, <2>2 DEF PlainWait
  <2>4. PlainOf(p)'
    BY <2>1, <2>2 DEF PlainOf
  <2> QED
    BY <2>2, <2>3, <2>4, PlainSame
<1>6. ASSUME ConstructorThrows  PROVE Goal
  <2>1. /\ busy' = "free" /\ UNCHANGED <<said, outcome, up>>
        /\ \A r \in Pipes : told'[r] = told[r] \/ told'[r] \in {"nested", "refused"}
    BY <1>0, <1>6 DEF ConstructorThrows, Tells, Typed
  <2> QED
    BY <2>1 DEF PlainWait, PlainOf, FirstIsOk, IsFirst
<1>7. ASSUME StopAnswered  PROVE Goal
  <2>0. PICK p \in Pipes : p = held[who]
    BY <1>0, <1>7, SeesTyped DEF StopAnswered
  <2>1. told[p] = "constructed"
    BY <1>7, <2>0, StopTakesAnswer DEF StopAnswered, Facts
  <2>2. /\ busy' = "free" /\ UNCHANGED <<said, outcome>>
        /\ told'[p] \in {"true", "false"}
        /\ \A r \in Pipes \ {p} : told'[r] = told[r] /\ up'[r] = up[r]
    BY <1>0, <1>7, <2>0 DEF StopAnswered, Tells, CloseParentEnd, Typed
  <2>3. PlainOf(p)'
    BY <2>1, <2>2 DEF PlainOf
  <2> QED
    BY <2>2, <2>3, PlainSame DEF PlainWait
<1>8. ASSUME NEW o \in Objects, NEW p \in Pipes, Construct(o, p)  PROVE Goal
  <2>1. busy = "free" /\ UNCHANGED <<said, outcome, up, told>> /\ outcome[p] = "none"
    BY <1>0, <1>8 DEF Construct, Threads
  <2>2. PlainWait'
    <3>1. \/ UNCHANGED busy
          \/ /\ busy' = "constructor" /\ who' = o /\ held' = [held EXCEPT ![o] = p]
             /\ eptr' = [eptr EXCEPT ![o] = FALSE]
      BY <1>8 DEF Construct, WaitIn
    <3> QED
      BY <1>0, <2>1, <3>1 DEF PlainWait, Typed
  <2> QED
    BY <2>1, <2>2, PlainSame
<1>9. ASSUME NEW o \in Objects, NEW q \in Objects, MoveConstruct(o, q) \/ MoveAssign(o, q)
      PROVE  Goal
  <2>1. busy' = "free" /\ UNCHANGED <<said, outcome, up, told>>
    BY <1>9 DEF MoveConstruct, MoveAssign
  <2> QED
    BY <2>1, PlainSame DEF PlainWait
<1>10. ASSUME NEW o \in Objects, Destroy(o) \/ \E block \in BOOLEAN : Stop(o, block)  PROVE Goal
  <2>1. busy' \in {"free", "stop"} /\ UNCHANGED <<said, outcome, up, told>>
    BY <1>10, StopKeeps
  <2> QED
    BY <2>1, PlainSame DEF PlainWait
<1>11. ASSUME NEW o \in Objects, DestroyAtOnce(o)  PROVE Goal
  <2>1. busy = "free" /\ busy' = "free" /\ UNCHANGED <<said, outcome, told>> /\ o \in alive
    BY <1>11 DEF DestroyAtOnce
  <2>2. ASSUME NEW r \in Pipes  PROVE told[r] # "nothing" \/ up'[r] = up[r]
    BY <1>0, <1>11 DEF DestroyAtOnce, CloseParentEnd, Told, ToldOf, Starting, Typed
  <2> QED
    BY <2>1, <2>2 DEF PlainWait, PlainOf, FirstIsOk, IsFirst
<1>12. CASE UNCHANGED vars
  BY <1>12, PlainSame DEF vars, PlainWait
<1> QED
  BY <1>1, <1>2, <1>3, <1>4, <1>5, <1>6, <1>7, <1>8, <1>9, <1>10, <1>11, <1>12 DEF Next, Owner, Waits, Talk

(* How far a routine is, as ActorPromise has it. *)
RunOf(p) == IF pc[p] = "none" THEN "none" ELSE IF outcome[p] = "none" THEN "running" ELSE outcome[p]
Run == [p \in Pipes |-> RunOf(p)]
Started == {p \in Pipes : said[p] = "ok"}

(* The steps of ActorPromise, in terms of the actor. *)
LEMMA PromiseSteps ==
  ASSUME Typed, NEW p \in Pipes
  PROVE  /\ UNCHANGED <<Run, Started, told>> => UNCHANGED Promise!pvars
         /\ RunOf(p) = "none" /\ Run' = [Run EXCEPT ![p] = "running"] /\ UNCHANGED <<Started, told>>
              => Promise!PNext
         /\ RunOf(p) = "running" /\ p \notin Started /\ Started' = Started \cup {p}
              /\ UNCHANGED <<Run, told>> => Promise!PNext
         /\ \A how \in Endings :
              RunOf(p) = "running" /\ (how = "true" => p \in Started) /\ (how = "thrown" => p \notin Started)
                /\ Run' = [Run EXCEPT ![p] = how] /\ UNCHANGED <<Started, told>> => Promise!PNext
         /\ told[p] = "nothing" /\ p \in Started /\ told' = [told EXCEPT ![p] = "constructed"]
              /\ UNCHANGED <<Run, Started>> => Promise!PNext
         /\ told[p] = "nothing" /\ p \notin Started /\ RunOf(p) \in {"false", "thrown"}
              /\ told' = [told EXCEPT ![p] = IF RunOf(p) = "false" THEN "refused" ELSE "nested"]
              /\ UNCHANGED <<Run, Started>> => Promise!PNext
         /\ told[p] = "constructed" /\ RunOf(p) \in {"true", "false"}
              /\ told' = [told EXCEPT ![p] = RunOf(p)]
              /\ UNCHANGED <<Run, Started>> => Promise!PNext
BY DEF Run, Started, RunOf, Endings, Promise!PNext, Promise!pvars, Promise!Begin, Promise!StartUp,
       Promise!End, Promise!Tell, Promise!ConstructorReturns, Promise!ConstructorThrows, Promise!StopAnswers

(* Every step is one of the promise, or none.                              *)
LEMMA PromiseNext ==
  ASSUME Facts, PlainUse, PlainWait, \A p \in Pipes : PlainOf(p), [Next]_vars
  PROVE  Promise!PNext \/ UNCHANGED Promise!pvars
<1> DEFINE Goal == Promise!PNext \/ UNCHANGED Promise!pvars
<1> USE DEF objVars, threadVars, ownerVars
<1>0. Typed /\ Threads /\ Owning /\ Told
  BY DEF Facts
<1>a. ASSUME UNCHANGED <<pc, outcome, said, told>>  PROVE Goal
  BY <1>0, <1>a DEF Promise!pvars
<1>1. ASSUME NEW p \in Pipes, Routine(p)  PROVE Goal
  <2>0. told' = told /\ pc[p] = "routine" /\ outcome[p] = "none"
    BY <1>0, <1>1, ThreadsKeepOwner DEF Routine, Ends, RoutineSignals, RoutineTalks, RoutineReads,
                                       RoutineReturns, RoutineThrows, Threads
  <2>1. RunOf(p) = "running"
    BY <2>0 DEF RunOf
  <2>2. CASE \E sig \in {"ok", "ko"} : RoutineSignals(p, sig)
    <3>1. RoutineSignals(p, "ok")
      BY <2>2 DEF RoutineSignals, PlainUse
    <3>2. UNCHANGED Run /\ said[p] = "nothing" /\ said' = [said EXCEPT ![p] = "ok"]
      BY <3>1 DEF RoutineSignals, Run, RunOf
    <3>3. p \notin Started /\ Started' = Started \cup {p}
      BY <1>0, <3>2 DEF Started, Typed
    <3> QED
      BY <1>0, <2>0, <2>1, <3>2, <3>3, PromiseSteps
  <2>3. CASE RoutineTalks(p) \/ RoutineReads(p)
    BY <1>a, <2>0, <2>3 DEF RoutineTalks, RoutineReads
  <2>4. ASSUME NEW how \in Endings, outcome' = [outcome EXCEPT ![p] = how], UNCHANGED said,
               pc'[p] # "none", \A r \in Pipes \ {p} : pc'[r] = pc[r],
               how = "true" => said[p] = "ok", how = "thrown" => said[p] = "nothing"
        PROVE  Goal
    <3>1. Run' = [Run EXCEPT ![p] = how]
      BY <1>0, <2>4 DEF Run, RunOf, Typed, Endings
    <3>2. (how = "true" => p \in Started) /\ (how = "thrown" => p \notin Started) /\ UNCHANGED Started
      BY <2>4 DEF Started
    <3> QED
      BY <1>0, <2>0, <2>1, <2>4, <3>1, <3>2, PromiseSteps
  <2>5. CASE RoutineThrows(p)
    <3>1. said[p] = "nothing"
      BY <2>5 DEF RoutineThrows, PlainUse
    <3> QED
      BY <1>0, <2>4, <2>5, <3>1 DEF RoutineThrows, Endings, Go, Typed
  <2>6. ASSUME NEW how \in {"true", "false"}, RoutineReturns(p, how)  PROVE Goal
    <3>1. how = "true" => said[p] = "ok"
      BY <2>6 DEF RoutineReturns, PlainUse
    <3> QED
      BY <1>0, <2>4, <2>6, <3>1 DEF RoutineReturns, Endings, Go, Typed
  <2> QED
    BY <1>1, <2>2, <2>3, <2>5, <2>6 DEF Routine, Ends
<1>2. ASSUME NEW p \in Pipes, AfterRoutine(p) \/ Interrupted(p)  PROVE Goal
  <2>1. UNCHANGED <<outcome, said, told>>
    BY <1>2 DEF AfterRoutine, Answer, Catch, AnswerKo, Unlock, Close, Interrupted
  <2>2. UNCHANGED Run
    BY <1>0, <1>2, <2>1, ThreadMoves DEF Run, RunOf
  <2> QED
    BY <1>0, <1>2, <2>1, <2>2, PromiseSteps DEF Started
<1>3. ASSUME Talk \/ Refused \/ \E p \in Pipes : Reap(p)  PROVE Goal
  BY <1>a, <1>3, TalkKeepsAll DEF Refused, Reap
<1>4. ASSUME Constructed  PROVE Goal
  <2>0. PICK p \in Pipes : p = held[who]
    BY <1>0, <1>4, SeesTyped DEF Constructed, Takes
  <2>1. said[p] = "ok" /\ told[p] = "nothing"
    BY <1>4, <2>0, ConstructorTakes DEF Constructed, Takes
  <2>2. told' = [told EXCEPT ![p] = "constructed"] /\ UNCHANGED <<Run, Started>>
    BY <1>4, <2>0 DEF Constructed, Tells, Run, RunOf, Started
  <2> QED
    BY <1>0, <2>1, <2>2, PromiseSteps DEF Started
<1>5. ASSUME ConstructorThrows  PROVE Goal
  <2>0. PICK p \in Pipes : p = held[who]
    BY <1>0, <1>5 DEF ConstructorThrows, Refuses, Typed
  <2>1. busy = "refusing" /\ who \in alive
    BY <1>0, <1>5 DEF ConstructorThrows, Refuses, Typed
  <2>2. told[p] = "nothing" /\ said[p] = "nothing" /\ outcome[p] \in {"false", "thrown"}
    BY <1>0, <2>0, <2>1, SentinelsAssumption DEF PlainWait, Told, ToldOf, Starting
  <2>3. eptr[who] <=> outcome[p] = "thrown"
    BY <2>0, <2>1 DEF PlainWait
  <2>4. RunOf(p) = outcome[p]
    BY <1>0, <2>2 DEF RunOf, Threads
  <2>5. told' = [told EXCEPT ![p] = IF RunOf(p) = "false" THEN "refused" ELSE "nested"]
    BY <1>5, <2>0, <2>2, <2>3, <2>4 DEF ConstructorThrows, Tells
  <2>6. UNCHANGED <<Run, Started>>
    BY <1>5 DEF ConstructorThrows, Run, RunOf, Started
  <2> QED
    BY <1>0, <2>2, <2>4, <2>5, <2>6, PromiseSteps DEF Started
<1>6. ASSUME StopAnswered  PROVE Goal
  <2>0. PICK p \in Pipes : p = held[who]
    BY <1>0, <1>6, SeesTyped DEF StopAnswered
  <2>1. PICK m \in {"ok", "ko"} :
          Sees("stop", m) /\ told' = [told EXCEPT ![p] = IF m = "ok" THEN "true" ELSE "false"]
    BY <1>6, <2>0 DEF StopAnswered, Tells
  <2>2. told[p] = "constructed" /\ IsAnswer(p, m)
    BY <2>0, <2>1, StopTakesAnswer DEF Facts
  <2>3. outcome[p] \in {"true", "false"} /\ (m = "ok" <=> outcome[p] = "true")
    BY <1>0, <2>2 DEF IsAnswer, PlainOf, Threads, Typed, Endings
  <2>4. RunOf(p) = outcome[p]
    BY <1>0, <2>2, <2>3 DEF RunOf, IsAnswer
  <2>5. told' = [told EXCEPT ![p] = RunOf(p)]
    BY <2>1, <2>3, <2>4
  <2>6. UNCHANGED <<Run, Started>>
    BY <1>6 DEF StopAnswered, Run, RunOf, Started
  <2> QED
    BY <1>0, <2>2, <2>3, <2>4, <2>5, <2>6, PromiseSteps
<1>7. ASSUME NEW o \in Objects, NEW p \in Pipes, Construct(o, p)  PROVE Goal
  <2>1. UNCHANGED <<said, outcome, told>> /\ pc[p] = "none" /\ outcome[p] = "none"
    BY <1>0, <1>7 DEF Construct, Threads
  <2>2. CASE UNCHANGED pc
    BY <1>a, <2>1, <2>2
  <2>3. CASE Go(p, "routine")
    <3>1. RunOf(p) = "none" /\ Run' = [Run EXCEPT ![p] = "running"] /\ UNCHANGED Started
      BY <1>0, <2>1, <2>3 DEF Run, RunOf, Go, Started, Typed
    <3> QED
      BY <1>0, <2>1, <3>1, PromiseSteps
  <2> QED
    BY <1>7, <2>2, <2>3 DEF Construct
<1>8. ASSUME NEW o \in Objects,
             \/ \E q \in Objects : MoveConstruct(o, q) \/ MoveAssign(o, q)
             \/ \E block \in BOOLEAN : Stop(o, block)
             \/ Destroy(o) \/ DestroyAtOnce(o)
      PROVE  Goal
  BY <1>a, <1>8 DEF MoveConstruct, MoveAssign, Stop, Destroy, DestroyAtOnce
<1>9. CASE UNCHANGED vars
  BY <1>a, <1>9 DEF vars
<1> QED
  BY <1>1, <1>2, <1>3, <1>4, <1>5, <1>6, <1>7, <1>8, <1>9 DEF Next, Owner, Waits, Talk

(* An actor begins as ActorPromise does, and when routines signal their    *)
(* start once and neither signal nor throw otherwise, every step of an     *)
(* actor is one that ActorPromise allows.  The constructor returns after   *)
(* the start signal and throws, with the routine's exception nested, when  *)
(* there is none; stop() and the destructor answer how the routine ended,  *)
(* after it did (actor.cpp:24-130).                                        *)
THEOREM ActorKeepsPromise == Spec => Promise!PInit /\ KeepsPromise
<1>1. Spec => []Facts
  BY FactsInvariant
<1>2. Init => PlainStart
  BY PlainInit
<1>3. Facts /\ Facts' /\ PlainStart /\ [Next]_vars => PlainStart'
  <2> SUFFICES ASSUME Facts, Facts', PlainStart, [Next]_vars, PlainUse'
               PROVE  PlainWait' /\ \A p \in Pipes : PlainOf(p)'
    BY DEF PlainStart
  <2>1. PlainUse
    BY UseIsKept DEF PlainUse
  <2> QED
    BY <2>1, PlainNext DEF PlainStart
<1>4. Facts /\ PlainStart /\ [Next]_vars =>
        [PlainUse => Promise!PNext \/ UNCHANGED Promise!pvars]_vars
  BY PromiseNext DEF PlainStart
<1>5. Spec => []PlainStart
  BY <1>1, <1>2, <1>3, PTL DEF Spec
<1>6. Init => Promise!PInit
  BY DEF Init, Promise!PInit
<1> QED
  BY <1>1, <1>4, <1>5, <1>6, PTL DEF Spec, KeepsPromise, PlainUse
===============================================================================
