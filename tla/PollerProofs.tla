----------------------------- MODULE PollerProofs -----------------------------
(***************************************************************************)
(* Theorems about zmqpp::poller for every set of sockets, descriptors and  *)
(* masks and every bound on the vector, and about the command line client  *)
(* that uses one.                                                          *)
(***************************************************************************)
EXTENDS Client, PollTableProofs

(* What the calls answer is an answer. *)
LEMMA AnswersTyped ==
  /\ Done \in Answers /\ Thrown \in Answers
  /\ \A b \in BOOLEAN : Bool(b) \in Answers
  /\ \A e \in SUBSET Flags : Report(e) \in Answers
BY DEF Done, Thrown, Bool, Report, Answers

(* The revents of a position that has an entry are flags. *)
LEMMA EventsTyped ==
  ASSUME NEW p \in Pollers, Sound(p), NEW k \in Keys, PollerHas(p, k)
  PROVE  /\ p.index[k] \in 1..Len(p.items)
         /\ PollerEvents(p, k) \in SUBSET Flags
<1>1. p.items \in Seq(Item) /\ p.index \in [Keys -> Nat]
  BY DEF Pollers
<1>2. p.index[k] \in 1..Len(p.items)
  BY <1>1 DEF Sound, PollerHas, Absent
<1> QED
  BY <1>1, <1>2, ItemFields DEF PollerEvents

(* What zmq_poll writes, all of it or a prefix, is a vector of flags. *)
LEMMA RaisedTyped ==
  ASSUME poller \in Pollers, NEW rev \in Readiness(poller), NEW n \in 0..Len(poller.items)
  PROVE  /\ rev \in [DOMAIN poller.items -> SUBSET Flags]
         /\ [i \in DOMAIN poller.items |->
               IF i <= n THEN rev[i] ELSE poller.items[i].revents]
              \in [DOMAIN poller.items -> SUBSET Flags]
<1>1. poller.items \in Seq(Item)
  BY DEF Pollers
<1>2. \A i \in DOMAIN poller.items : poller.items[i].revents \in SUBSET Flags
  BY <1>1, ItemFields
<1> QED
  BY <1>2, ReadinessIs

(* The inductive invariant: the types, and entries that are sound.  A type *)
(* alone is not inductive, since remove() stores an entry's position.      *)
IInv == TypeOK /\ IndexSound

(* The poller starts typed. *)
LEMMA InitIInv == Init => IInv
BY EmptyWellFormed, AnswersTyped, MaxItemsIsNat DEF Init, IInv, TypeOK, IndexSound, EmptyPoller

(* Every call keeps the items and the index of their types and in step.    *)
LEMMA NextIInv == IInv /\ [Next]_vars => IInv'
<1> SUFFICES ASSUME IInv, [Next]_vars PROVE IInv'
  OBVIOUS
<1> USE AnswersTyped
<1>0. /\ poller \in Pollers /\ Sound(poller) /\ answer \in Answers
      /\ Len(poller.items) \in Nat /\ Len(poller.items) <= MaxItems
  BY DEF IInv, TypeOK, IndexSound, Pollers
<1>1. ASSUME NEW k \in Keys, NEW mask \in Masks, Add(k, mask)  PROVE IInv'
  <2>1. PollerAdd(poller, k, mask) \in Pollers /\ Sound(PollerAdd(poller, k, mask))
    BY <1>0, AddWellFormed, MasksAreFlags
  <2>2. Len(PollerAdd(poller, k, mask).items) = Len(poller.items) + 1
    BY <1>0 DEF PollerAdd, Pollers
  <2> QED
    BY <1>0, <1>1, <2>1, <2>2, MaxItemsIsNat DEF Add, IInv, TypeOK, IndexSound
<1>2. ASSUME NEW k \in Keys, NEW mask \in Masks, CheckFor(k, mask)  PROVE IInv'
  BY <1>0, <1>2, CheckForWellFormed, MasksAreFlags DEF CheckFor, IInv, TypeOK, IndexSound
<1>3. ASSUME NEW k \in Keys, Has(k)  PROVE IInv'
  BY <1>0, <1>3 DEF Has, IInv, TypeOK, IndexSound, PollerHas
<1>4. ASSUME NEW k \in Keys, Remove(k)  PROVE IInv'
  <2>1. /\ PollerRemove(poller, k) \in Pollers /\ Sound(PollerRemove(poller, k))
        /\ Len(PollerRemove(poller, k).items) <= Len(poller.items)
    BY <1>0, RemoveWellFormed
  <2>2. Len(PollerRemove(poller, k).items) \in Nat
    BY <2>1 DEF Pollers
  <2> QED
    BY <1>0, <1>4, <2>1, <2>2, MaxItemsIsNat DEF Remove, IInv, TypeOK, IndexSound
<1>5. ASSUME NEW k \in Keys, Events(k)  PROVE IInv'
  BY <1>0, <1>5, EventsTyped DEF Events, IInv, TypeOK, IndexSound
<1>6. ASSUME Poll  PROVE IInv'
  <2>1. PICK rev \in Readiness(poller) :
          /\ poller' = PollerRaise(poller, rev)
          /\ answer' = Bool(\E i \in DOMAIN poller.items : rev[i] # {})
    BY <1>6 DEF Poll
  <2>2. rev \in [DOMAIN poller.items -> SUBSET Flags]
    BY <1>0, RaisedTyped
  <2> QED
    BY <1>0, <2>1, <2>2, RaiseWellFormed DEF IInv, TypeOK, IndexSound
<1>7. ASSUME PollFailed  PROVE IInv'
  <2>1. PICK rev \in Readiness(poller), n \in 0..Len(poller.items) :
          /\ poller' = PollerRaise(poller,
                         [i \in DOMAIN poller.items |->
                            IF i <= n THEN rev[i] ELSE poller.items[i].revents])
          /\ answer' \in {Bool(FALSE), Thrown}
    BY <1>7 DEF PollFailed
  <2> DEFINE mix == [i \in DOMAIN poller.items |->
                       IF i <= n THEN rev[i] ELSE poller.items[i].revents]
  <2>2. mix \in [DOMAIN poller.items -> SUBSET Flags]
    BY <1>0, RaisedTyped
  <2> HIDE DEF mix
  <2> QED
    BY <1>0, <2>1, <2>2, RaiseWellFormed DEF IInv, TypeOK, IndexSound, mix
<1>8. ASSUME UNCHANGED vars  PROVE IInv'
  BY <1>0, <1>8 DEF vars, IInv, TypeOK, IndexSound
<1> QED
  BY <1>1, <1>2, <1>3, <1>4, <1>5, <1>6, <1>7, <1>8 DEF Next

(* For every caller, adding keys twice included, the variables keep their  *)
(* types and an entry of the two hash maps names an item of its own key.   *)
THEOREM PollerIndexSound == Spec => [](TypeOK /\ IndexSound)
<1>1. Spec => []IInv
  BY InitIInv, NextIInv, PTL DEF Spec
<1>2. IInv => TypeOK /\ IndexSound
  BY DEF IInv
<1> QED
  BY <1>1, <1>2, PTL

-------------------------------------------------------------------------------
(* Callers that add a key once. *)

UIInv == IInv /\ IndexComplete

(* Users who add each key once are users. *)
LEMMA UniqueIsNext == [UniqueNext]_vars => [Next]_vars
BY DEF UniqueNext, Next, AddOnce

(* The poller starts with each key once. *)
LEMMA InitUIInv == Init => UIInv
BY InitIInv, EmptyWellFormed DEF Init, UIInv, IndexComplete

(* When no key is added twice, no two items have the same key. *)
LEMMA NextUIInv == UIInv /\ [UniqueNext]_vars => UIInv'
<1> SUFFICES ASSUME UIInv, [UniqueNext]_vars PROVE IndexComplete'
  BY UniqueIsNext, NextIInv DEF UIInv
<1>0. /\ poller \in Pollers /\ Sound(poller) /\ Complete(poller)
  BY DEF UIInv, IInv, TypeOK, IndexSound, IndexComplete
<1>1. ASSUME NEW k \in Keys, NEW mask \in Masks, AddOnce(k, mask)  PROVE IndexComplete'
  BY <1>0, <1>1, AddWellFormed, MasksAreFlags DEF AddOnce, Add, IndexComplete
<1>2. ASSUME NEW k \in Keys, NEW mask \in Masks, CheckFor(k, mask)  PROVE IndexComplete'
  BY <1>0, <1>2, CheckForWellFormed, MasksAreFlags DEF CheckFor, IndexComplete
<1>3. ASSUME NEW k \in Keys, Has(k) \/ Events(k)  PROVE IndexComplete'
  BY <1>0, <1>3 DEF Has, Events, IndexComplete
<1>4. ASSUME NEW k \in Keys, Remove(k)  PROVE IndexComplete'
  BY <1>0, <1>4, RemoveWellFormed DEF Remove, IndexComplete
<1>5. ASSUME NEW rev \in [DOMAIN poller.items -> SUBSET Flags], poller' = PollerRaise(poller, rev)
      PROVE IndexComplete'
  BY <1>0, <1>5, RaiseWellFormed DEF IndexComplete
<1>6. ASSUME Poll  PROVE IndexComplete'
  <2>1. PICK rev \in Readiness(poller) : poller' = PollerRaise(poller, rev)
    BY <1>6 DEF Poll
  <2> QED
    BY <1>5, <2>1, ReadinessIs
<1>7. ASSUME PollFailed  PROVE IndexComplete'
  <2>1. PICK rev \in Readiness(poller), n \in 0..Len(poller.items) :
          poller' = PollerRaise(poller, [i \in DOMAIN poller.items |->
                                           IF i <= n THEN rev[i] ELSE poller.items[i].revents])
    BY <1>7 DEF PollFailed
  <2> DEFINE mix == [i \in DOMAIN poller.items |->
                       IF i <= n THEN rev[i] ELSE poller.items[i].revents]
  <2>2. mix \in [DOMAIN poller.items -> SUBSET Flags]
    BY <1>0, RaisedTyped
  <2> QED
    BY <1>5, <2>1, <2>2
<1>8. ASSUME UNCHANGED vars  PROVE IndexComplete'
  BY <1>0, <1>8 DEF vars, IndexComplete
<1> QED
  BY <1>1, <1>2, <1>3, <1>4, <1>6, <1>7, <1>8 DEF UniqueNext

(* When no key is added twice, every item that is polled can be removed,   *)
(* and remove() never leaves by the exception of reindex().                *)
THEOREM PollerIndexExact == UniqueSpec => [](IndexComplete /\ ReindexNeverThrows)
<1>1. UniqueSpec => []UIInv
  BY InitUIInv, NextUIInv, PTL DEF UniqueSpec
<1>2. UIInv => IndexComplete /\ ReindexNeverThrows
  BY RemoveWellFormed DEF UIInv, IInv, TypeOK, IndexSound, IndexComplete, ReindexNeverThrows
<1> QED
  BY <1>1, <1>2, PTL

-------------------------------------------------------------------------------
(* The poller implements the watch set. *)

(* The instance's constants and answers are this module's. *)
LEMMA SameNames ==
  /\ Watching!Keys = Keys /\ Watching!Flags = Flags
  /\ Watching!Done = Done /\ Watching!Thrown = Thrown
  /\ \A b \in BOOLEAN : Watching!Bool(b) = Bool(b)
  /\ \A e \in SUBSET Flags : Watching!Report(e) = Report(e)
  /\ \A k \in Keys, mask \in SUBSET Flags : Watching!Raisable(k, mask) = Raisable(k, mask)
BY DEF Watching!Keys, Keys, Watching!Flags, Flags, Watching!Done, Done, Watching!Thrown, Thrown,
       Watching!Bool, Bool, Watching!Report, Report, Watching!Raisable, Raisable

(* What the refinement mapping reads is of WatchSet's types. *)
LEMMA MapTyped ==
  ASSUME NEW p \in Pollers, Sound(p)
  PROVE  /\ WatchedIn(p) \subseteq Keys
         /\ InterestIn(p) \in [Keys -> SUBSET Flags]
         /\ RaisedIn(p) \in [Keys -> SUBSET Flags]
         /\ \A k \in Keys \ WatchedIn(p) : InterestIn(p)[k] = {} /\ RaisedIn(p)[k] = {}
<1>1. p.items \in Seq(Item) /\ p.index \in [Keys -> Nat]
  BY DEF Pollers
<1>2. \A k \in Keys : PollerHas(p, k) =>
         /\ p.items[p.index[k]].events \in SUBSET Flags
         /\ p.items[p.index[k]].revents \in SUBSET Flags
  BY <1>1, EventsTyped, ItemFields
<1> QED
  BY <1>2 DEF WatchedIn, InterestIn, RaisedIn

(* The empty poller watches nothing. *)
LEMMA InitImplements == Init => Watching!WInit
BY SameNames DEF Init, EmptyPoller, Watching!WInit, WatchedIn, InterestIn, RaisedIn, PollerHas

(* What a complete poll, and one that failed after n items, report of the  *)
(* watched keys.                                                           *)
LEMMA RaisedByPoll ==
  ASSUME UIInv, NEW rev \in Readiness(poller), NEW n \in 0..Len(poller.items),
         NEW mix, mix = [i \in DOMAIN poller.items |->
                           IF i <= n THEN rev[i] ELSE poller.items[i].revents],
         poller' = PollerRaise(poller, mix)
  PROVE  /\ WatchedIn(poller') = WatchedIn(poller)
         /\ InterestIn(poller') = InterestIn(poller)
         /\ RaisedIn(poller') \in [Keys -> SUBSET Flags]
         /\ \A k \in Keys \ WatchedIn(poller) : RaisedIn(poller')[k] = {}
         /\ \A k \in WatchedIn(poller) :
              /\ poller.index[k] \in 1..Len(poller.items)
              /\ RaisedIn(poller')[k] = mix[poller.index[k]]
              /\ rev[poller.index[k]] \subseteq Raisable(k, InterestIn(poller)[k])
              /\ poller.items[poller.index[k]].revents = RaisedIn(poller)[k]
<1>0. poller \in Pollers /\ Sound(poller)
  BY DEF UIInv, IInv, TypeOK, IndexSound
<1>1. mix \in [DOMAIN poller.items -> SUBSET Flags]
  BY <1>0, RaisedTyped
<1>2. /\ WatchedIn(poller') = WatchedIn(poller)
      /\ InterestIn(poller') = InterestIn(poller)
      /\ RaisedIn(poller') =
           [k \in Keys |-> IF PollerHas(poller, k) THEN mix[poller.index[k]] ELSE {}]
  BY <1>0, <1>1, RaiseMaps
<1>3. \A k \in WatchedIn(poller) :
        /\ k \in Keys /\ PollerHas(poller, k)
        /\ poller.index[k] \in 1..Len(poller.items)
        /\ poller.items[poller.index[k]].key = k
  BY <1>0, EventsTyped DEF WatchedIn, Sound
<1>4. DOMAIN poller.items = 1..Len(poller.items)
  BY <1>0 DEF Pollers
<1>5. ASSUME NEW k \in WatchedIn(poller)
      PROVE  /\ poller.index[k] \in 1..Len(poller.items)
             /\ RaisedIn(poller')[k] = mix[poller.index[k]]
             /\ rev[poller.index[k]] \subseteq Raisable(k, InterestIn(poller)[k])
             /\ poller.items[poller.index[k]].revents = RaisedIn(poller)[k]
  <2>1. rev[poller.index[k]] \subseteq
          Raisable(poller.items[poller.index[k]].key, poller.items[poller.index[k]].events)
    BY <1>3, <1>4, ReadinessIs
  <2> QED
    BY <1>2, <1>3, <2>1 DEF InterestIn, RaisedIn
<1>6. RaisedIn(poller') \in [Keys -> SUBSET Flags]
  <2>1. \A k \in Keys : PollerHas(poller, k) => mix[poller.index[k]] \in SUBSET Flags
    BY <1>1, <1>3, <1>4 DEF WatchedIn
  <2> QED
    BY <1>2, <2>1
<1> QED
  BY <1>2, <1>5, <1>6 DEF WatchedIn

(* A poll() that returns is one of WatchSet's polls. *)
LEMMA PollImplements == UIInv /\ Poll => Watching!PollCompletes
<1> SUFFICES ASSUME UIInv, Poll PROVE Watching!PollCompletes
  OBVIOUS
<1>0. poller \in Pollers /\ Complete(poller) /\ DOMAIN poller.items = 1..Len(poller.items)
  BY DEF UIInv, IInv, TypeOK, IndexComplete, Pollers
<1>1. PICK rev \in Readiness(poller) :
        /\ poller' = PollerRaise(poller, rev)
        /\ answer' = Bool(\E i \in DOMAIN poller.items : rev[i] # {})
  BY DEF Poll
<1> DEFINE n == Len(poller.items)
           mix == [i \in DOMAIN poller.items |-> IF i <= n THEN rev[i] ELSE poller.items[i].revents]
<1>2. n \in 0..Len(poller.items)
  BY <1>0 DEF Pollers
<1>3. mix = rev
  BY <1>0, <1>2, ReadinessIs
<1>4. /\ WatchedIn(poller') = WatchedIn(poller)
      /\ InterestIn(poller') = InterestIn(poller)
      /\ RaisedIn(poller') \in [Keys -> SUBSET Flags]
      /\ \A k \in Keys \ WatchedIn(poller) : RaisedIn(poller')[k] = {}
      /\ \A k \in WatchedIn(poller) :
           /\ poller.index[k] \in 1..Len(poller.items)
           /\ RaisedIn(poller')[k] = mix[poller.index[k]]
           /\ rev[poller.index[k]] \subseteq Raisable(k, InterestIn(poller)[k])
  <2> HIDE DEF mix
  <2> QED
    BY <1>1, <1>2, <1>3, RaisedByPoll DEF mix
<1> HIDE DEF mix, n
<1>5. (\E i \in DOMAIN poller.items : rev[i] # {})
        <=> (\E k \in WatchedIn(poller) : RaisedIn(poller')[k] # {})
  <2>1. \A i \in DOMAIN poller.items :
          /\ poller.items[i].key \in WatchedIn(poller)
          /\ poller.index[poller.items[i].key] = i
    BY <1>0, ItemFields DEF Pollers, Complete, WatchedIn, PollerHas, Absent
  <2> QED
    BY <1>0, <1>3, <1>4, <2>1
<1>6. \A k \in WatchedIn(poller) : k \in Keys /\ InterestIn(poller)[k] \in SUBSET Flags
  BY <1>0, MapTyped DEF UIInv, IInv, IndexSound
<1>7. \A k \in Keys :
        RaisedIn(poller')[k] \subseteq
          IF k \in WatchedIn(poller) THEN Watching!Raisable(k, InterestIn(poller)[k]) ELSE {}
  BY <1>3, <1>4, <1>6, SameNames
<1>8. answer' = Watching!Bool(\E k \in WatchedIn(poller) : RaisedIn(poller')[k] # {})
  BY <1>1, <1>5, SameNames
<1> QED
  BY <1>4, <1>7, <1>8, SameNames DEF Watching!PollCompletes

(* A poll() that fails leaves what is watched. *)
LEMMA PollFailedImplements == UIInv /\ PollFailed => Watching!PollFails
<1> SUFFICES ASSUME UIInv, PollFailed PROVE Watching!PollFails
  OBVIOUS
<1>0. poller \in Pollers /\ DOMAIN poller.items = 1..Len(poller.items) /\ Sound(poller)
  BY DEF UIInv, IInv, TypeOK, IndexSound, Pollers
<1>1. PICK rev \in Readiness(poller), n \in 0..Len(poller.items) :
        /\ poller' = PollerRaise(poller,
                       [i \in DOMAIN poller.items |->
                          IF i <= n THEN rev[i] ELSE poller.items[i].revents])
        /\ answer' \in {Bool(FALSE), Thrown}
  BY DEF PollFailed
<1> DEFINE mix == [i \in DOMAIN poller.items |-> IF i <= n THEN rev[i] ELSE poller.items[i].revents]
<1>2. \A i \in 1..Len(poller.items) : mix[i] = rev[i] \/ mix[i] = poller.items[i].revents
  BY <1>0
<1>3. /\ WatchedIn(poller') = WatchedIn(poller)
      /\ InterestIn(poller') = InterestIn(poller)
      /\ RaisedIn(poller') \in [Keys -> SUBSET Flags]
      /\ \A k \in Keys \ WatchedIn(poller) : RaisedIn(poller')[k] = {}
      /\ \A k \in WatchedIn(poller) :
           /\ poller.index[k] \in 1..Len(poller.items)
           /\ RaisedIn(poller')[k] = mix[poller.index[k]]
           /\ rev[poller.index[k]] \subseteq Raisable(k, InterestIn(poller)[k])
           /\ poller.items[poller.index[k]].revents = RaisedIn(poller)[k]
  <2>1. poller' = PollerRaise(poller, mix)
    BY <1>1
  <2> HIDE DEF mix
  <2> QED
    BY <2>1, RaisedByPoll DEF mix
<1> HIDE DEF mix
<1>4. \A k \in WatchedIn(poller) : k \in Keys /\ InterestIn(poller)[k] \in SUBSET Flags
  BY <1>0, MapTyped
<1>5. \A k \in Keys \ WatchedIn(poller) : RaisedIn(poller)[k] = {}
  BY <1>0, MapTyped
<1>6. \A k \in Keys :
        \/ RaisedIn(poller')[k] = RaisedIn(poller)[k]
        \/ k \in WatchedIn(poller)
           /\ RaisedIn(poller')[k] \subseteq Watching!Raisable(k, InterestIn(poller)[k])
  <2> TAKE k \in Keys
  <2>1. CASE k \in WatchedIn(poller)
    <3>1. PICK i \in 1..Len(poller.items) : i = poller.index[k]
      BY <1>3, <2>1
    <3>2. /\ RaisedIn(poller')[k] = mix[i]
          /\ rev[i] \subseteq Raisable(k, InterestIn(poller)[k])
          /\ poller.items[i].revents = RaisedIn(poller)[k]
      BY <1>3, <2>1, <3>1
    <3>3. Watching!Raisable(k, InterestIn(poller)[k]) = Raisable(k, InterestIn(poller)[k])
      BY <1>4, <2>1, SameNames
    <3>4. mix[i] = rev[i] \/ mix[i] = poller.items[i].revents
      BY <1>2
    <3> QED
      BY <2>1, <3>2, <3>3, <3>4
  <2>2. CASE k \notin WatchedIn(poller)
    BY <1>3, <1>5, <2>2
  <2> QED
    BY <2>1, <2>2
<1>7. answer' \in {Watching!Bool(FALSE), Watching!Thrown}
  BY <1>1, SameNames
<1> QED
  BY <1>3, <1>6, <1>7, SameNames DEF Watching!PollFails

(* Every call is a step of WatchSet or changes nothing it sees. *)
LEMMA StepImplements == UIInv /\ [UniqueNext]_vars => [Watching!WNext]_(Watching!wvars)
<1> SUFFICES ASSUME UIInv, [UniqueNext]_vars PROVE [Watching!WNext]_(Watching!wvars)
  OBVIOUS
<1>0. poller \in Pollers /\ Sound(poller) /\ Complete(poller)
  BY DEF UIInv, IInv, TypeOK, IndexSound, IndexComplete
<1>b. \A k \in Keys : k \in WatchedIn(poller) <=> PollerHas(poller, k)
  BY DEF WatchedIn
<1>1. ASSUME NEW k \in Keys, NEW mask \in Masks, AddOnce(k, mask)  PROVE Watching!Watch(k, mask)
  BY <1>0, <1>1, <1>b, AddMaps, MasksAreFlags, SameNames DEF AddOnce, Add, Watching!Watch
<1>2. ASSUME NEW k \in Keys, NEW mask \in Masks, CheckFor(k, mask)  PROVE Watching!Retune(k, mask)
  BY <1>0, <1>2, <1>b, CheckForMaps, MasksAreFlags, SameNames DEF CheckFor, Watching!Retune
<1>3. ASSUME NEW k \in Keys, Has(k)  PROVE Watching!AskHas(k)
  <2>1. UNCHANGED <<WatchedIn(poller), InterestIn(poller), RaisedIn(poller)>>
    BY <1>3 DEF Has, WatchedIn, InterestIn, RaisedIn, PollerHas
  <2>2. Bool(PollerHas(poller, k)) = Watching!Bool(k \in WatchedIn(poller))
    BY <1>b DEF Bool, Watching!Bool
  <2> QED
    BY <1>3, <2>1, <2>2 DEF Has, Watching!AskHas
<1>4. ASSUME NEW k \in Keys, Remove(k)  PROVE Watching!Unwatch(k)
  BY <1>0, <1>4, RemoveMaps, RemoveWellFormed, SameNames DEF Remove, Watching!Unwatch
<1>5. ASSUME NEW k \in Keys, Events(k)  PROVE Watching!AskEvents(k)
  <2>1. PollerHas(poller, k) => RaisedIn(poller)[k] = PollerEvents(poller, k)
                                /\ RaisedIn(poller)[k] \in SUBSET Flags
    BY <1>0, EventsTyped DEF RaisedIn, PollerEvents
  <2> QED
    BY <1>5, <1>b, <2>1, SameNames DEF Events, Watching!AskEvents
<1>6. UNCHANGED vars => UNCHANGED Watching!wvars
  BY DEF vars, Watching!wvars
<1> QED
  BY <1>1, <1>2, <1>3, <1>4, <1>5, <1>6, PollImplements, PollFailedImplements, SameNames
     DEF UniqueNext, Watching!WNext

(* A poller whose callers add a key once behaves as the watch set: every   *)
(* answer, and all later ones, are those the watch set could have given.   *)
THEOREM PollerImplementsWatchSet == UniqueSpec => ImplementsWatchSet
<1>1. UniqueSpec => []UIInv
  BY InitUIInv, NextUIInv, PTL DEF UniqueSpec
<1> QED
  BY <1>1, InitImplements, StepImplements, PTL DEF UniqueSpec, ImplementsWatchSet, Watching!WSpec

-------------------------------------------------------------------------------
(* The command line client. *)

(* The keys the client has given to its poller, by how far main() is. *)
Given ==
  CASE pc \in {"start", "add", "refused"} -> {}
    [] pc = "addStdin" -> {TheSocket}
    [] OTHER -> IF HasStdin THEN {TheSocket, Stdin} ELSE {TheSocket}

(* The masks follow the switches from tune on, ... *)
Tuned ==
  /\ pc \in {"tuneStdin", "poll", "socket"} => InterestIn(poller)[TheSocket] = WhatIf(can_recv)
  /\ HasStdin /\ pc \in {"poll", "socket"} => InterestIn(poller)[Stdin] = WhatIf(can_send)

(* ... so that what a poll raised is what they allowed, until it is used.  *)
Heeded ==
  /\ pc = "socket" /\ "in" \in RaisedIn(poller)[TheSocket] => can_recv /\ MayStill("recv")
  /\ HasStdin /\ pc \in {"socket", "stdin"} /\ "in" \in RaisedIn(poller)[Stdin] =>
       can_send /\ MayStill("send")

(* A request or reply client enables one of the two.  It may hold that it  *)
(* can send when the socket cannot, after an interrupted receive, but not  *)
(* when it sets the masks; and it comes to a send only by way of a poll.   *)
Turns ==
  /\ Toggles => (can_send <=> ~can_recv)
  /\ can_send /\ pc \notin {"stdin", "left", "failed"} => MayStill("send")
  /\ pc \in {"gets", "send"} => can_send

ClientTyped ==
  /\ can_send \in BOOLEAN /\ can_recv \in BOOLEAN
  /\ options.type \in {"push", "pull", "request", "reply"}
  /\ pc \in {"addStdin", "tuneStdin", "gets", "send"} => HasStdin
  /\ pc \notin {"gets", "send"} => message = <<>>

(* The inductive invariant of the client: its poller's, and how the keys,  *)
(* masks and events in it go with the switches and the socket's turn.      *)
ClientInv ==
  IF options.type = "none" THEN pc = "start"
  ELSE ClientTyped /\ WatchedIn(poller) = Given /\ Tuned /\ Heeded /\ Turns

(* The client's keys are two, and its masks are masks. *)
LEMMA ClientNames ==
  /\ TheSocket \in Keys /\ Stdin \in Keys /\ TheSocket # Stdin
  /\ \A b : WhatIf(b) \in Masks /\ WhatIf(b) \in SUBSET Flags
BY ClientAssumption, KeysDisjoint DEF Keys, WhatIf, Flags

(* has_input() of a key that is watched. *)
LEMMA InputShows ==
  ASSUME NEW k \in WatchedIn(poller)
  PROVE  HasInput(poller, k) <=> "in" \in RaisedIn(poller)[k]
BY DEF HasInput, WatchedIn, RaisedIn, PollerEvents

(* What the poller's invariant says for the lemmas on its operations.      *)
LEMMA PollerIs ==
  ASSUME UIInv
  PROVE  /\ poller \in Pollers /\ Sound(poller) /\ Complete(poller)
         /\ \A k \in Keys : k \in WatchedIn(poller) <=> PollerHas(poller, k)
BY DEF UIInv, IInv, TypeOK, IndexSound, IndexComplete, WatchedIn

(* The poll of the client is a poll. *)
LEMMA ClientPolls ==
  ASSUME UIInv, PollsReady \/ PollInterrupted
  PROVE  Poll \/ PollFailed
<1>0. poller \in Pollers /\ Sound(poller) /\ poller.items \in Seq(Item)
      /\ DOMAIN poller.items = 1..Len(poller.items) /\ Len(poller.items) \in Nat
  BY PollerIs DEF Pollers
<1>r. \A k, mask : Raisable(k, mask) \subseteq Flags
  BY DEF Raisable, Flags
<1>1. CASE PollsReady
  <2> DEFINE rev == [i \in DOMAIN poller.items |->
                       Ready(poller.items[i].key)
                         \cap Raisable(poller.items[i].key, poller.items[i].events)]
  <2>1. /\ \E i \in DOMAIN poller.items : rev[i] # {}
        /\ poller' = PollerRaise(poller, rev) /\ answer' = Bool(TRUE)
    BY <1>1 DEF PollsReady
  <2>2. rev \in Readiness(poller)
    BY <1>r, InReadiness
  <2>3. Bool(TRUE) = Bool(\E i \in DOMAIN poller.items : rev[i] # {})
    BY <2>1 DEF Bool
  <2> HIDE DEF rev
  <2> QED
    BY <2>1, <2>2, <2>3 DEF Poll
<1>2. CASE PollInterrupted
  <2> DEFINE rev == [i \in DOMAIN poller.items |-> {}]
             mix == [i \in DOMAIN poller.items |-> IF i <= 0 THEN rev[i] ELSE poller.items[i].revents]
  <2>1. rev \in Readiness(poller)
    BY InReadiness
  <2>2. ASSUME NEW i \in DOMAIN poller.items
        PROVE  poller.items[i] = [key |-> poller.items[i].key, events |-> poller.items[i].events,
                                  revents |-> mix[i]]
    <3>1. poller.items[i] \in Item /\ ~(i <= 0)
      BY <1>0, <2>2, ItemFields
    <3>2. mix[i] = poller.items[i].revents
      BY <3>1
    <3> QED
      BY <3>1, <3>2 DEF Item
  <2>3. poller.items = [i \in DOMAIN poller.items |->
          [key |-> poller.items[i].key, events |-> poller.items[i].events, revents |-> mix[i]]]
    <3>1. poller.items \in [1..Len(poller.items) -> Item]
      BY <1>0
    <3>2. poller.items = [i \in DOMAIN poller.items |-> poller.items[i]]
      BY <3>1
    <3> HIDE DEF mix
    <3> QED
      BY <2>2, <3>2
  <2>4. poller = PollerRaise(poller, mix)
    BY <1>0, <2>3 DEF PollerRaise, Pollers
  <2>5. poller' = poller /\ answer' = Bool(FALSE)
    BY <1>2 DEF PollInterrupted
  <2>6. 0 \in 0..Len(poller.items)
    BY <1>0
  <2>7. PollFailed
    BY <2>1, <2>4, <2>5, <2>6 DEF PollFailed
  <2> QED
    BY <2>7
<1> QED
  BY <1>1, <1>2

(* The client uses its poller as UniqueSpec's callers do.                   *)
LEMMA ClientIsCaller == UIInv /\ ClientInv /\ [ClientNext]_allVars => [UniqueNext]_vars
<1> SUFFICES ASSUME UIInv, ClientInv, [ClientNext]_allVars PROVE [UniqueNext]_vars
  OBVIOUS
<1> USE ClientNames
<1>1. CASE AddSocket \/ AddStdin
  <2>1. options.type # "none" /\ pc \in {"add", "addStdin"}
    BY <1>1 DEF AddSocket, AddStdin, Goes
  <2>2. WatchedIn(poller) = Given
    BY <2>1 DEF ClientInv
  <2>3. AddSocket => AddOnce(TheSocket, {"in"})
    BY <2>2, PollerIs DEF AddSocket, Goes, Given, AddOnce
  <2>4. AddStdin => AddOnce(Stdin, {"in"})
    BY <2>2, PollerIs DEF AddStdin, Goes, Given, AddOnce
  <2> QED
    BY <1>1, <2>3, <2>4, ClientAssumption DEF UniqueNext
<1>2. CASE TuneSocket \/ TuneStdin
  BY <1>2 DEF TuneSocket, TuneStdin, UniqueNext
<1>3. CASE PollsReady \/ PollInterrupted
  BY <1>3, ClientPolls DEF UniqueNext
<1>4. CASE ReceiveMessage \/ ReceiveInterrupted \/ NoMessage
  BY <1>4 DEF ReceiveMessage, ReceiveInterrupted, NoMessage, UniqueNext
<1>5. CASE LooksAtStdin
  BY <1>5 DEF LooksAtStdin, UniqueNext
<1>6. CASE Connects \/ GetsLine \/ GetsNothing \/ SendMessage \/ SendInterrupted \/ NothingToSend
  BY <1>6 DEF Connects, GetsLine, GetsNothing, SendMessage, SendInterrupted, NothingToSend, vars
<1>7. ASSUME NEW line \in {"text", "blank"}, Type(line) PROVE UNCHANGED vars
  BY <1>7 DEF Type, vars
<1>8. CASE EndInput \/ Arrives
  BY <1>8 DEF EndInput, Arrives, vars
<1>9. CASE UNCHANGED allVars
  BY <1>9 DEF allVars, vars
<1> QED
  BY <1>1, <1>2, <1>3, <1>4, <1>5, <1>6, <1>7, <1>8, <1>9 DEF ClientNext, Main

(* The client starts without keys, and with a socket that may begin.       *)
LEMMA InitClientInv == ClientInit => ClientInv
<1> SUFFICES ASSUME ClientInit, options.type # "none" PROVE ClientInv
  BY DEF ClientInit, ClientInv
<1>1. /\ pc = "start" /\ message = <<>>
      /\ options.type \in {"push", "pull", "request", "reply"}
      /\ can_send = (options.type \in {"push", "request"})
      /\ can_recv = (options.type \in {"pull", "reply"})
      /\ turn = IF options.type = "request" THEN "send" ELSE "recv"
  BY DEF ClientInit
<1>2. WatchedIn(poller) = {}
  BY DEF ClientInit, Init, EmptyPoller, WatchedIn, PollerHas
<1>3. ClientTyped
  BY <1>1 DEF ClientTyped
<1>4. Turns
  BY <1>1 DEF Turns, Toggles, MayStill
<1> QED
  BY <1>1, <1>2, <1>3, <1>4 DEF ClientInv, Given, Tuned, Heeded

(* The calls of add() and check_for(): the keys are given, the masks set.  *)
LEMMA CallsClientInv ==
  ASSUME UIInv, ClientInv, options.type # "none",
         AddSocket \/ AddStdin \/ TuneSocket \/ TuneStdin
  PROVE  ClientInv'
<1> USE ClientNames
<1>1. /\ ClientTyped /\ WatchedIn(poller) = Given /\ Tuned /\ Heeded /\ Turns
      /\ options' = options /\ can_send' = can_send /\ can_recv' = can_recv
      /\ message' = message /\ turn' = turn
  BY DEF ClientInv, AddSocket, AddStdin, TuneSocket, TuneStdin, switches
<1>0. /\ InterestIn(poller) \in [Keys -> SUBSET Flags] /\ RaisedIn(poller) \in [Keys -> SUBSET Flags]
      /\ poller \in Pollers /\ Sound(poller)
      /\ \A k \in Keys : k \in WatchedIn(poller) <=> PollerHas(poller, k)
  BY PollerIs, MapTyped
<1>2. CASE AddSocket
  <2>1. /\ pc = "add" /\ pc' = (IF HasStdin THEN "addStdin" ELSE "tune")
        /\ poller' = PollerAdd(poller, TheSocket, {"in"})
    BY <1>2 DEF AddSocket, Goes, Add
  <2>2. /\ ~PollerHas(poller, TheSocket) /\ Given = {}
        /\ WatchedIn(poller') = WatchedIn(poller) \cup {TheSocket}
    BY <1>0, <1>1, <2>1, AddMaps, ClientAssumption, MasksAreFlags DEF Given
  <2> QED
    BY <1>1, <2>1, <2>2 DEF ClientInv, ClientTyped, Given, Tuned, Heeded, Turns, HasStdin, Toggles, MayStill
<1>3. CASE AddStdin
  <2>1. /\ pc = "addStdin" /\ pc' = "tune"
        /\ poller' = PollerAdd(poller, Stdin, {"in"})
    BY <1>3 DEF AddStdin, Goes, Add
  <2>2. /\ ~PollerHas(poller, Stdin) /\ Given = {TheSocket}
        /\ WatchedIn(poller') = WatchedIn(poller) \cup {Stdin}
    BY <1>0, <1>1, <2>1, AddMaps, ClientAssumption, MasksAreFlags DEF Given
  <2> QED
    BY <1>1, <2>1, <2>2 DEF ClientInv, ClientTyped, Given, Tuned, Heeded, Turns, HasStdin, Toggles, MayStill
<1>4. CASE TuneSocket
  <2>1. /\ pc = "tune" /\ pc' = (IF HasStdin THEN "tuneStdin" ELSE "poll")
        /\ TheSocket \in WatchedIn(poller)
    BY <1>1, <1>4 DEF TuneSocket, Goes, Given
  <2>2. poller' = PollerCheckFor(poller, TheSocket, WhatIf(can_recv))
    BY <1>0, <1>4, <2>1 DEF TuneSocket, CheckFor
  <2>3. /\ WatchedIn(poller') = WatchedIn(poller)
        /\ InterestIn(poller') = [InterestIn(poller) EXCEPT ![TheSocket] = WhatIf(can_recv)]
    BY <1>0, <2>1, <2>2, CheckForMaps
  <2>4. InterestIn(poller')[TheSocket] = WhatIf(can_recv)
    BY <1>0, <2>3
  <2> QED
    BY <1>1, <2>1, <2>3, <2>4
       DEF ClientInv, ClientTyped, Given, Tuned, Heeded, Turns, HasStdin, Toggles, MayStill
<1>5. CASE TuneStdin
  <2>1. pc = "tuneStdin" /\ pc' = "poll"
    BY <1>5 DEF TuneStdin, Goes
  <2>2. HasStdin /\ Stdin \in WatchedIn(poller)
    BY <1>1, <2>1 DEF Given, ClientTyped
  <2>3. poller' = PollerCheckFor(poller, Stdin, WhatIf(can_send))
    BY <1>0, <1>5, <2>2 DEF TuneStdin, CheckFor
  <2>4. /\ WatchedIn(poller') = WatchedIn(poller)
        /\ InterestIn(poller') = [InterestIn(poller) EXCEPT ![Stdin] = WhatIf(can_send)]
    BY <1>0, <2>2, <2>3, CheckForMaps
  <2>5. /\ InterestIn(poller')[Stdin] = WhatIf(can_send)
        /\ InterestIn(poller')[TheSocket] = WhatIf(can_recv)
    BY <1>0, <1>1, <2>1, <2>4 DEF Tuned
  <2> QED
    BY <1>1, <2>1, <2>2, <2>4, <2>5
       DEF ClientInv, ClientTyped, Given, Tuned, Heeded, Turns, HasStdin, Toggles, MayStill
<1> QED
  BY <1>2, <1>3, <1>4, <1>5

(* What a poll of the client raises of a key: what it finds, and may.      *)
LEMMA PollsReadyRaises ==
  ASSUME UIInv, PollsReady
  PROVE  /\ WatchedIn(poller') = WatchedIn(poller)
         /\ InterestIn(poller') = InterestIn(poller)
         /\ \A k \in WatchedIn(poller) :
              RaisedIn(poller')[k] = Ready(k) \cap Raisable(k, InterestIn(poller)[k])
<1> DEFINE rev == [i \in DOMAIN poller.items |->
                     Ready(poller.items[i].key)
                       \cap Raisable(poller.items[i].key, poller.items[i].events)]
<1>1. poller' = PollerRaise(poller, rev)
  BY DEF PollsReady
<1>2. /\ poller \in Pollers /\ Sound(poller)
      /\ poller.items \in Seq(Item) /\ DOMAIN poller.items = 1..Len(poller.items)
  BY PollerIs DEF Pollers
<1>3. \A k, mask : Raisable(k, mask) \subseteq Flags
  BY DEF Raisable, Flags
<1>4. rev \in [DOMAIN poller.items -> SUBSET Flags]
  BY <1>3
<1>5. ASSUME NEW k \in WatchedIn(poller)
      PROVE  /\ k \in Keys /\ PollerHas(poller, k)
             /\ rev[poller.index[k]] = Ready(k) \cap Raisable(k, InterestIn(poller)[k])
  <2>1. k \in Keys /\ PollerHas(poller, k)
    BY DEF WatchedIn
  <2>2. poller.index[k] \in DOMAIN poller.items /\ poller.items[poller.index[k]].key = k
    BY <1>2, <2>1, EventsTyped DEF Sound
  <2>3. InterestIn(poller)[k] = poller.items[poller.index[k]].events
    BY <2>1 DEF InterestIn
  <2> QED
    BY <2>1, <2>2, <2>3
<1> HIDE DEF rev
<1>6. /\ WatchedIn(poller') = WatchedIn(poller)
      /\ InterestIn(poller') = InterestIn(poller)
      /\ RaisedIn(poller') =
           [k \in Keys |-> IF PollerHas(poller, k) THEN rev[poller.index[k]] ELSE {}]
  BY <1>1, <1>2, <1>4, RaiseMaps
<1> QED
  BY <1>5, <1>6

(* Polling and receiving: an event that is shown was asked for, and asked  *)
(* for when it was the client's turn.                                      *)
LEMMA PollsClientInv ==
  ASSUME UIInv, ClientInv, options.type # "none",
         PollsReady \/ PollInterrupted \/ ReceiveMessage \/ ReceiveInterrupted \/ NoMessage
  PROVE  ClientInv'
<1> USE ClientNames
<1>1. /\ ClientTyped /\ WatchedIn(poller) = Given /\ Tuned /\ Heeded /\ Turns
      /\ options' = options /\ message' = message
  BY DEF ClientInv, PollsReady, PollInterrupted, ReceiveMessage, ReceiveInterrupted, NoMessage
<1>2. CASE PollsReady
  <2>1. /\ pc = "poll" /\ pc' = "socket" /\ turn' = turn
        /\ can_send' = can_send /\ can_recv' = can_recv
    BY <1>2 DEF PollsReady, Goes, switches
  <2>2. TheSocket \in WatchedIn(poller) /\ (HasStdin => Stdin \in WatchedIn(poller))
    BY <1>1, <2>1 DEF Given
  <2>3. TheSocket \notin Fds
    BY ClientAssumption, KeysDisjoint
  <2>4. "in" \in RaisedIn(poller')[TheSocket] => can_recv /\ MayStill("recv")
    BY <1>1, <1>2, <2>1, <2>2, <2>3, PollsReadyRaises DEF Tuned, Ready, Raisable, WhatIf
  <2>5. HasStdin /\ "in" \in RaisedIn(poller')[Stdin] => can_send /\ MayStill("send")
    BY <1>1, <1>2, <2>1, <2>2, PollsReadyRaises DEF Tuned, Raisable, WhatIf, Turns
  <2> QED
    BY <1>1, <1>2, <2>1, <2>4, <2>5, PollsReadyRaises
       DEF ClientInv, ClientTyped, Given, Tuned, Heeded, Turns, HasStdin, Toggles, MayStill
<1>3. CASE PollInterrupted
  BY <1>1, <1>3
     DEF PollInterrupted, Goes, switches, ClientInv, ClientTyped, Given, Tuned, Heeded, Turns, HasStdin, Toggles, MayStill
<1>4. CASE ReceiveMessage \/ ReceiveInterrupted
  <2>1. /\ pc = "socket" /\ pc' = "stdin" /\ poller' = poller
        /\ HasInput(poller, TheSocket)
        /\ IF Toggles THEN can_recv' = FALSE /\ can_send' = TRUE
           ELSE can_recv' = can_recv /\ can_send' = can_send
    BY <1>4 DEF ReceiveMessage, ReceiveInterrupted, Goes, switches, Events
  <2>2. can_recv
    BY <1>1, <2>1, InputShows DEF Heeded, Given
  <2>3. HasStdin /\ "in" \in RaisedIn(poller)[Stdin] => ~Toggles
    BY <1>1, <2>1, <2>2 DEF Heeded, Turns
  <2>4. ClientTyped' /\ (WatchedIn(poller') = Given') /\ Tuned'
    BY <1>1, <2>1 DEF ClientTyped, Given, Tuned, HasStdin
  <2>5. Heeded'
    BY <1>1, <2>1, <2>3 DEF Heeded, HasStdin, Toggles, MayStill
  <2>6. Turns'
    BY <1>1, <2>1 DEF Turns, Toggles, MayStill
  <2> QED
    BY <1>1, <2>4, <2>5, <2>6 DEF ClientInv
<1>5. CASE NoMessage
  BY <1>1, <1>5
     DEF NoMessage, Events, Goes, switches, ClientInv, ClientTyped, Given, Tuned, Heeded, Turns, HasStdin, Toggles, MayStill
<1> QED
  BY <1>2, <1>3, <1>4, <1>5

(* Reading lines and sending, the input, the messages that arrive.          *)
LEMMA LinesClientInv ==
  ASSUME UIInv, ClientInv, options.type # "none",
         Connects \/ LooksAtStdin \/ GetsLine \/ GetsNothing
           \/ SendMessage \/ SendInterrupted \/ NothingToSend
  PROVE  ClientInv'
<1> USE ClientNames
<1>1. /\ ClientTyped /\ WatchedIn(poller) = Given /\ Tuned /\ Heeded /\ Turns
      /\ options' = options /\ poller' = poller
  BY DEF ClientInv, Connects, LooksAtStdin, GetsLine, GetsNothing, SendMessage, SendInterrupted,
         NothingToSend, Events, vars
<1>2. CASE Connects
  BY <1>1, <1>2
     DEF Connects, Goes, switches, ClientInv, ClientTyped, Given, Tuned, Heeded, Turns, HasStdin, Toggles, MayStill
<1>3. CASE LooksAtStdin
  <2>1. /\ pc = "stdin" /\ can_send' = can_send /\ can_recv' = can_recv
        /\ turn' = turn /\ message' = message
        /\ \/ ~HasStdin /\ pc' = "tune"
           \/ HasStdin /\ HasInput(poller, Stdin) /\ pc' = "gets"
           \/ can_send /\ ~can_recv /\ pc' = "left"
           \/ ~(can_send /\ ~can_recv) /\ pc' = "tune"
    BY <1>3 DEF LooksAtStdin, Goes, switches
  <2>2. HasStdin /\ HasInput(poller, Stdin) => can_send /\ MayStill("send")
    BY <1>1, <2>1, InputShows DEF Heeded, Given
  <2>3. ClientTyped' /\ (WatchedIn(poller') = Given') /\ Tuned' /\ Heeded'
    BY <1>1, <2>1 DEF ClientTyped, Given, Tuned, Heeded, HasStdin
  <2>4. ~HasStdin => ~Toggles
    BY DEF HasStdin, Toggles
  <2>5. Turns'
    BY <1>1, <2>1, <2>2, <2>4 DEF Turns, Toggles, MayStill
  <2> QED
    BY <1>1, <2>3, <2>5 DEF ClientInv
<1>4. CASE GetsLine
  <2>1. /\ pc = "gets" /\ pc' \in {"gets", "send"}
        /\ can_send' = can_send /\ can_recv' = can_recv /\ turn' = turn
    BY <1>4 DEF GetsLine, Goes, switches
  <2> QED
    BY <1>1, <2>1 DEF ClientInv, ClientTyped, Given, Tuned, Heeded, Turns, HasStdin, Toggles, MayStill
<1>5. CASE GetsNothing
  <2>1. /\ pc = "gets" /\ pc' = (IF message = <<>> THEN "failed" ELSE "send") /\ message' = message
        /\ can_send' = can_send /\ can_recv' = can_recv /\ turn' = turn
    BY <1>5 DEF GetsNothing, Goes, switches
  <2> QED
    BY <1>1, <2>1 DEF ClientInv, ClientTyped, Given, Tuned, Heeded, Turns, HasStdin, Toggles, MayStill
<1>6. CASE SendMessage \/ SendInterrupted
  <2>1. /\ pc = "send" /\ pc' = "tune" /\ message' = <<>>
        /\ IF Toggles THEN can_recv' = TRUE /\ can_send' = FALSE
           ELSE can_recv' = can_recv /\ can_send' = can_send
    BY <1>6 DEF SendMessage, SendInterrupted, Goes, Flips, switches
  <2> QED
    BY <1>1, <2>1 DEF ClientInv, ClientTyped, Given, Tuned, Heeded, Turns, HasStdin, Toggles, MayStill
<1>7. CASE NothingToSend
  BY <1>1, <1>7
     DEF NothingToSend, Goes, switches, ClientInv, ClientTyped, Given, Tuned, Heeded, Turns, HasStdin, Toggles, MayStill
<1> QED
  BY <1>2, <1>3, <1>4, <1>5, <1>6, <1>7

(* Every step of the client, or of anybody's poller, keeps the invariant.  *)
LEMMA NextClientInv == UIInv /\ ClientInv /\ [ClientNext]_allVars => UIInv' /\ ClientInv'
<1> SUFFICES ASSUME UIInv, ClientInv, [ClientNext]_allVars PROVE ClientInv'
  BY ClientIsCaller, NextUIInv
<1>1. ASSUME options.type = "none", UNCHANGED clientVars  PROVE ClientInv'
  BY <1>1 DEF ClientInv, clientVars
<1>2. ASSUME Main  PROVE options.type # "none"
  BY <1>2 DEF Main, Connects, AddSocket, AddStdin, TuneSocket, TuneStdin, PollsReady, PollInterrupted,
     ReceiveMessage, ReceiveInterrupted, NoMessage, LooksAtStdin, GetsLine, GetsNothing, SendMessage,
     SendInterrupted, NothingToSend, Goes
<1>3. CASE Main
  BY <1>2, <1>3, CallsClientInv, PollsClientInv, LinesClientInv DEF Main
<1>4. ASSUME \/ \E line \in {"text", "blank"} : Type(line)
             \/ EndInput \/ Arrives
             \/ UNCHANGED allVars
      PROVE  ClientInv'
  <2>1. /\ poller' = poller /\ options' = options /\ pc' = pc /\ message' = message /\ turn' = turn
        /\ can_send' = can_send /\ can_recv' = can_recv
    BY <1>4 DEF Type, EndInput, Arrives, allVars, clientVars, vars, switches
  <2> QED
    BY <2>1 DEF ClientInv, ClientTyped, Given, Tuned, Heeded, Turns, HasStdin, Toggles, MayStill
<1> QED
  BY <1>1, <1>3, <1>4 DEF ClientNext

(* In every behaviour of the client the invariant holds, and its calls are *)
(* those of a caller that adds a key once.                                 *)
LEMMA ClientAlways == ClientSpec => UniqueSpec /\ [](UIInv /\ ClientInv)
<1>1. ClientInit => Init /\ UIInv /\ ClientInv
  BY InitUIInv, InitClientInv DEF ClientInit
<1>2. ClientSpec => [](UIInv /\ ClientInv)
  BY <1>1, NextClientInv, PTL DEF ClientSpec
<1> QED
  BY <1>1, <1>2, ClientIsCaller, PTL DEF ClientSpec, UniqueSpec

(* The assertions of main.cpp:176, :210 and :230, and the turns that       *)
(* request and reply sockets ask for, whatever the input and the signals.  *)
THEOREM ClientKeepsItsTurns == ClientSpec => []KeepsItsTurns
<1>1. UIInv /\ ClientInv => KeepsItsTurns
  <2> SUFFICES ASSUME UIInv, ClientInv PROVE KeepsItsTurns
    OBVIOUS
  <2>1. CASE options.type = "none"
    BY <2>1 DEF ClientInv, KeepsItsTurns
  <2>2. CASE options.type # "none"
    <3>1. ClientTyped /\ WatchedIn(poller) = Given /\ Heeded /\ Turns
      BY <2>2 DEF ClientInv
    <3>2. pc = "socket" => TheSocket \in WatchedIn(poller)
      BY <3>1 DEF Given
    <3>3. pc = "socket" /\ HasInput(poller, TheSocket) => can_recv /\ MayStill("recv")
      BY <3>1, <3>2, InputShows DEF Heeded
    <3> QED
      BY <3>1, <3>3 DEF KeepsItsTurns, ClientTyped, Turns
  <2> QED
    BY <2>1, <2>2
<1> QED
  BY <1>1, ClientAlways, PTL

(* The client's poller is the watch set too, though it is only a part of   *)
(* what the client does: the client's calls are all those of UniqueSpec.   *)
THEOREM ClientPollsAWatchSet == ClientSpec => ImplementsWatchSet
BY ClientAlways, PollerImplementsWatchSet

-------------------------------------------------------------------------------
(* The lines of the client. *)

(* The lines that messages have between them. *)
LinesOf(all) == UNION {{all[m][i] : i \in DOMAIN all[m]} : m \in DOMAIN all}

(* They come in order. *)
InOrder(all) ==
  \A m, n \in DOMAIN all : \A i \in DOMAIN all[m], j \in DOMAIN all[n] :
    m < n \/ (m = n /\ i < j) => all[m][i] < all[n][j]

(* The two halves of Splits. *)
LEMMA SplitsIs == \A all, S : Splits(all, S) <=> S = LinesOf(all) /\ InOrder(all)
BY DEF Splits, LinesOf, InOrder

(* A line of a message is one of the lines. *)
LEMMA LineOf ==
  ASSUME NEW all, NEW m \in DOMAIN all, NEW i \in DOMAIN all[m]
  PROVE  all[m][i] \in LinesOf(all)
BY DEF LinesOf

(* A further line at the end of the last message. *)
LEMMA SplitsGrows ==
  ASSUME NEW s \in Seq(Seq(Nat)), NEW msg \in Seq(Nat), NEW x \in Nat,
         NEW S \in SUBSET Nat, \A n \in S : n < x,
         NEW a, a = Append(s, msg), NEW b, b = Append(s, Append(msg, x)),
         Splits(a, S)
  PROVE  Splits(b, S \cup {x})
<1> DEFINE L == Len(s) + 1
           M == Len(msg) + 1
<1>1. /\ L \in Nat /\ M \in Nat /\ M - 1 = Len(msg)
      /\ DOMAIN a = 1..L /\ DOMAIN b = 1..L /\ L \in 1..L
      /\ a[L] = msg /\ b[L] = Append(msg, x)
      /\ DOMAIN msg = 1..(M - 1) /\ DOMAIN b[L] = 1..M
      /\ b[L][M] = x
  OBVIOUS
<1>2. ASSUME NEW m \in 1..L, m # L  PROVE b[m] = a[m]
  <2>1. m \in 1..Len(s)
    BY <1>2
  <2>2. a[m] = s[m]
    BY <2>1
  <2>3. b[m] = s[m]
    BY <2>1
  <2> QED
    BY <2>2, <2>3
<1>3. \A i \in 1..(M - 1) : b[L][i] = msg[i]
  OBVIOUS
<1> HIDE DEF L, M
<1>4. S = LinesOf(a) /\ InOrder(a)
  BY SplitsIs
<1>5. ASSUME NEW m \in DOMAIN b, NEW i \in DOMAIN b[m]
      PROVE  \/ m = L /\ i = M /\ b[m][i] = x
             \/ m \in DOMAIN a /\ i \in DOMAIN a[m] /\ b[m][i] = a[m][i]
  <2>1. CASE m = L
    <3>1. i \in 1..M
      BY <1>1, <2>1
    <3>2. i = M \/ i \in 1..(M - 1)
      BY <1>1, <3>1
    <3> QED
      BY <1>1, <1>3, <2>1, <3>2
  <2>2. CASE m # L
    BY <1>1, <1>2, <2>2
  <2> QED
    BY <2>1, <2>2
<1>6. ASSUME NEW m \in DOMAIN a, NEW i \in DOMAIN a[m]
      PROVE  m \in DOMAIN b /\ i \in DOMAIN b[m] /\ b[m][i] = a[m][i] /\ a[m][i] \in S
  <2>1. CASE m = L
    <3>1. i \in 1..(M - 1)
      BY <1>1, <2>1
    <3>2. i \in 1..M
      BY <1>1, <3>1
    <3> QED
      BY <1>1, <1>3, <1>4, <2>1, <3>1, <3>2, LineOf
  <2>2. CASE m # L
    BY <1>1, <1>2, <1>4, <2>2, LineOf
  <2> QED
    BY <2>1, <2>2
<1>7. LinesOf(b) = S \cup {x}
  <2>1. ASSUME NEW y \in LinesOf(b) PROVE y \in S \cup {x}
    <3>1. PICK m \in DOMAIN b : \E i \in DOMAIN b[m] : y = b[m][i]
      BY DEF LinesOf
    <3>2. PICK i \in DOMAIN b[m] : y = b[m][i]
      BY <3>1
    <3> QED
      BY <1>5, <1>6, <3>2
  <2>2. ASSUME NEW y \in S PROVE y \in LinesOf(b)
    <3>1. PICK m \in DOMAIN a : \E i \in DOMAIN a[m] : y = a[m][i]
      BY <1>4 DEF LinesOf
    <3>2. PICK i \in DOMAIN a[m] : y = a[m][i]
      BY <3>1
    <3> QED
      BY <1>6, <3>2, LineOf
  <2>3. x \in LinesOf(b)
    <3>1. L \in DOMAIN b /\ M \in DOMAIN b[L] /\ b[L][M] = x
      BY <1>1
    <3> QED
      BY <3>1, LineOf
  <2> QED
    BY <2>1, <2>2, <2>3
<1>8. InOrder(b)
  <2> SUFFICES ASSUME NEW m \in DOMAIN b, NEW n \in DOMAIN b,
                      NEW i \in DOMAIN b[m], NEW j \in DOMAIN b[n],
                      m < n \/ (m = n /\ i < j)
               PROVE  b[m][i] < b[n][j]
    BY DEF InOrder
  <2>0. m \in 1..L /\ n \in 1..L /\ (m = L => i \in 1..M) /\ (n = L => j \in 1..M)
    BY <1>1
  <2>1. ~(m = L /\ i = M)
    BY <1>1, <2>0
  <2>2. m \in DOMAIN a /\ i \in DOMAIN a[m] /\ b[m][i] = a[m][i] /\ a[m][i] \in S
    BY <1>5, <1>6, <2>1
  <2>3. CASE n = L /\ j = M
    BY <1>1, <2>2, <2>3
  <2>4. CASE ~(n = L /\ j = M)
    <3>1. n \in DOMAIN a /\ j \in DOMAIN a[n] /\ b[n][j] = a[n][j]
      BY <1>5, <2>4
    <3> QED
      BY <1>4, <2>2, <3>1 DEF InOrder
  <2> QED
    BY <2>3, <2>4
<1> QED
  BY <1>7, <1>8, SplitsIs

(* A message that is sent is followed by an empty one. *)
LEMMA SplitsEnds ==
  ASSUME NEW s \in Seq(Seq(Nat)), NEW S, Splits(s, S), NEW b, b = Append(s, <<>>)
  PROVE  Splits(b, S)
<1>1. /\ DOMAIN b = 1..(Len(s) + 1) /\ DOMAIN s = 1..Len(s) /\ Len(s) \in Nat
      /\ b[Len(s) + 1] = <<>>
      /\ \A m \in DOMAIN s : b[m] = s[m]
  OBVIOUS
<1>2. ASSUME NEW m \in DOMAIN b, NEW i \in DOMAIN b[m]  PROVE m \in DOMAIN s /\ b[m] = s[m]
  <2>1. DOMAIN <<>> = {}
    OBVIOUS
  <2>2. m # Len(s) + 1
    BY <1>1, <2>1
  <2>3. m \in DOMAIN s
    BY <1>1, <2>2
  <2> QED
    BY <1>1, <2>3
<1>3. \A m \in DOMAIN s : m \in DOMAIN b /\ b[m] = s[m]
  BY <1>1
<1>4. LinesOf(b) = LinesOf(s)
  BY <1>2, <1>3 DEF LinesOf
<1>5. InOrder(s) => InOrder(b)
  BY <1>2 DEF InOrder
<1> QED
  BY <1>4, <1>5, SplitsIs

(* stdio has read a part of the input, and fgets returned a part of that.  *)
Stdio ==
  /\ lines \in Seq({"text", "blank"})
  /\ taken \in Nat /\ buffered \in Nat /\ taken <= buffered /\ buffered <= Len(lines)

(* What was sent and what is being put together has the lines taken.       *)
Carried ==
  /\ sent \in Seq(Seq(Nat)) /\ message \in Seq(Nat)
  /\ Splits(Append(sent, message), TextTaken)

(* A client that only sends leaves a terminal only when its input is over: *)
(* no poll of it returns for anything else than input.                     *)
Stays ==
  /\ options.type = "push" => can_send /\ ~can_recv
  /\ options.type = "pull" => ~can_send
  /\ options.type = "push" /\ options.terminal /\ pc \in {"socket", "stdin"} =>
       "in" \in RaisedIn(poller)[Stdin]
  /\ pc = "left" => Toggles \/ ~options.terminal
  /\ pc = "failed" => AtEnd

(* The invariant that goes with ClientInv for what is read and sent.       *)
LinesInv ==
  options.type # "none" => Stdio /\ (~options.signals => Carried /\ Stays)

(* Before the first line nothing is lost.                                  *)
LEMMA InitLinesInv == ClientInit => LinesInv
<1> SUFFICES ASSUME ClientInit, options.type # "none" PROVE LinesInv
  BY DEF LinesInv
<1>1. /\ pc = "start" /\ message = <<>> /\ sent = <<>>
      /\ can_send = (options.type \in {"push", "request"})
      /\ can_recv = (options.type \in {"pull", "reply"})
      /\ lines = <<>> /\ buffered = 0 /\ taken = 0
  BY DEF ClientInit
<1>2. Stdio
  BY <1>1 DEF Stdio
<1>3. TextTaken = {}
  BY <1>1 DEF TextTaken
<1>4. Splits(<<>>, {})
  BY DEF Splits
<1>5. sent \in Seq(Seq(Nat)) /\ message \in Seq(Nat) /\ message = <<>>
  BY <1>1
<1>6. Splits(Append(sent, message), {})
  BY <1>1, <1>4, <1>5, SplitsEnds
<1>7. Stays
  BY <1>1 DEF Stays
<1> QED
  BY <1>2, <1>3, <1>5, <1>6, <1>7 DEF LinesInv, Carried

(* A client that only sends, polling a terminal, finds input and nothing   *)
(* else: the socket is not watched for any, and the pipe's hangup is not   *)
(* the terminal's.                                                         *)
LEMMA PushFindsInput ==
  ASSUME UIInv, ClientInv, PollsReady, options.type = "push", options.terminal,
         can_send, ~can_recv
  PROVE  "in" \in RaisedIn(poller')[Stdin]
<1> USE ClientNames
<1>1. /\ pc = "poll" /\ HasStdin /\ Given = {TheSocket, Stdin}
      /\ WatchedIn(poller) = Given /\ Tuned
  BY DEF PollsReady, Goes, HasStdin, Given, ClientInv
<1>2. /\ InterestIn(poller)[TheSocket] = {}
      /\ InterestIn(poller)[Stdin] = {"in"}
  BY <1>1 DEF Tuned, WhatIf
<1>3. /\ poller \in Pollers /\ Sound(poller) /\ Complete(poller)
      /\ DOMAIN poller.items = 1..Len(poller.items)
  BY PollerIs DEF Pollers
<1>4. PICK i \in DOMAIN poller.items :
        Ready(poller.items[i].key) \cap Raisable(poller.items[i].key, poller.items[i].events) # {}
  BY DEF PollsReady
<1>5. poller.items[i].key \in WatchedIn(poller)
  BY <1>3, CompleteLength
<1>6. InterestIn(poller)[poller.items[i].key] = poller.items[i].events
  BY <1>3, <1>5 DEF InterestIn, WatchedIn, Complete
<1>7. TheSocket \notin Fds
  BY ClientAssumption, KeysDisjoint
<1>8. Raisable(TheSocket, {}) = {}
  BY <1>7 DEF Raisable
<1>9. poller.items[i].key = Stdin
  BY <1>1, <1>2, <1>4, <1>5, <1>6, <1>8
<1>10. "in" \in Ready(Stdin)
  BY <1>4, <1>9 DEF Ready, WhatIf
<1>11. Stdin \in Fds
  BY ClientAssumption
<1>12. "in" \in Raisable(Stdin, {"in"})
  BY <1>11 DEF Raisable
<1> QED
  BY <1>1, <1>2, <1>10, <1>12, PollsReadyRaises

(* Steps that neither read a line nor send.                                *)
LEMMA QuietLinesInv ==
  ASSUME UIInv, ClientInv, LinesInv, options.type # "none",
         \/ Connects \/ AddSocket \/ AddStdin \/ TuneSocket \/ TuneStdin
         \/ PollsReady \/ PollInterrupted \/ ReceiveMessage \/ ReceiveInterrupted \/ NoMessage
         \/ LooksAtStdin \/ NothingToSend
  PROVE  LinesInv'
<1>1. /\ options' = options /\ message' = message /\ sent' = sent
      /\ lines' = lines /\ closed' = closed /\ buffered' = buffered /\ taken' = taken
  BY DEF Connects, AddSocket, AddStdin, TuneSocket, TuneStdin, PollsReady, PollInterrupted,
         ReceiveMessage, ReceiveInterrupted, NoMessage, LooksAtStdin, NothingToSend, input
<1>2. Stdio'
  BY <1>1 DEF LinesInv, Stdio
<1>3. ASSUME ~options.signals PROVE Carried'
  BY <1>1, <1>3 DEF LinesInv, Carried, TextTaken
<1>4. ASSUME ~options.signals PROVE Stays'
  <2>1. Stays /\ ClientTyped
    BY <1>4 DEF LinesInv, ClientInv
  <2>2. CASE Connects \/ AddSocket \/ AddStdin \/ TuneSocket \/ TuneStdin \/ NothingToSend
    <3>1. /\ pc' \in {"add", "refused", "addStdin", "tune", "tuneStdin", "poll"}
          /\ can_send' = can_send /\ can_recv' = can_recv
      BY <2>2 DEF Connects, AddSocket, AddStdin, TuneSocket, TuneStdin, NothingToSend, Goes, switches
    <3> QED
      BY <1>1, <2>1, <3>1 DEF Stays
  <2>3. CASE PollsReady
    <3>1. pc' = "socket" /\ can_send' = can_send /\ can_recv' = can_recv
      BY <2>3 DEF PollsReady, Goes, switches
    <3>2. options.type = "push" /\ options.terminal => "in" \in RaisedIn(poller')[Stdin]
      BY <2>1, <2>3, PushFindsInput DEF Stays
    <3> QED
      BY <1>1, <2>1, <3>1, <3>2 DEF Stays
  <2>4. ~PollInterrupted /\ ~ReceiveInterrupted
    BY <1>4 DEF PollInterrupted, ReceiveInterrupted
  <2>5. CASE ReceiveMessage \/ NoMessage
    <3>1. /\ pc = "socket" /\ pc' = "stdin" /\ poller' = poller
          /\ Toggles \/ (can_send' = can_send /\ can_recv' = can_recv)
      BY <2>5 DEF ReceiveMessage, NoMessage, Events, Goes, switches
    <3> QED
      BY <1>1, <2>1, <3>1 DEF Stays, Toggles
  <2>6. CASE LooksAtStdin
    <3>1. /\ pc = "stdin" /\ can_send' = can_send /\ can_recv' = can_recv
          /\ \/ pc' \in {"tune", "gets"}
             \/ pc' = "left" /\ HasStdin /\ ~HasInput(poller, Stdin) /\ can_send
      BY <2>6 DEF LooksAtStdin, Goes, switches
    <3>2. ASSUME pc' = "left" PROVE Toggles \/ ~options.terminal
      <4>1. HasStdin /\ ~HasInput(poller, Stdin) /\ can_send
        BY <3>1, <3>2
      <4>2. Stdin \in WatchedIn(poller)
        BY <3>1, <4>1 DEF ClientInv, Given
      <4>3. "in" \notin RaisedIn(poller)[Stdin]
        BY <4>1, <4>2, InputShows
      <4> QED
        BY <2>1, <3>1, <4>1, <4>3 DEF Stays, ClientTyped, Toggles, HasStdin
    <3> QED
      BY <1>1, <2>1, <3>1, <3>2 DEF Stays, Toggles
  <2> QED
    BY <2>2, <2>3, <2>4, <2>5, <2>6
<1> QED
  BY <1>1, <1>2, <1>3, <1>4 DEF LinesInv

(* A line that fgets returns goes into the message, or ends it.            *)
LEMMA GetsLinesInv ==
  ASSUME ClientInv, LinesInv, options.type # "none", GetsLine
  PROVE  LinesInv'
<1>1. /\ options' = options /\ sent' = sent /\ lines' = lines
      /\ can_send' = can_send /\ can_recv' = can_recv
      /\ taken' = taken + 1 /\ Reads
  BY DEF GetsLine, switches
<1>2. /\ lines \in Seq({"text", "blank"}) /\ Len(lines) \in Nat
      /\ taken \in Nat /\ buffered \in Nat /\ taken <= buffered /\ buffered <= Len(lines)
  BY DEF LinesInv, Stdio
<1>3. Stdio'
  <2>1. buffered' \in Nat /\ taken < buffered' /\ buffered' <= Len(lines)
    BY <1>1, <1>2 DEF Reads
  <2> QED
    BY <1>1, <1>2, <2>1 DEF Stdio
<1>4. taken' \in 1..Len(lines)
  BY <1>1, <1>2, <1>3 DEF Stdio
<1>5. TextTaken' = IF lines[taken'] = "text" THEN TextTaken \cup {taken'} ELSE TextTaken
  <2>1. 1..taken' = (1..taken) \cup {taken'}
    BY <1>1, <1>2
  <2> QED
    BY <1>1, <2>1 DEF TextTaken
<1>6. ASSUME ~options.signals PROVE Carried'
  <2>1. Carried
    BY <1>6 DEF LinesInv
  <2>2. CASE lines[taken'] = "blank"
    <3>1. message' = message /\ TextTaken' = TextTaken
      BY <1>5, <2>2 DEF GetsLine
    <3> QED
      BY <1>1, <2>1, <3>1 DEF Carried
  <2>3. CASE lines[taken'] # "blank"
    <3>1. lines[taken'] = "text"
      BY <1>2, <1>4, <2>3
    <3>2. message' = Append(message, taken') /\ TextTaken' = TextTaken \cup {taken'}
      BY <1>5, <2>3, <3>1 DEF GetsLine
    <3>3. TextTaken \in SUBSET Nat /\ \A n \in TextTaken : n < taken'
      BY <1>1, <1>2 DEF TextTaken
    <3>4. taken' \in Nat
      BY <1>1, <1>2
    <3>5. Splits(Append(sent, message'), TextTaken')
      BY <2>1, <3>2, <3>3, <3>4, SplitsGrows DEF Carried
    <3>6. message' \in Seq(Nat)
      BY <2>1, <3>2, <3>4 DEF Carried
    <3> QED
      BY <1>1, <2>1, <3>5, <3>6 DEF Carried
  <2> QED
    BY <2>2, <2>3
<1>7. pc = "gets" /\ pc' \in {"gets", "send"}
  BY DEF GetsLine, Goes
<1>8. ~options.signals => Stays'
  BY <1>1, <1>7 DEF LinesInv, Stays
<1> QED
  BY <1>1, <1>3, <1>6, <1>8 DEF LinesInv

(* The end of the input, and sends.                                         *)
LEMMA SendsLinesInv ==
  ASSUME ClientInv, LinesInv, options.type # "none",
         GetsNothing \/ SendMessage \/ SendInterrupted
  PROVE  LinesInv'
<1>1. /\ options' = options
      /\ lines' = lines /\ closed' = closed /\ buffered' = buffered /\ taken' = taken
  BY DEF GetsNothing, SendMessage, SendInterrupted, input
<1>2. Stdio'
  BY <1>1 DEF LinesInv, Stdio
<1>3. CASE GetsNothing
  <2>1. /\ pc' \in {"failed", "send"} /\ AtEnd /\ sent' = sent /\ message' = message
        /\ can_send' = can_send /\ can_recv' = can_recv
    BY <1>3 DEF GetsNothing, Goes, switches
  <2>2. AtEnd'
    BY <1>1, <2>1 DEF AtEnd
  <2>3. ~options.signals => Carried'
    BY <1>1, <2>1 DEF LinesInv, Carried, TextTaken
  <2>4. ~options.signals => Stays'
    BY <1>1, <2>1, <2>2 DEF LinesInv, Stays
  <2> QED
    BY <1>1, <1>2, <2>3, <2>4 DEF LinesInv
<1>4. CASE SendInterrupted
  <2>1. options.signals
    BY <1>4 DEF SendInterrupted
  <2> QED
    BY <1>1, <1>2, <2>1 DEF LinesInv
<1>5. CASE SendMessage
  <2>1. /\ pc' = "tune" /\ sent' = Append(sent, message) /\ message' = <<>>
        /\ Toggles \/ (can_send' = can_send /\ can_recv' = can_recv)
    BY <1>5 DEF SendMessage, Goes, Flips, switches
  <2>2. ASSUME ~options.signals PROVE Carried'
    <3>1. Carried
      BY <2>2 DEF LinesInv
    <3>2. sent' \in Seq(Seq(Nat)) /\ message' \in Seq(Nat)
      BY <2>1, <3>1 DEF Carried
    <3>3. Splits(sent', TextTaken) /\ TextTaken' = TextTaken
      BY <1>1, <2>1, <3>1 DEF Carried, TextTaken
    <3>4. Splits(Append(sent', message'), TextTaken)
      BY <2>1, <3>2, <3>3, SplitsEnds
    <3> QED
      BY <3>2, <3>3, <3>4 DEF Carried
  <2>3. ~options.signals => Stays'
    BY <1>1, <2>1 DEF LinesInv, Stays, Toggles
  <2> QED
    BY <1>1, <1>2, <2>2, <2>3 DEF LinesInv
<1> QED
  BY <1>3, <1>4, <1>5

(* What is typed is appended, and taken later.                             *)
LEMMA InputLinesInv ==
  ASSUME LinesInv, options.type # "none",
         \/ \E line \in {"text", "blank"} : Type(line)
         \/ EndInput \/ Arrives
  PROVE  LinesInv'
<1>1. /\ options' = options /\ poller' = poller /\ pc' = pc /\ message' = message /\ sent' = sent
      /\ can_send' = can_send /\ can_recv' = can_recv /\ taken' = taken /\ buffered' = buffered
      /\ pc # "failed"
  BY DEF Type, EndInput, Arrives, vars, switches, input, Running
<1>2. Stdio
  BY DEF LinesInv
<1>3. /\ lines' \in Seq({"text", "blank"}) /\ Len(lines) <= Len(lines')
      /\ \A i \in 1..Len(lines) : lines'[i] = lines[i]
  <2>1. \/ \E line \in {"text", "blank"} : lines' = Append(lines, line)
        \/ lines' = lines
    BY DEF Type, EndInput, Arrives, input
  <2>2. ASSUME NEW line \in {"text", "blank"}, lines' = Append(lines, line)
        PROVE  /\ lines' \in Seq({"text", "blank"}) /\ Len(lines) <= Len(lines')
               /\ \A i \in 1..Len(lines) : lines'[i] = lines[i]
    BY <1>2, <2>2 DEF Stdio
  <2>3. ASSUME lines' = lines
        PROVE  /\ lines' \in Seq({"text", "blank"}) /\ Len(lines) <= Len(lines')
               /\ \A i \in 1..Len(lines) : lines'[i] = lines[i]
    BY <1>2, <2>3 DEF Stdio
  <2> QED
    BY <2>1, <2>2, <2>3
<1>4. Len(lines) \in Nat /\ Len(lines') \in Nat
  BY <1>2, <1>3 DEF Stdio
<1>5. Stdio'
  BY <1>1, <1>2, <1>3, <1>4 DEF Stdio
<1>6. TextTaken' = TextTaken
  <2>1. \A i \in 1..taken : i \in 1..Len(lines)
    BY <1>2, <1>4 DEF Stdio
  <2> QED
    BY <1>1, <1>3, <2>1 DEF TextTaken
<1>7. ~options.signals => Carried'
  BY <1>1, <1>6 DEF LinesInv, Carried
<1>8. ~options.signals => Stays'
  BY <1>1 DEF LinesInv, Stays, Toggles
<1> QED
  BY <1>1, <1>5, <1>7, <1>8 DEF LinesInv

(* Every step keeps the lines.                                              *)
LEMMA NextLinesInv == UIInv /\ ClientInv /\ LinesInv /\ [ClientNext]_allVars => LinesInv'
<1> SUFFICES ASSUME UIInv, ClientInv, LinesInv, [ClientNext]_allVars PROVE LinesInv'
  OBVIOUS
<1>1. CASE options.type = "none"
  <2>1. options' = options
    BY <1>1 DEF ClientNext, Main, Connects, AddSocket, AddStdin, TuneSocket, TuneStdin, PollsReady,
       PollInterrupted, ReceiveMessage, ReceiveInterrupted, NoMessage, LooksAtStdin, GetsLine,
       GetsNothing, SendMessage, SendInterrupted, NothingToSend, Type, EndInput, Arrives,
       clientVars, allVars
  <2> QED
    BY <1>1, <2>1 DEF LinesInv
<1>2. CASE options.type # "none" /\ UNCHANGED allVars
  <2>1. /\ options' = options /\ poller' = poller /\ pc' = pc /\ message' = message /\ sent' = sent
        /\ can_send' = can_send /\ can_recv' = can_recv
        /\ lines' = lines /\ closed' = closed /\ taken' = taken /\ buffered' = buffered
    BY <1>2 DEF allVars, clientVars, vars, switches, input
  <2>2. Stdio' = Stdio /\ Carried' = Carried
    BY <2>1 DEF Stdio, Carried, TextTaken
  <2>3. Stays' = Stays
    BY <2>1 DEF Stays, AtEnd, Toggles
  <2> QED
    BY <2>1, <2>2, <2>3 DEF LinesInv
<1>3. CASE options.type # "none" /\ Main
  BY <1>3, QuietLinesInv, GetsLinesInv, SendsLinesInv DEF Main
<1>4. CASE options.type # "none" /\ ~Main /\ ClientNext
  BY <1>4, InputLinesInv DEF ClientNext
<1> QED
  BY <1>1, <1>2, <1>3, <1>4

(* No line that fgets returned is lost, doubled or out of order, and a     *)
(* client that only sends reads its terminal to the end (main.cpp:128,     *)
(* :207-284): however the lines and messages come, when no signal does.    *)
THEOREM ClientLosesNoLine == ClientSpec => []LosesNoLine
<1>1. ClientInv /\ LinesInv => LosesNoLine
  <2> SUFFICES ASSUME ClientInv, LinesInv, options.type # "none", ~options.signals
               PROVE  LosesNoLine
    BY DEF LosesNoLine
  <2>1. Carried /\ Stays
    BY DEF LinesInv
  <2>2. pc \in {"left", "failed"} /\ options.terminal /\ ~Toggles => AtEnd
    BY <2>1 DEF Stays
  <2> QED
    BY <2>1, <2>2 DEF LosesNoLine, Carried
<1>2. ClientSpec => []LinesInv
  BY ClientAlways, InitLinesInv, NextLinesInv, PTL DEF ClientSpec
<1> QED
  BY <1>1, <1>2, ClientAlways, PTL
===============================================================================
