------------------------------- MODULE WatchSet -------------------------------
(***************************************************************************)
(* What a zmqpp::poller promises its user (src/src/zmqpp/poller.hpp): a    *)
(* set of watched sockets and descriptors, for each of them the events     *)
(* asked for and the events the last poll raised.  Nothing of the vector   *)
(* and the two hash maps that implement it is visible here.  Poller.tla    *)
(* implements this specification.                                          *)
(***************************************************************************)
EXTENDS PollTable

VARIABLES
  watched,     \* the keys under watch
  interest,    \* key -> the events to monitor
  raised,      \* key -> the events the last poll reported
  answer       \* what the last call returned

wvars == <<watched, interest, raised, answer>>

\* A key outside `watched` has no interest and no events.
WInit ==
  /\ watched = {}
  /\ interest = [k \in Keys |-> {}]
  /\ raised = [k \in Keys |-> {}]
  /\ answer = Done

Watch(k, mask) ==
  /\ k \notin watched
  /\ watched' = watched \cup {k}
  /\ interest' = [interest EXCEPT ![k] = mask]
  /\ raised' = [raised EXCEPT ![k] = {}]
  /\ answer' = Done

Unwatch(k) ==
  /\ watched' = watched \ {k}
  /\ interest' = [interest EXCEPT ![k] = {}]
  /\ raised' = [raised EXCEPT ![k] = {}]
  /\ answer' = Done

Retune(k, mask) ==
  /\ IF k \in watched
       THEN interest' = [interest EXCEPT ![k] = mask] /\ answer' = Done
       ELSE UNCHANGED interest /\ answer' = Thrown
  /\ UNCHANGED <<watched, raised>>

AskHas(k) ==
  /\ answer' = Bool(k \in watched)
  /\ UNCHANGED <<watched, interest, raised>>

AskEvents(k) ==
  /\ answer' = IF k \in watched THEN Report(raised[k]) ELSE Thrown
  /\ UNCHANGED <<watched, interest, raised>>

\* A poll that completes reports, for every watched key, events that key was
\* watched for (or an error of a descriptor), and answers whether there are any.
PollCompletes ==
  /\ raised' \in [Keys -> SUBSET Flags]
  /\ \A k \in Keys :
       raised'[k] \subseteq IF k \in watched THEN Raisable(k, interest[k]) ELSE {}
  /\ answer' = Bool(\E k \in watched : raised'[k] # {})
  /\ UNCHANGED <<watched, interest>>

\* A poll that fails may have refreshed some keys and not others.
PollFails ==
  /\ raised' \in [Keys -> SUBSET Flags]
  /\ \A k \in Keys :
       \/ raised'[k] = raised[k]
       \/ k \in watched /\ raised'[k] \subseteq Raisable(k, interest[k])
  /\ answer' \in {Bool(FALSE), Thrown}
  /\ UNCHANGED <<watched, interest>>

WNext ==
  \/ \E k \in Keys :
       \/ \E mask \in Masks : Watch(k, mask) \/ Retune(k, mask)
       \/ Unwatch(k)
       \/ AskHas(k)
       \/ AskEvents(k)
  \/ PollCompletes
  \/ PollFails

WSpec == WInit /\ [][WNext]_wvars
===============================================================================
