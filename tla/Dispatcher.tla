------------------------------ MODULE Dispatcher ------------------------------
(***************************************************************************)
(* What zmqpp::loop and zmqpp::reactor promise to those who add sockets    *)
(* and descriptors with handlers: a poll raises keys that are watched, for *)
(* input, output or an error (they do not look for poll_pri), then the     *)
(* handler of each raised key is called once, and of no other, until a     *)
(* handler ends the pass.  A loop may let a pass go that has not begun,    *)
(* and does when a key that the poll raised is not watched any more.       *)
(***************************************************************************)
CONSTANT Keys

VARIABLES
  watched,   \* keys that callers added and did not remove
  raised,    \* keys the poll raised whose handler was not called
  phase,     \* idle, raised (nobody was called yet), passing, or calling a handler
  handling   \* the key whose handler is running, or "none"

dvars == <<watched, raised, phase, handling>>

DInit == watched = {} /\ raised = {} /\ phase = "idle" /\ handling = "none"

(* Callers, and handlers, may call at any time but within the pass itself. *)
Watch(k) ==
  /\ phase # "passing"
  /\ watched' = watched \cup {k}
  /\ UNCHANGED <<raised, phase, handling>>

Forget(k) ==
  /\ phase # "passing"
  /\ watched' = watched \ {k}
  /\ UNCHANGED <<raised, phase, handling>>

Poll ==
  /\ phase = "idle" /\ phase' \in {"raised", "passing"}
  /\ raised' \in SUBSET watched
  /\ UNCHANGED <<watched, handling>>

Begin ==
  /\ phase = "raised" /\ phase' = "passing"
  /\ raised \subseteq watched
  /\ UNCHANGED <<watched, raised, handling>>

Drop ==
  /\ phase = "raised" /\ phase' = "idle"
  /\ raised' = {}
  /\ UNCHANGED <<watched, handling>>

CallHandler(k) ==
  /\ phase = "passing" /\ phase' = "calling"
  /\ k \in raised
  /\ raised' = raised \ {k} /\ handling' = k
  /\ UNCHANGED watched

Return ==
  /\ phase = "calling" /\ phase' = "passing"
  /\ handling' = "none"
  /\ UNCHANGED <<watched, raised>>

Stop ==
  /\ phase = "calling" /\ phase' = "idle"
  /\ raised' = {} /\ handling' = "none"
  /\ UNCHANGED watched

End ==
  /\ phase = "passing" /\ phase' = "idle"
  /\ raised = {}
  /\ UNCHANGED <<watched, raised, handling>>

DNext ==
  \/ \E k \in Keys : Watch(k) \/ Forget(k) \/ CallHandler(k)
  \/ Poll \/ Begin \/ Drop \/ Return \/ Stop \/ End

DSpec == DInit /\ [][DNext]_dvars
===============================================================================
