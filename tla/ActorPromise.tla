----------------------------- MODULE ActorPromise -----------------------------
(***************************************************************************)
(* What zmqpp::actor promises the thread that owns actors: the constructor *)
(* returns once the routine said it started and throws when the routine    *)
(* failed before, with the routine's exception nested in its own; a        *)
(* blocking stop() answers how the routine ended, after it did.            *)
(***************************************************************************)
CONSTANT Pipes

VARIABLES
  run,      \* how far a pipe's routine is
  started,  \* the pipes whose routine signalled its start
  told      \* what the owner was told of a pipe's routine

Runs == {"none", "running", "true", "false", "thrown"}
News == {"nothing", "constructed", "refused", "nested", "true", "false"}

PInit ==
  /\ run = [p \in Pipes |-> "none"]
  /\ started = {}
  /\ told = [p \in Pipes |-> "nothing"]

Begin(p) ==
  /\ run[p] = "none"
  /\ run' = [run EXCEPT ![p] = "running"]
  /\ UNCHANGED <<started, told>>

StartUp(p) ==
  /\ run[p] = "running" /\ p \notin started
  /\ started' = started \cup {p}
  /\ UNCHANGED <<run, told>>

(* Only a routine that started ends well, only one that did not throws. *)
End(p, how) ==
  /\ run[p] = "running"
  /\ how = "true" => p \in started
  /\ how = "thrown" => p \notin started
  /\ run' = [run EXCEPT ![p] = how]
  /\ UNCHANGED <<started, told>>

Tell(p, news) == told' = [told EXCEPT ![p] = news] /\ UNCHANGED <<run, started>>

ConstructorReturns(p) ==
  told[p] = "nothing" /\ p \in started /\ Tell(p, "constructed")

ConstructorThrows(p) ==
  /\ told[p] = "nothing" /\ p \notin started
  /\ \/ run[p] = "false" /\ Tell(p, "refused")
     \/ run[p] = "thrown" /\ Tell(p, "nested")

StopAnswers(p) ==
  told[p] = "constructed" /\ run[p] \in {"true", "false"} /\ Tell(p, run[p])

PNext ==
  \E p \in Pipes :
    \/ Begin(p) \/ StartUp(p)
    \/ \E how \in {"true", "false", "thrown"} : End(p, how)
    \/ ConstructorReturns(p) \/ ConstructorThrows(p) \/ StopAnswers(p)

pvars == <<run, started, told>>

PSpec == PInit /\ [][PNext]_pvars
===============================================================================
