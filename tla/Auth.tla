---------------------------------- MODULE Auth ----------------------------------
(***************************************************************************)
(* zmqpp::auth (src/src/zmqpp/auth.cpp): an object whose actor answers the *)
(* requests of libzmq whether a client may connect, by lists which the     *)
(* caller's thread changes with commands over the actor's pipe.  A second  *)
(* object of the same context finds the name of the service taken.         *)
(* Actor has the pipe in detail; here the caller only uses it through      *)
(* auth's own members.                                                     *)
(***************************************************************************)
EXTENDS Integers, Sequences

CONSTANTS
  Auths,      \* the objects, each constructed once and used by one thread
  Addresses, Users, Passwords, Keys,
  Requests,   \* the requests libzmq makes
  Uses        \* sets of what may happen besides the plain use:
              \*   "eintr"  a signal interrupts the routine's poll or its receive, or
              \*            the caller's send of a command
              \*   "again"  a user is configured a second time, with another password

CONSTANTS
  MaxPending,      \* bound on the requests that wait
  Nobody, AnyKey   \* AnyKey is the text CURVE_ALLOW_ANY

ASSUME AuthAssumption == Nobody \notin Auths /\ AnyKey \notin Keys

Mechanisms == {"NULL", "PLAIN", "CURVE", "GSSAPI"}

ASSUME RequestAssumption ==
  \A r \in Requests : r.address \in Addresses /\ r.mechanism \in Mechanisms

VARIABLES
  use,         \* which of Uses it is
  caller,      \* where the thread that uses an object is
  asked,       \* the command its call sent
  given,       \* the settings its calls that returned have asked for
  server,      \* where the actor's routine is
  polled,      \* the sockets auth_poller found ready and the loop has not yet looked at
  policy,      \* whitelist, blacklist, passwords, client_keys and curve_allow_any
  terminated,  \* the member of that name
  down, up,    \* what is under way to the routine and to the caller
  bound,       \* whose socket has zap_endpoint_
  zap,         \* the requests that wait there
  replied      \* the last request and its answer

callerVars == <<caller, asked, given>>
serverVars == <<server, polled, policy, terminated>>
zapVars == <<bound, zap, replied>>
vars == <<use, callerVars, serverVars, down, up, zapVars>>

NoPolicy == [whitelist |-> {}, blacklist |-> {}, passwords |-> {}, client_keys |-> {},
             curve_allow_any |-> FALSE]

Terminate == <<"TERMINATE", "">>
NoCommand == <<"", "">>

(* z85::encode: a text for 32 bytes, for no two the same. *)
Z85(key) == <<"z85", key>>

(* Callers name keys by their text. *)
Settings ==
  ({"ALLOW", "DENY"} \X Addresses) \cup ({"PLAIN"} \X (Users \X Passwords))
    \cup ({"CURVE"} \X ({Z85(key) : key \in Keys} \cup {AnyKey}))
    \cup ({"DOMAIN", "GSSAPI", "VERBOSE"} \X {""})

Init ==
  /\ use \in Uses
  /\ caller = [a \in Auths |-> "none"] /\ asked = [a \in Auths |-> NoCommand]
  /\ given = [a \in Auths |-> NoPolicy]
  /\ server = [a \in Auths |-> "none"] /\ polled = [a \in Auths |-> {}]
  /\ policy = [a \in Auths |-> NoPolicy] /\ terminated = [a \in Auths |-> FALSE]
  /\ down = [a \in Auths |-> <<>>] /\ up = [a \in Auths |-> <<>>]
  /\ bound = Nobody /\ zap = <<>> /\ replied = <<>>

-------------------------------------------------------------------------------
(* The lists. *)

(* A list decides about an address; a whitelist counts before a blacklist. *)
Listed(p) == p.whitelist \cup p.blacklist # {}

Denied(p, address) ==
  IF p.whitelist # {} THEN address \notin p.whitelist ELSE address \in p.blacklist

(* zap_request: the frames that libzmq sends for the mechanism. *)
Request(frames) ==
  [address    |-> frames.address,
   mechanism  |-> frames.mechanism,
   credential |-> IF frames.mechanism = "CURVE" THEN Z85(frames.credential) ELSE frames.credential]

(* authenticate_plain and authenticate_curve. *)
Authenticates(p, r) ==
  IF r.mechanism = "PLAIN" THEN r.credential \in p.passwords
  ELSE p.curve_allow_any \/ r.credential \in p.client_keys

UserId(r) ==
  CASE r.mechanism = "PLAIN" -> r.credential[1]
    [] r.mechanism = "CURVE" -> r.credential
    [] OTHER -> ""

(* The frames of reply(); the metadata are always empty. *)
Reply(status, user) == [status |-> status, user |-> user]

(* Mutant: a whitelisted address needs neither password nor key. *)
VerdictListedFirst(p, r) ==
  LET allowed == /\ ~Denied(p, r.address)
                 /\ \/ p.whitelist # {} \/ r.mechanism \in {"NULL", "GSSAPI"}
                    \/ Authenticates(p, r)
                 /\ Listed(p) \/ r.mechanism \in Mechanisms
  IN  IF allowed THEN Reply("200", UserId(r)) ELSE Reply("400", "")

(* The answer to a request: its status and the User-Id.  A mechanism that   *)
(* auth does not know is denied, unless a list decided.                    *)
Verdict(p, r) ==
  LET allowed == /\ ~Denied(p, r.address)
                 /\ r.mechanism \in {"PLAIN", "CURVE"} => Authenticates(p, r)
                 /\ Listed(p) \/ r.mechanism \in Mechanisms
  IN  IF allowed THEN Reply("200", UserId(r)) ELSE Reply("400", "")

(* Mutant: a key does not take back the permission for any key. *)
ConfiguredKeepsAny(p, c) ==
  CASE c[1] = "ALLOW" -> [p EXCEPT !.whitelist = @ \cup {c[2]}]
    [] c[1] = "CURVE" -> IF c[2] = AnyKey THEN [p EXCEPT !.curve_allow_any = TRUE]
                         ELSE [p EXCEPT !.client_keys = @ \cup {c[2]}]
    [] OTHER -> p

(* What a command makes of the lists: insert() leaves a user's password as *)
(* it is, and a key takes back the permission for any key.                 *)
Configured(p, c) ==
  CASE c[1] = "ALLOW" -> [p EXCEPT !.whitelist = @ \cup {c[2]}]
    [] c[1] = "DENY"  -> [p EXCEPT !.blacklist = @ \cup {c[2]}]
    [] c[1] = "PLAIN" -> IF \E entry \in p.passwords : entry[1] = c[2][1] THEN p
                         ELSE [p EXCEPT !.passwords = @ \cup {c[2]}]
    [] c[1] = "CURVE" -> IF c[2] = AnyKey THEN [p EXCEPT !.curve_allow_any = TRUE]
                         ELSE [p EXCEPT !.curve_allow_any = FALSE,
                                        !.client_keys = @ \cup {c[2]}]
    [] OTHER -> p

-------------------------------------------------------------------------------
(* The routine of the actor. *)

ToServer(a, c) == down' = [down EXCEPT ![a] = Append(@, c)]
ToCaller(a, sig) == up' = [up EXCEPT ![a] = Append(@, sig)]

(* bind() fails when the name is taken. *)
Starts(a) ==
  /\ server[a] = "starting"
  /\ IF bound = Nobody
       THEN bound' = a /\ ToCaller(a, "ok") /\ server' = [server EXCEPT ![a] = "serving"]
       ELSE server' = [server EXCEPT ![a] = "refused"] /\ UNCHANGED <<bound, up>>
  /\ UNCHANGED <<use, callerVars, polled, policy, terminated, down, zap, replied>>

(* The head of the loop. *)
AtPoll(a) == server[a] = "serving" /\ polled[a] = {} /\ ~terminated[a]

Poll(a) ==
  LET ready == {s \in {"zap", "pipe"} : IF s = "zap" THEN zap # <<>> ELSE down[a] # <<>>}
  IN  /\ AtPoll(a) /\ ready # {}
      /\ polled' = [polled EXCEPT ![a] = ready]
      /\ UNCHANGED <<use, callerVars, server, policy, terminated, down, up, zapVars>>

Looks(a, s) == s \in polled[a] /\ polled' = [polled EXCEPT ![a] = @ \ {s}]

Authenticate(a) ==
  /\ Looks(a, "zap")
  /\ replied' = <<Head(zap), Verdict(policy[a], Request(Head(zap)))>>
  /\ zap' = Tail(zap)
  /\ UNCHANGED <<use, callerVars, server, policy, terminated, down, up, bound>>

(* A signal interrupts the receive.  The 500 that is sent instead of an     *)
(* answer has no request to go to: the send throws, and the routine ends.  *)
AuthenticateInterrupted(a) ==
  /\ "eintr" \in use /\ "zap" \in polled[a]
  /\ polled' = [polled EXCEPT ![a] = {}]
  /\ server' = [server EXCEPT ![a] = "throwing"]
  /\ bound' = Nobody /\ zap' = <<>>
  /\ UNCHANGED <<use, callerVars, policy, terminated, down, up, replied>>

(* Mutants: the pipe is looked at first; a command has no answer. *)
HandleCommandFirst(a) ==
  LET c == Head(down[a])
  IN  /\ Looks(a, "pipe")
      /\ policy' = [policy EXCEPT ![a] = Configured(@, c)]
      /\ terminated' = [terminated EXCEPT ![a] = (c = Terminate)]
      /\ ToCaller(a, "ok")
      /\ down' = [down EXCEPT ![a] = Tail(@)]
      /\ UNCHANGED <<use, callerVars, server, zapVars>>

HandleCommandMute(a) ==
  LET c == Head(down[a])
  IN  /\ "zap" \notin polled[a] /\ Looks(a, "pipe")
      /\ policy' = [policy EXCEPT ![a] = Configured(@, c)]
      /\ terminated' = [terminated EXCEPT ![a] = (c = Terminate)]
      /\ IF c[1] = "GSSAPI" THEN UNCHANGED up ELSE ToCaller(a, "ok")
      /\ down' = [down EXCEPT ![a] = Tail(@)]
      /\ UNCHANGED <<use, callerVars, server, zapVars>>

HandleCommand(a) ==
  LET c == Head(down[a])
  IN  /\ "zap" \notin polled[a] /\ Looks(a, "pipe")
      /\ policy' = [policy EXCEPT ![a] = Configured(@, c)]
      /\ terminated' = [terminated EXCEPT ![a] = (c = Terminate)]
      /\ ToCaller(a, "ok")
      /\ down' = [down EXCEPT ![a] = Tail(@)]
      /\ UNCHANGED <<use, callerVars, server, zapVars>>

(* A signal interrupts the receive: the command waits for the next poll. *)
CommandInterrupted(a) ==
  /\ "eintr" \in use /\ "zap" \notin polled[a] /\ Looks(a, "pipe")
  /\ UNCHANGED <<use, callerVars, server, policy, terminated, down, up, zapVars>>

(* The loop ends on TERMINATE, or because poll() answers false to a signal; *)
(* the name is given up and what waits there is dropped.                   *)
Leave(a) ==
  /\ server[a] = "serving" /\ polled[a] = {}
  /\ terminated[a] \/ "eintr" \in use
  /\ server' = [server EXCEPT ![a] = "leaving"]
  /\ bound' = Nobody /\ zap' = <<>>
  /\ UNCHANGED <<use, callerVars, polled, policy, terminated, down, up, replied>>

(* The actor answers for its routine and closes the pipe. *)
Ends(a) ==
  /\ server[a] \in {"leaving", "throwing", "refused"}
  /\ ToCaller(a, IF server[a] = "leaving" THEN "ok" ELSE "ko")
  /\ server' = [server EXCEPT ![a] = "ended"]
  /\ down' = [down EXCEPT ![a] = <<>>]
  /\ UNCHANGED <<use, callerVars, polled, policy, terminated, zapVars>>

(* libzmq asks whether a client may connect. *)
Asks(r) ==
  /\ bound # Nobody /\ Len(zap) < MaxPending
  /\ zap' = Append(zap, r)
  /\ UNCHANGED <<use, callerVars, serverVars, down, up, bound, replied>>

-------------------------------------------------------------------------------
(* The thread that uses an object. *)

Moves(a, from, to) == caller[a] = from /\ caller' = [caller EXCEPT ![a] = to]

(* pipe()->send(): to a routine that ended, the message is lost, or the    *)
(* call waits once the closing of the other end was noticed.  What it      *)
(* answers is ignored: interrupted by a signal it has sent nothing, and    *)
(* the caller waits for the answer as ever.                                *)
Sends(a, c, to) ==
  /\ asked' = [asked EXCEPT ![a] = c]
  /\ \/ server[a] # "ended" /\ Moves(a, "ready", to) /\ ToServer(a, c)
     \/ /\ server[a] = "ended" /\ UNCHANGED down
        /\ \E then \in {to, "stuck"} : Moves(a, "ready", then)
     \/ "eintr" \in use /\ Moves(a, "ready", to) /\ UNCHANGED down

(* A signal interrupts a send that waits. *)
SendInterrupted(a) ==
  /\ "eintr" \in use
  /\ Moves(a, "stuck", IF asked[a] = Terminate THEN "terminating" ELSE "calling")
  /\ UNCHANGED <<use, asked, given, serverVars, down, up, zapVars>>

Construct(a) ==
  /\ Moves(a, "none", "constructing")
  /\ server' = [server EXCEPT ![a] = "starting"]
  /\ UNCHANGED <<use, asked, given, polled, policy, terminated, down, up, zapVars>>

(* The next signal of the pipe, for a call that waits for it; only the      *)
(* constructor looks at which it is.                                       *)
Waited(a, from, to, sigs) ==
  /\ Moves(a, from, to)
  /\ up[a] # <<>> /\ Head(up[a]) \in sigs
  /\ up' = [up EXCEPT ![a] = Tail(@)]

AnySignal == {"ok", "ko"}

Constructed(a) ==
  /\ Waited(a, "constructing", "ready", {"ok"})
  /\ UNCHANGED <<use, asked, given, serverVars, down, zapVars>>

ConstructorThrows(a) ==
  /\ Waited(a, "constructing", "failed", {"ko"})
  /\ UNCHANGED <<use, asked, given, serverVars, down, zapVars>>

(* allow, deny, configure_domain, configure_plain, configure_curve,        *)
(* configure_gssapi and set_verbose.                                       *)
Call(a, c) ==
  /\ c[1] = "PLAIN" /\ (\E entry \in given[a].passwords : entry[1] = c[2][1] /\ entry # c[2])
       => "again" \in use
  /\ Sends(a, c, "calling")
  /\ UNCHANGED <<use, given, serverVars, up, zapVars>>

(* What the calls ask for: the last password given is a user's. *)
Promised(p, c) ==
  IF c[1] # "PLAIN" THEN
    CASE c[1] = "ALLOW" -> [p EXCEPT !.whitelist = @ \cup {c[2]}]
      [] c[1] = "DENY"  -> [p EXCEPT !.blacklist = @ \cup {c[2]}]
      [] c[1] = "CURVE" -> [p EXCEPT !.client_keys = @ \cup ({c[2]} \ {AnyKey}),
                                     !.curve_allow_any = (c[2] = AnyKey)]
      [] OTHER -> p
  ELSE [p EXCEPT !.passwords = {entry \in @ : entry[1] # c[2][1]} \cup {c[2]}]

Returns(a) ==
  /\ Waited(a, "calling", "ready", AnySignal)
  /\ given' = [given EXCEPT ![a] = Promised(@, asked[a])]
  /\ asked' = [asked EXCEPT ![a] = NoCommand]
  /\ UNCHANGED <<use, serverVars, down, zapVars>>

(* ~auth, *)
Destroy(a) ==
  /\ Sends(a, Terminate, "terminating")
  /\ UNCHANGED <<use, given, serverVars, up, zapVars>>

(* ... when TERMINATE was answered: the members are destroyed, at last the *)
(* authenticator, whose destructor waits for the routine's own answer.     *)
DestroysMembers(a) ==
  /\ Waited(a, "terminating", "stopping", AnySignal)
  /\ UNCHANGED <<use, asked, given, serverVars, down, zapVars>>

Destroyed(a) ==
  /\ Waited(a, "stopping", "gone", AnySignal)
  /\ policy' = [policy EXCEPT ![a] = NoPolicy] /\ given' = [given EXCEPT ![a] = NoPolicy]
  /\ UNCHANGED <<use, asked, server, polled, terminated, down, zapVars>>

-------------------------------------------------------------------------------
Server(a) ==
  \/ Starts(a) \/ Poll(a) \/ Authenticate(a) \/ AuthenticateInterrupted(a)
  \/ HandleCommand(a) \/ CommandInterrupted(a) \/ Leave(a) \/ Ends(a)

Waits(a) ==
  \/ Constructed(a) \/ ConstructorThrows(a) \/ Returns(a)
  \/ DestroysMembers(a) \/ Destroyed(a)

Next ==
  \/ \E a \in Auths :
       \/ Construct(a) \/ Destroy(a) \/ SendInterrupted(a) \/ Waits(a) \/ Server(a)
       \/ \E c \in Settings : Call(a, c)
  \/ \E r \in Requests : Asks(r)

Spec == Init /\ [][Next]_vars

(* Both threads run; nobody has to call, and requests may stay away. *)
FairSpec ==
  Spec /\ \A a \in Auths : WF_vars(Server(a)) /\ WF_vars(Waits(a))

-------------------------------------------------------------------------------
(* Only the first password of a user counts (insert(), auth.cpp:204).      *)
Known(p) == IF "again" \in use THEN [p EXCEPT !.passwords = {}] ELSE p

(* Once a call returned, the object serves with the settings of every call *)
(* that returned, and of nothing else but a call in progress               *)
(* (auth.hpp:41-43 and :63-114).                                           *)
Serves ==
  \A a \in Auths :
    /\ caller[a] = "ready" => bound = a /\ Known(policy[a]) = Known(given[a])
    /\ caller[a] = "calling" =>
         /\ bound = a
         /\ Known(policy[a]) \in {Known(given[a]), Known(Promised(given[a], asked[a]))}

(* So it does as long as no signal interrupts: the service's poll or its   *)
(* receive of a request, which ends it, or the send of a command, whose    *)
(* call then takes an answer that is not its own for it.                   *)
InForce == "eintr" \notin use => Serves

(* auth.hpp:63-102: who may connect.  One whitelisted address makes every  *)
(* other address count as blacklisted; a blacklisted one is always         *)
(* rejected; PLAIN and CURVE ask for a password or a key besides.          *)
Rejected(p) == IF p.whitelist = {} THEN p.blacklist ELSE Addresses \ p.whitelist
Admissible(p) ==
  {r \in Requests :
     /\ r.address \notin Rejected(p)
     /\ r.mechanism = "PLAIN" => r.credential \in p.passwords
     /\ r.mechanism = "CURVE" => Z85(r.credential) \in p.client_keys \/ p.curve_allow_any}

(* A request is answered as the documentation of the members has it, by    *)
(* the settings of the calls that returned, or that and the one under way, *)
(* save PLAIN when a user was given a second password.                     *)
AnswersAsDocumented ==
  [][\A a \in Auths : bound = a /\ zap # <<>> /\ zap' = Tail(zap) /\ bound' = a =>
       \/ "again" \in use /\ replied'[1].mechanism = "PLAIN"
       \/ \E p \in {given[a], Promised(given[a], asked[a])} :
            replied'[2].status = "200" <=> replied'[1] \in Admissible(p)]_vars

(* ~auth destroys its members while the routine's thread runs: from then   *)
(* on it does not use the poller and the lists, having read TERMINATE or   *)
(* ended before; and when the object is gone, nothing of it, nor has it    *)
(* kept the name of the service from the next (auth.cpp:57-66 and :74-79,  *)
(* the order of the members in auth.hpp:149-158).                          *)
MembersOutliveUse ==
  \A a \in Auths :
    /\ caller[a] = "stopping" => polled[a] = {} /\ (terminated[a] \/ server[a] = "ended")
    /\ caller[a] \in {"gone", "failed"} => server[a] = "ended" /\ bound # a

(* Every call, the constructor and the destructor come back, and no        *)
(* request is left waiting.                                                *)
ServiceAnswers ==
  /\ \A a \in Auths :
       caller[a] \in {"constructing", "calling", "stuck", "terminating", "stopping"} ~>
         caller[a] \in {"ready", "gone", "failed"}
  /\ zap # <<>> ~> zap = <<>>
===============================================================================
