------------------------------- MODULE AuthProofs -------------------------------
(***************************************************************************)
(* Theorems about zmqpp::auth for every set of objects, addresses, users,  *)
(* passwords, keys and requests, and whatever signals interrupt: the lists *)
(* that are in force, how requests are answered, and that an object's      *)
(* members outlive their use.                                              *)
(***************************************************************************)
EXTENDS Auth, SequenceTheorems, TLAPS

-------------------------------------------------------------------------------
(* The invariant. *)

Callers == {"none", "constructing", "ready", "calling", "stuck", "terminating",
            "stopping", "gone", "failed"}
Servers == {"none", "starting", "serving", "refused", "leaving", "throwing", "ended"}
KeyTexts == {Z85(key) : key \in Keys} \cup {AnyKey}
Policies ==
  [whitelist : SUBSET Addresses, blacklist : SUBSET Addresses,
   passwords : SUBSET (Users \X Passwords), client_keys : SUBSET KeyTexts,
   curve_allow_any : BOOLEAN]
Commands == Settings \cup {Terminate}

Typed ==
  /\ caller \in [Auths -> Callers] /\ asked \in [Auths -> Commands \cup {NoCommand}]
  /\ given \in [Auths -> Policies] /\ policy \in [Auths -> Policies]
  /\ server \in [Auths -> Servers] /\ polled \in [Auths -> SUBSET {"zap", "pipe"}]
  /\ terminated \in [Auths -> BOOLEAN]
  /\ down \in [Auths -> Seq(Commands)] /\ up \in [Auths -> Seq(AnySignal)]
  /\ bound \in Auths \cup {Nobody} /\ zap \in Seq(Requests)

(* Who serves has the name, and is the one who takes requests.  A poll that *)
(* found something is looked through before the loop ends.                 *)
Named(a) ==
  /\ bound = a <=> server[a] = "serving"
  /\ "zap" \in polled[a] => zap # <<>>
  /\ "pipe" \in polled[a] => down[a] # <<>>
  /\ server[a] # "serving" \/ terminated[a] => polled[a] = {}

(* How many signals a routine at s sends besides the answers to commands,  *)
(* and how many at most a caller at c waits for until it comes to the end. *)
Lives(s) == IF s = "starting" THEN 2 ELSE IF s \in {"none", "ended"} THEN 0 ELSE 1
Awaits(c) ==
  IF c \in {"constructing", "calling", "terminating", "stuck"} THEN 2
  ELSE IF c \in {"ready", "stopping", "failed"} THEN 1 ELSE 0

(* No signal is one too many: those that are under way in u, those that    *)
(* the commands in d will cause and those to come are what is waited for.  *)
Balance(c, s, u, d) ==
  /\ Len(u) + Len(d) + Lives(s) <= Awaits(c)
  /\ c = "none" <=> s = "none"
  /\ c \in {"none", "constructing"} \/ s = "ended" => d = <<>>
  /\ s = "starting" => c = "constructing"
  /\ c \in {"failed", "stuck"} => s = "ended"
  /\ s # "ended" => \A i \in DOMAIN u : u[i] = "ok"

(* What the routine has yet to do is what was asked last, k, unless a       *)
(* signal interrupted its send; t says that it has read TERMINATE.         *)
Pending(c, s, u, d, k, t) ==
  /\ d = <<>> \/ d = <<k>>
  /\ c = "calling" => k \in Settings
  /\ c = "stuck" => k \in Commands
  /\ c \in {"ready", "none", "constructing"} => k = NoCommand
  /\ c \in {"terminating", "stopping"} => k = Terminate
  /\ ((c = "terminating" /\ u # <<>>) \/ c = "stopping") /\ d = <<>> => t \/ s = "ended"
  /\ t => c \in {"terminating", "stopping", "gone"}

(* Without signals the routine serves from the end of the constructor to   *)
(* the beginning of the destructor.                                        *)
Steady(c, s, u, t) ==
  /\ c \in {"ready", "calling"} => s = "serving"
  /\ s \in {"leaving", "throwing"} => t
  /\ c = "constructing" /\ u # <<>> /\ u[1] = "ok" => s = "serving"

(* A user gets no second password. *)
Single(p, k) == k[1] = "PLAIN" => \A entry \in p.passwords : entry[1] = k[2][1] => entry = k[2]

(* The lists p and q are the same, but for the passwords when U has users  *)
(* that are configured again.                                              *)
Bare(p) == [p EXCEPT !.passwords = {}]
Alike(U, p, q) == IF "again" \in U THEN Bare(p) = Bare(q) ELSE p = q

(* The lists p are those of the calls that returned, g, and of the command *)
(* that was answered.                                                      *)
InPlace(U, c, s, u, k, g, p) ==
  s # "ended" =>
    IF c = "calling" /\ u # <<>>
      THEN Alike(U, p, Promised(g, k))
      ELSE Alike(U, p, g) /\ (c = "calling" /\ "again" \notin U => Single(g, k))

Kept(a) ==
  /\ Balance(caller[a], server[a], up[a], down[a])
  /\ Pending(caller[a], server[a], up[a], down[a], asked[a], terminated[a])
  /\ "eintr" \notin use => Steady(caller[a], server[a], up[a], terminated[a])
  /\ InPlace(use, caller[a], server[a], up[a], asked[a], given[a], policy[a])

AuthInv == \A a \in Auths : Named(a) /\ Kept(a)
-------------------------------------------------------------------------------
(* The lists. *)

(* What a call may ask for. *)
LEMMA SettingKinds ==
  ASSUME NEW k \in Settings
  PROVE  \/ k[1] \in {"ALLOW", "DENY"} /\ k[2] \in Addresses
         \/ k[1] = "PLAIN" /\ k[2] \in Users \X Passwords
         \/ k[1] = "CURVE" /\ k[2] \in KeyTexts
         \/ k[1] \in {"DOMAIN", "GSSAPI", "VERBOSE"}
BY DEF Settings, KeyTexts

(* TERMINATE is no setting, and there is no empty command. *)
LEMMA CommandsDiffer ==
  Terminate \notin Settings /\ NoCommand \notin Commands /\ Terminate # NoCommand
<1>1. \A k \in Settings : k[1] \notin {"TERMINATE", ""}
  BY SettingKinds
<1>2. Terminate[1] = "TERMINATE" /\ NoCommand[1] = ""
  BY DEF Terminate, NoCommand
<1> QED
  BY <1>1, <1>2 DEF Commands

(* Commands and calls change lists to lists. *)
LEMMA ListsTyped ==
  ASSUME NEW p \in Policies, NEW k \in Commands
  PROVE  Configured(p, k) \in Policies /\ Promised(p, k) \in Policies
<1>1. /\ p.whitelist \subseteq Addresses /\ p.blacklist \subseteq Addresses
      /\ p.passwords \subseteq Users \X Passwords /\ p.client_keys \subseteq KeyTexts
      /\ p.curve_allow_any \in BOOLEAN
  BY DEF Policies
<1>2. CASE k[1] \in {"ALLOW", "DENY"} /\ k[2] \in Addresses
  BY <1>1, <1>2 DEF Configured, Promised, Policies
<1>3. CASE k[1] = "PLAIN" /\ k[2] \in Users \X Passwords
  <2>1. PICK P : P = {entry \in p.passwords : entry[1] # k[2][1]} \cup {k[2]}
    OBVIOUS
  <2>2. P \subseteq Users \X Passwords /\ p.passwords \cup {k[2]} \subseteq Users \X Passwords
    BY <1>1, <1>3, <2>1
  <2>3. [p EXCEPT !.passwords = P] \in Policies
    BY <1>1, <2>2 DEF Policies
  <2>4. Promised(p, k) \in Policies
    BY <1>3, <2>1, <2>3 DEF Promised
  <2>5. Configured(p, k) \in {p, [p EXCEPT !.passwords = @ \cup {k[2]}]}
    BY <1>3 DEF Configured
  <2>6. [p EXCEPT !.passwords = @ \cup {k[2]}] \in Policies
    BY <1>1, <2>2 DEF Policies
  <2> QED
    BY <2>4, <2>5, <2>6
<1>4. CASE k[1] = "CURVE" /\ k[2] \in KeyTexts
  <2>1. p.client_keys \cup {k[2]} \subseteq KeyTexts
    BY <1>1, <1>4
  <2>2. p.client_keys \cup ({k[2]} \ {AnyKey}) \subseteq KeyTexts
    BY <1>1, <1>4
  <2>3. Configured(p, k) \in {[p EXCEPT !.curve_allow_any = TRUE],
                              [p EXCEPT !.curve_allow_any = FALSE, !.client_keys = @ \cup {k[2]}]}
    BY <1>4 DEF Configured
  <2>4. PICK any \in BOOLEAN : any = (k[2] = AnyKey)
    OBVIOUS
  <2>5. Promised(p, k) = [p EXCEPT !.client_keys = @ \cup ({k[2]} \ {AnyKey}), !.curve_allow_any = any]
    BY <1>4, <2>4 DEF Promised
  <2>6. Configured(p, k) \in Policies
    BY <1>1, <2>1, <2>3 DEF Policies
  <2>7. Promised(p, k) \in Policies
    BY <1>1, <2>2, <2>4, <2>5 DEF Policies
  <2> QED
    BY <2>6, <2>7
<1>5. CASE k[1] \in {"DOMAIN", "GSSAPI", "VERBOSE", "TERMINATE"}
  BY <1>5 DEF Configured, Promised
<1>6. k \in Settings \/ k[1] = "TERMINATE"
  <2>1. Terminate[1] = "TERMINATE"
    BY DEF Terminate
  <2> QED
    BY <2>1 DEF Commands
<1> QED
  BY <1>2, <1>3, <1>4, <1>5, <1>6, SettingKinds

(* TERMINATE changes no list. *)
LEMMA TerminateKeepsLists ==
  ASSUME NEW p
  PROVE  Configured(p, Terminate) = p
BY DEF Configured, Terminate

(* A command makes of lists like those asked for what its call asks for. *)
LEMMA ListsAgree ==
  ASSUME NEW p \in Policies, NEW g \in Policies, NEW k \in Settings,
         NEW U, Alike(U, p, g), "again" \notin U => Single(g, k)
  PROVE  Alike(U, Configured(p, k), Promised(g, k))
<1>1. CASE "again" \notin U
  <2> SUFFICES Configured(p, k) = Promised(g, k)
    BY <1>1 DEF Alike
  <2>1. p = g
    BY <1>1 DEF Alike
  <2>2. CASE k[1] \in {"ALLOW", "DENY"}
    BY <2>1, <2>2 DEF Configured, Promised
  <2>3. CASE k[1] = "PLAIN"
    <3>1. \A entry \in p.passwords : entry[1] = k[2][1] => entry = k[2]
      BY <1>1, <2>1, <2>3 DEF Single
    <3>2. PICK P : P = {entry \in p.passwords : entry[1] # k[2][1]} \cup {k[2]}
      OBVIOUS
    <3>3. P = p.passwords \cup {k[2]}
      BY <3>1, <3>2
    <3>4. CASE \E entry \in p.passwords : entry[1] = k[2][1]
      <4>1. k[2] \in p.passwords
        BY <3>1, <3>4
      <4>2. P = p.passwords
        BY <3>3, <4>1
      <4>3. [p EXCEPT !.passwords = P] = p
        BY <4>2 DEF Policies
      <4>4. Configured(p, k) = p /\ Promised(g, k) = [p EXCEPT !.passwords = P]
        BY <2>1, <2>3, <3>2, <3>4 DEF Configured, Promised
      <4> QED
        BY <4>3, <4>4
    <3>5. CASE ~ \E entry \in p.passwords : entry[1] = k[2][1]
      <4>1. Configured(p, k) = [p EXCEPT !.passwords = p.passwords \cup {k[2]}]
        BY <2>3, <3>5 DEF Configured
      <4>2. Promised(g, k) = [p EXCEPT !.passwords = P]
        BY <2>1, <2>3, <3>2 DEF Promised
      <4> QED
        BY <3>3, <4>1, <4>2
    <3> QED
      BY <3>4, <3>5
  <2>4. CASE k[1] = "CURVE"
    <3>1. CASE k[2] = AnyKey
      <4>1. Configured(p, k) = [p EXCEPT !.curve_allow_any = TRUE]
        BY <2>4, <3>1 DEF Configured
      <4>2. Promised(g, k) = [p EXCEPT !.client_keys = p.client_keys \cup {}, !.curve_allow_any = TRUE]
        BY <2>1, <2>4, <3>1 DEF Promised
      <4>3. p.client_keys \cup {} = p.client_keys
        OBVIOUS
      <4> QED
        BY <4>1, <4>2, <4>3 DEF Policies
    <3>2. CASE k[2] # AnyKey
      <4>1. Configured(p, k) = [p EXCEPT !.curve_allow_any = FALSE,
                                         !.client_keys = p.client_keys \cup {k[2]}]
        BY <2>4, <3>2 DEF Configured
      <4>2. {k[2]} \ {AnyKey} = {k[2]} /\ (k[2] = AnyKey) = FALSE
        BY <3>2
      <4>3. Promised(g, k) = [p EXCEPT !.client_keys = p.client_keys \cup {k[2]},
                                       !.curve_allow_any = FALSE]
        BY <2>1, <2>4, <4>2 DEF Promised
      <4> QED
        BY <4>1, <4>3 DEF Policies
    <3> QED
      BY <3>1, <3>2
  <2>5. CASE k[1] \in {"DOMAIN", "GSSAPI", "VERBOSE"}
    BY <2>1, <2>5 DEF Configured, Promised
  <2> QED
    BY <2>2, <2>3, <2>4, <2>5, SettingKinds
<1>2. CASE "again" \in U
  <2> SUFFICES Bare(Configured(p, k)) = Bare(Promised(g, k))
    BY <1>2 DEF Alike
  <2>1. \A q : Bare(q) = [q EXCEPT !.passwords = {}]
    BY DEF Bare
  <2>2. [p EXCEPT !.passwords = {}] = [g EXCEPT !.passwords = {}]
    BY <1>2 DEF Alike, Bare
  <2>3. /\ p.whitelist = g.whitelist /\ p.blacklist = g.blacklist
        /\ p.client_keys = g.client_keys /\ p.curve_allow_any = g.curve_allow_any
    BY <2>2 DEF Policies
  <2>4. CASE k[1] \in {"ALLOW", "DENY"}
    BY <2>1, <2>3, <2>4 DEF Configured, Promised, Policies
  <2>5. CASE k[1] = "PLAIN"
    <3>1. PICK P, Q : /\ P = {entry \in g.passwords : entry[1] # k[2][1]} \cup {k[2]}
                      /\ Q = p.passwords \cup {k[2]}
      OBVIOUS
    <3>2. Configured(p, k) \in {p, [p EXCEPT !.passwords = Q]}
      BY <2>5, <3>1 DEF Configured
    <3>3. Promised(g, k) = [g EXCEPT !.passwords = P]
      BY <2>5, <3>1 DEF Promised
    <3>4. Bare([p EXCEPT !.passwords = Q]) = [p EXCEPT !.passwords = {}]
      BY <2>1 DEF Policies
    <3>5. Bare([g EXCEPT !.passwords = P]) = [g EXCEPT !.passwords = {}]
      BY <2>1 DEF Policies
    <3> QED
      BY <2>1, <2>2, <3>2, <3>3, <3>4, <3>5
  <2>6. CASE k[1] = "CURVE"
    <3>1. CASE k[2] = AnyKey
      <4>1. Configured(p, k) = [p EXCEPT !.curve_allow_any = TRUE]
        BY <2>6, <3>1 DEF Configured
      <4>2. Promised(g, k) = [g EXCEPT !.client_keys = g.client_keys \cup {}, !.curve_allow_any = TRUE]
        BY <2>6, <3>1 DEF Promised
      <4>3. g.client_keys \cup {} = g.client_keys
        OBVIOUS
      <4>4. Bare(Configured(p, k))
              = [whitelist |-> p.whitelist, blacklist |-> p.blacklist, passwords |-> {},
                 client_keys |-> p.client_keys, curve_allow_any |-> TRUE]
        BY <2>1, <4>1 DEF Policies
      <4>5. Bare(Promised(g, k))
              = [whitelist |-> g.whitelist, blacklist |-> g.blacklist, passwords |-> {},
                 client_keys |-> g.client_keys, curve_allow_any |-> TRUE]
        BY <2>1, <4>2, <4>3 DEF Policies
      <4> QED
        BY <2>3, <4>4, <4>5
    <3>2. CASE k[2] # AnyKey
      <4>1. Configured(p, k) = [p EXCEPT !.curve_allow_any = FALSE,
                                         !.client_keys = p.client_keys \cup {k[2]}]
        BY <2>6, <3>2 DEF Configured
      <4>2. {k[2]} \ {AnyKey} = {k[2]} /\ (k[2] = AnyKey) = FALSE
        BY <3>2
      <4>3. Promised(g, k) = [g EXCEPT !.client_keys = g.client_keys \cup {k[2]},
                                       !.curve_allow_any = FALSE]
        BY <2>6, <4>2 DEF Promised
      <4>4. Bare(Configured(p, k))
              = [whitelist |-> p.whitelist, blacklist |-> p.blacklist, passwords |-> {},
                 client_keys |-> p.client_keys \cup {k[2]}, curve_allow_any |-> FALSE]
        BY <2>1, <4>1 DEF Policies
      <4>5. Bare(Promised(g, k))
              = [whitelist |-> g.whitelist, blacklist |-> g.blacklist, passwords |-> {},
                 client_keys |-> g.client_keys \cup {k[2]}, curve_allow_any |-> FALSE]
        BY <2>1, <4>3 DEF Policies
      <4> QED
        BY <2>3, <4>4, <4>5
    <3> QED
      BY <3>1, <3>2
  <2>7. CASE k[1] \in {"DOMAIN", "GSSAPI", "VERBOSE"}
    <3>1. Configured(p, k) = p /\ Promised(g, k) = g
      BY <2>7 DEF Configured, Promised
    <3> QED
      BY <2>1, <2>2, <3>1
  <2> QED
    BY <2>4, <2>5, <2>6, <2>7, SettingKinds
<1> QED
  BY <1>1, <1>2

-------------------------------------------------------------------------------
(* Types, and the objects that a step leaves alone. *)

(* What Typed says of one object. *)
LEMMA TypedAt ==
  ASSUME Typed, NEW a \in Auths
  PROVE  /\ caller[a] \in Callers /\ asked[a] \in Commands \cup {NoCommand}
         /\ given[a] \in Policies /\ policy[a] \in Policies
         /\ server[a] \in Servers /\ polled[a] \in SUBSET {"zap", "pipe"}
         /\ terminated[a] \in BOOLEAN /\ down[a] \in Seq(Commands) /\ up[a] \in Seq(AnySignal)
BY DEF Typed

(* The initial lists are lists, and the state is typed. *)
LEMMA TypedInit == Init => Typed
<1>1. NoPolicy \in Policies
  BY DEF NoPolicy, Policies
<1> QED
  BY <1>1 DEF Init, Typed, Callers, Servers

(* Steps keep the types: what is received is there. *)
LEMMA TypedNext == Typed /\ AuthInv /\ [Next]_vars => Typed'
<1> SUFFICES ASSUME Typed, AuthInv, [Next]_vars PROVE Typed'
  OBVIOUS
<1>1. NoPolicy \in Policies
  BY DEF NoPolicy, Policies
<1>2. Settings \subseteq Commands /\ Terminate \in Commands
  BY DEF Commands
<1>3. ASSUME NEW a \in Auths, Construct(a) PROVE Typed'
  BY <1>3 DEF Typed, Construct, Moves, zapVars, Callers, Servers
<1>4. ASSUME NEW a \in Auths, NEW c \in Commands, NEW to \in Callers, Sends(a, c, to),
             UNCHANGED <<given, serverVars, up, zapVars>>
      PROVE  Typed'
  <2>1. asked' \in [Auths -> Commands \cup {NoCommand}]
    BY <1>4 DEF Sends, Typed
  <2>2. caller' \in [Auths -> Callers]
    BY <1>4 DEF Sends, Moves, Typed, Callers
  <2>3. down' = [down EXCEPT ![a] = Append(down[a], c)] \/ down' = down
    BY <1>4 DEF Sends, ToServer
  <2>4. Append(down[a], c) \in Seq(Commands) /\ down \in [Auths -> Seq(Commands)]
    BY TypedAt DEF Typed
  <2>5. down' \in [Auths -> Seq(Commands)]
    BY <2>3, <2>4
  <2> QED
    BY <1>4, <2>1, <2>2, <2>5 DEF Typed, serverVars, zapVars
<1>5. ASSUME NEW a \in Auths, NEW from, NEW to \in Callers, NEW sigs, Waited(a, from, to, sigs)
      PROVE  caller' \in [Auths -> Callers] /\ up' \in [Auths -> Seq(AnySignal)]
  <2>1. Tail(up[a]) \in Seq(AnySignal)
    BY <1>5, TypedAt DEF Waited
  <2> QED
    BY <1>5, <2>1 DEF Waited, Moves, Typed
<1>6. ASSUME NEW a \in Auths, Waits(a) PROVE Typed'
  <2>1. caller' \in [Auths -> Callers] /\ up' \in [Auths -> Seq(AnySignal)]
    <3>1. {"ready", "failed", "stopping", "gone"} \subseteq Callers
      BY DEF Callers
    <3> QED
      BY <1>5, <1>6, <3>1
      DEF Waits, Constructed, ConstructorThrows, Returns, DestroysMembers, Destroyed
  <2>2. CASE Constructed(a) \/ ConstructorThrows(a) \/ DestroysMembers(a)
    BY <2>1, <2>2 DEF Typed, Constructed, ConstructorThrows, DestroysMembers, serverVars, zapVars
  <2>3. CASE Returns(a)
    <3>1. caller[a] = "calling" /\ asked[a] \in Commands
      <4>1. caller[a] = "calling" => asked[a] \in Settings
        BY DEF AuthInv, Kept, Pending
      <4> QED
        BY <2>3, <4>1, <1>2 DEF Returns, Waited, Moves
    <3>2. Promised(given[a], asked[a]) \in Policies
      BY <3>1, ListsTyped, TypedAt
    <3> QED
      BY <2>1, <2>3, <3>2 DEF Typed, Returns, serverVars, zapVars
  <2>4. CASE Destroyed(a)
    BY <1>1, <2>1, <2>4 DEF Typed, Destroyed, zapVars
  <2> QED
    BY <1>6, <2>2, <2>3, <2>4 DEF Waits
<1>7. ASSUME NEW a \in Auths, NEW sig \in AnySignal, ToCaller(a, sig)
      PROVE  up' \in [Auths -> Seq(AnySignal)]
  <2>1. Append(up[a], sig) \in Seq(AnySignal)
    BY TypedAt
  <2> QED
    BY <1>7, <2>1 DEF ToCaller, Typed
<1>8. ASSUME NEW a \in Auths, Server(a) PROVE Typed'
  <2>1. "ok" \in AnySignal /\ "ko" \in AnySignal
    BY DEF AnySignal
  <2>2. CASE Starts(a)
    <3>1. up' \in [Auths -> Seq(AnySignal)]
      BY <2>1, <2>2, <1>7 DEF Starts, Typed
    <3> QED
      BY <2>2, <3>1 DEF Starts, Typed, callerVars, Servers
  <2>3. CASE Poll(a) \/ CommandInterrupted(a)
    BY <2>3 DEF Poll, CommandInterrupted, Looks, Typed, callerVars, zapVars
  <2>4. CASE Authenticate(a)
    <3>1. zap # <<>>
      BY <2>4 DEF Authenticate, Looks, AuthInv, Named
    <3>2. Tail(zap) \in Seq(Requests)
      BY <3>1 DEF Typed
    <3> QED
      BY <2>4, <3>2 DEF Authenticate, Looks, Typed, callerVars
  <2>5. CASE AuthenticateInterrupted(a) \/ Leave(a)
    <3>1. server' \in [Auths -> Servers] /\ polled' \in [Auths -> SUBSET {"zap", "pipe"}]
      BY <2>5 DEF AuthenticateInterrupted, Leave, Typed, Servers
    <3>2. <<>> \in Seq(Requests)
      OBVIOUS
    <3> QED
      BY <2>5, <3>1, <3>2 DEF AuthenticateInterrupted, Leave, Typed, callerVars
  <2>6. CASE HandleCommand(a)
    <3>1. down[a] # <<>>
      BY <2>6 DEF HandleCommand, Looks, AuthInv, Named
    <3>2. Head(down[a]) \in Commands /\ Tail(down[a]) \in Seq(Commands)
      BY <3>1, TypedAt
    <3>3. Configured(policy[a], Head(down[a])) \in Policies
      BY <3>2, ListsTyped, TypedAt
    <3>4. policy' \in [Auths -> Policies] /\ down' \in [Auths -> Seq(Commands)]
      BY <2>6, <3>2, <3>3 DEF HandleCommand, Typed
    <3>5. up' \in [Auths -> Seq(AnySignal)]
      BY <2>1, <2>6, <1>7 DEF HandleCommand
    <3>6. polled' \in [Auths -> SUBSET {"zap", "pipe"}]
      BY <2>6 DEF HandleCommand, Looks, Typed
    <3>7. terminated' \in [Auths -> BOOLEAN]
      BY <2>6 DEF HandleCommand, Typed
    <3> QED
      BY <2>6, <3>4, <3>5, <3>6, <3>7 DEF HandleCommand, Typed, callerVars, zapVars
  <2>7. CASE Ends(a)
    <3>1. up' \in [Auths -> Seq(AnySignal)]
      BY <2>1, <2>7, <1>7 DEF Ends
    <3>2. server' \in [Auths -> Servers] /\ <<>> \in Seq(Commands)
      BY <2>7 DEF Ends, Typed, Servers
    <3>3. down' \in [Auths -> Seq(Commands)]
      BY <2>7, <3>2 DEF Ends, Typed
    <3> QED
      BY <2>7, <3>1, <3>2, <3>3 DEF Ends, Typed, callerVars, zapVars
  <2> QED
    BY <1>8, <2>2, <2>3, <2>4, <2>5, <2>6, <2>7 DEF Server
<1>9. ASSUME NEW r \in Requests, Asks(r) PROVE Typed'
  BY <1>9 DEF Asks, Typed, callerVars, serverVars
<1>10. CASE UNCHANGED vars
  BY <1>10 DEF Typed, vars, callerVars, serverVars, zapVars
<1>11. \A a \in Auths : Destroy(a) \/ (\E c \in Settings : Call(a, c)) => Typed'
  <2>1. "calling" \in Callers /\ "terminating" \in Callers
    BY DEF Callers
  <2> QED
    BY <1>2, <1>4, <2>1 DEF Destroy, Call
<1>12. ASSUME NEW a \in Auths, SendInterrupted(a) PROVE Typed'
  <2>1. caller' \in [Auths -> Callers]
    BY <1>12 DEF SendInterrupted, Moves, Typed, Callers
  <2> QED
    BY <1>12, <2>1 DEF SendInterrupted, Typed, serverVars, zapVars
<1> QED
  BY <1>3, <1>6, <1>8, <1>9, <1>10, <1>11, <1>12 DEF Next

(* What a step of the object a leaves alone: the other objects, the name    *)
(* if another has it, and that requests wait for another.                  *)
Spares(a) ==
  /\ use' = use
  /\ \A b \in Auths : b # a =>
       /\ caller'[b] = caller[b] /\ asked'[b] = asked[b] /\ given'[b] = given[b]
       /\ server'[b] = server[b] /\ polled'[b] = polled[b] /\ policy'[b] = policy[b]
       /\ terminated'[b] = terminated[b] /\ down'[b] = down[b] /\ up'[b] = up[b]
       /\ bound' = b <=> bound = b
       /\ bound = b /\ zap # <<>> => zap' # <<>>

(* Such a step keeps the invariant if it keeps it for its own object. *)
LEMMA Combined ==
  ASSUME AuthInv, NEW a \in Auths, Spares(a), Named(a)', Kept(a)'
  PROVE  AuthInv'
<1> SUFFICES ASSUME NEW b \in Auths, b # a PROVE Named(b)' /\ Kept(b)'
  BY DEF AuthInv
<1>1. Named(b) /\ Kept(b)
  BY DEF AuthInv
<1>2. Kept(b)'
  BY <1>1 DEF Spares, Kept
<1>3. Named(b)'
  BY <1>1 DEF Spares, Named
<1> QED
  BY <1>2, <1>3

-------------------------------------------------------------------------------
(* The parts of the invariant, for one object: c, s, u, d, k and t are its  *)
(* caller, server, up, down, asked and terminated.                         *)

(* A caller sends only when nothing else is under way; interrupted by a     *)
(* signal, it sends nothing,                                               *)
LEMMA SentBalances ==
  ASSUME NEW s, NEW u \in Seq(AnySignal), NEW d \in Seq(Commands), NEW k, NEW t,
         NEW k2 \in Commands,
         Balance("ready", s, u, d), Pending("ready", s, u, d, k, t),
         NEW c2 \in {"calling", "terminating", "stuck"}, NEW d2 \in Seq(Commands),
         s # "ended" => c2 # "stuck" /\ d2 \in {d, Append(d, k2)}, s = "ended" => d2 = d,
         c2 = "calling" => k2 \in Settings, c2 = "terminating" => k2 = Terminate
  PROVE  Balance(c2, s, u, d2) /\ Pending(c2, s, u, d2, k2, t)
<1>1. ~t
  BY DEF Pending
<1>2. CASE s # "ended"
  <2>1. d = <<>> /\ u = <<>> /\ s # "starting" /\ Lives(s) = 1
    BY <1>2 DEF Balance, Lives, Awaits
  <2>2. (d2 = <<>> /\ Len(d2) = 0) \/ (d2 = <<k2>> /\ Len(d2) = 1)
    <3>1. d2 = d \/ d2 = Append(d, k2)
      BY <1>2
    <3> QED
      BY <2>1, <3>1
  <2>3. Balance(c2, s, u, d2)
    <3>1. Len(u) = 0 /\ Awaits(c2) = 2 /\ s # "none" /\ c2 \notin {"stuck", "failed", "none"}
      BY <1>2, <2>1 DEF Awaits, Balance
    <3>2. Len(u) + Len(d2) + Lives(s) <= Awaits(c2)
      <4>1. PICK m, n, l, w : m = Len(u) /\ n = Len(d2) /\ l = Lives(s) /\ w = Awaits(c2)
        OBVIOUS
      <4>2. m = 0
        BY <3>1, <4>1
      <4>3. n \in {0, 1}
        BY <2>2, <4>1
      <4>4. l = 1 /\ w = 2
        BY <2>1, <3>1, <4>1
      <4>5. m + n + l <= w
        BY <4>2, <4>3, <4>4
      <4> QED
        BY <4>1, <4>5
    <3> QED
      BY <1>2, <2>1, <3>1, <3>2 DEF Balance
  <2>4. Pending(c2, s, u, d2, k2, t)
    BY <1>1, <1>2, <2>1, <2>2 DEF Pending
  <2> QED
    BY <2>3, <2>4
<1>3. CASE s = "ended"
  <2>1. d2 = <<>> /\ Len(u) <= 1
    BY <1>3 DEF Balance, Lives, Awaits
  <2>2. Balance(c2, s, u, d2)
    BY <1>3, <2>1 DEF Balance, Lives, Awaits
  <2>3. Pending(c2, s, u, d2, k2, t)
    BY <1>1, <1>3, <2>1 DEF Pending
  <2> QED
    BY <2>2, <2>3
<1> QED
  BY <1>2, <1>3

(* ... takes the signals it waits for, *)
LEMMA WaitedBalances ==
  ASSUME NEW c, NEW c2, NEW s, NEW u \in Seq(AnySignal), NEW d \in Seq(Commands),
         Balance(c, s, u, d), u # <<>>, Awaits(c2) = Awaits(c) - 1,
         c \in {"constructing", "calling", "terminating", "stopping"},
         c2 \in {"ready", "failed", "stopping", "gone"}, c2 = "failed" => s = "ended"
  PROVE  Balance(c2, s, Tail(u), d)
<1>1. Len(Tail(u)) = Len(u) - 1 /\ \A i \in DOMAIN Tail(u) : Tail(u)[i] = u[i + 1] /\ i + 1 \in DOMAIN u
  OBVIOUS
<1>2. s # "none"
  BY DEF Balance
<1>3. s # "starting"
  BY DEF Balance, Awaits, Lives
<1>4. Lives(s) \in Nat /\ Awaits(c) \in Nat /\ Awaits(c2) \in Nat
  BY DEF Lives, Awaits
<1>5. Len(Tail(u)) + Len(d) + Lives(s) <= Awaits(c2)
  BY <1>1, <1>4 DEF Balance
<1>6. s # "ended" => \A i \in DOMAIN Tail(u) : Tail(u)[i] = "ok"
  BY <1>1 DEF Balance
<1>7. s = "ended" => d = <<>>
  BY DEF Balance
<1> QED
  BY <1>2, <1>3, <1>5, <1>6, <1>7 DEF Balance

(* ... and finds what it asked for done when it does. *)
LEMMA WaitedDone ==
  ASSUME NEW c \in {"calling", "terminating"}, NEW s, NEW u \in Seq(AnySignal),
         NEW d \in Seq(Commands), Balance(c, s, u, d), u # <<>>
  PROVE  d = <<>>
BY DEF Balance, Awaits, Lives

(* A command and its answer balance. *)
LEMMA AnswerBalances ==
  ASSUME NEW c, NEW u \in Seq(AnySignal), NEW d \in Seq(Commands),
         Balance(c, "serving", u, d), d # <<>>
  PROVE  /\ Balance(c, "serving", Append(u, "ok"), Tail(d))
         /\ c \notin {"none", "constructing", "ready", "failed", "stuck", "stopping", "gone"}
<1>1. "ok" \in AnySignal
  BY DEF AnySignal
<1>2. Len(Append(u, "ok")) = Len(u) + 1 /\ Len(Tail(d)) = Len(d) - 1
  OBVIOUS
<1>3. \A i \in DOMAIN Append(u, "ok") : Append(u, "ok")[i] = IF i = Len(u) + 1 THEN "ok" ELSE u[i]
  OBVIOUS
<1>4. \A i \in DOMAIN Append(u, "ok") : i = Len(u) + 1 \/ i \in DOMAIN u
  OBVIOUS
<1>5. \A i \in DOMAIN Append(u, "ok") : Append(u, "ok")[i] = "ok"
  BY <1>3, <1>4 DEF Balance
<1>6. c \notin {"none", "constructing"}
  BY DEF Balance
<1>7. Lives("serving") = 1 /\ Len(d) >= 1
  BY DEF Lives
<1>8. Awaits(c) >= 2
  <2>1. Awaits(c) \in Nat
    BY DEF Awaits
  <2> QED
    BY <1>7, <2>1 DEF Balance
<1>9. c \notin {"ready", "failed", "stuck", "stopping", "gone"}
  BY <1>8 DEF Balance, Awaits
<1> QED
  BY <1>2, <1>5, <1>6, <1>7, <1>9 DEF Balance

(* The last signal of a routine balances its end, and so does what it says *)
(* when it starts.                                                         *)
LEMMA EndBalances ==
  ASSUME NEW c, NEW s \in {"leaving", "throwing", "refused"}, NEW u \in Seq(AnySignal),
         NEW d \in Seq(Commands), NEW x \in AnySignal, Balance(c, s, u, d)
  PROVE  Balance(c, "ended", Append(u, x), <<>>)
<1>1. Len(Append(u, x)) = Len(u) + 1 /\ Len(d) \in Nat
  OBVIOUS
<1>2. Lives(s) = 1 /\ Lives("ended") = 0 /\ Awaits(c) \in Nat
  BY DEF Lives, Awaits
<1> QED
  BY <1>1, <1>2 DEF Balance

(* A routine that starts says so, or is about to say that it could not. *)
LEMMA StartBalances ==
  ASSUME NEW c, NEW u \in Seq(AnySignal), NEW d \in Seq(Commands), Balance(c, "starting", u, d)
  PROVE  /\ c = "constructing" /\ u = <<>> /\ d = <<>>
         /\ Balance(c, "serving", Append(u, "ok"), d) /\ Balance(c, "refused", u, d)
<1>1. c = "constructing" /\ d = <<>>
  BY DEF Balance
<1>2. u = <<>>
  BY <1>1 DEF Balance, Lives, Awaits
<1>3. Append(u, "ok") = <<"ok">> /\ Len(<<"ok">>) = 1 /\ DOMAIN <<"ok">> = {1} /\ Len(d) = 0
  BY <1>1, <1>2
<1>4. Lives("serving") = 1 /\ Lives("refused") = 1 /\ Awaits(c) = 2
  BY <1>1 DEF Lives, Awaits
<1>5. Balance(c, "serving", <<"ok">>, d)
  BY <1>1, <1>3, <1>4 DEF Balance
<1>6. Balance(c, "refused", u, d)
  BY <1>1, <1>2, <1>3, <1>4 DEF Balance
<1> QED
  BY <1>1, <1>2, <1>3, <1>5, <1>6

(* To leave the loop changes no count. *)
LEMMA LeaveBalances ==
  ASSUME NEW c, NEW s2 \in {"leaving", "throwing"}, NEW u \in Seq(AnySignal),
         NEW d \in Seq(Commands), Balance(c, "serving", u, d)
  PROVE  Balance(c, s2, u, d)
<1>1. Lives(s2) = 1 /\ Lives("serving") = 1
  BY DEF Lives
<1> QED
  BY <1>1 DEF Balance

-------------------------------------------------------------------------------
(* The steps of an object, each with what it does to the invariant. *)

(* What a step keeps. *)
Keeps(a) == Spares(a) /\ Named(a)' /\ Kept(a)'

(* The constructor starts the routine. *)
LEMMA KeepsConstruct ==
  ASSUME Typed, AuthInv, NEW a \in Auths, Construct(a)
  PROVE  Keeps(a)
<1>1. Named(a) /\ Kept(a)
  BY DEF AuthInv
<1>2. /\ caller[a] = "none" /\ caller'[a] = "constructing" /\ server'[a] = "starting"
      /\ \A b \in Auths : b # a => caller'[b] = caller[b] /\ server'[b] = server[b]
  BY DEF Construct, Moves, Typed
<1>3. PICK s, u, d, k, t, g, p :
        /\ s = server[a] /\ u = up[a] /\ d = down[a] /\ k = asked[a] /\ t = terminated[a]
        /\ g = given[a] /\ p = policy[a] /\ u \in Seq(AnySignal) /\ d \in Seq(Commands)
  BY TypedAt
<1>4. Balance("none", s, u, d) /\ Pending("none", s, u, d, k, t) /\ InPlace(use, "none", s, u, k, g, p)
  BY <1>1, <1>2, <1>3 DEF Kept
<1>5. s = "none" /\ d = <<>> /\ u = <<>> /\ k = NoCommand /\ ~t
  BY <1>4 DEF Balance, Pending, Lives, Awaits
<1>6. Balance("constructing", "starting", u, d)
  <2>1. Len(u) = 0 /\ Len(d) = 0 /\ \A i \in DOMAIN u : u[i] = "ok"
    BY <1>5
  <2> QED
    BY <1>5, <2>1 DEF Balance, Lives, Awaits
<1>7. Pending("constructing", "starting", u, d, k, t) /\ Steady("constructing", "starting", u, t)
  BY <1>5 DEF Pending, Steady
<1>8. InPlace(use, "constructing", "starting", u, k, g, p)
  BY <1>4, <1>5 DEF InPlace
<1>9. /\ up'[a] = u /\ down'[a] = d /\ asked'[a] = k /\ terminated'[a] = t /\ given'[a] = g
      /\ policy'[a] = p /\ use' = use
  BY <1>3 DEF Construct
<1>10. Kept(a)'
  BY <1>2, <1>6, <1>7, <1>8, <1>9 DEF Kept
<1>11. Named(a)'
  BY <1>1, <1>2, <1>3, <1>5 DEF Named, Construct, zapVars
<1>12. Spares(a)
  BY <1>2 DEF Spares, Construct, zapVars
<1> QED
  BY <1>10, <1>11, <1>12 DEF Keeps

(* A call, and the destructor: the next command is sent. *)
LEMMA KeepsSends ==
  ASSUME Typed, AuthInv, NEW a \in Auths, NEW k2 \in Commands,
         NEW to \in {"calling", "terminating"}, Sends(a, k2, to),
         UNCHANGED <<use, given, serverVars, up, zapVars>>,
         to = "calling" => k2 \in Settings /\ ("again" \notin use => Single(given[a], k2)),
         to = "terminating" => k2 = Terminate
  PROVE  Keeps(a)
<1>1. Named(a) /\ Kept(a)
  BY DEF AuthInv
<1>2. PICK s, u, d, k, t, g, p, c2, d2 :
        /\ s = server[a] /\ u = up[a] /\ d = down[a] /\ k = asked[a] /\ t = terminated[a]
        /\ g = given[a] /\ p = policy[a] /\ u \in Seq(AnySignal) /\ d \in Seq(Commands)
        /\ c2 = caller'[a] /\ d2 = down'[a]
  BY TypedAt
<1>3. /\ caller[a] = "ready" /\ asked'[a] = k2 /\ c2 \in {to, "stuck"}
      /\ \A b \in Auths : b # a => /\ caller'[b] = caller[b] /\ asked'[b] = asked[b]
                                   /\ down'[b] = down[b]
      /\ IF s # "ended" THEN c2 = to /\ d2 \in {d, Append(d, k2)} ELSE d2 = d
  BY <1>2 DEF Sends, Moves, ToServer, Typed
<1>4. /\ Balance("ready", s, u, d) /\ Pending("ready", s, u, d, k, t)
      /\ "eintr" \notin use => Steady("ready", s, u, t)
      /\ InPlace(use, "ready", s, u, k, g, p)
  BY <1>1, <1>2, <1>3 DEF Kept
<1>5. Balance(c2, s, u, d2) /\ Pending(c2, s, u, d2, k2, t)
  <2>1. c2 \in {"calling", "terminating", "stuck"}
    BY <1>3
  <2>2. s # "ended" => c2 # "stuck" /\ d2 \in {d, Append(d, k2)}
    BY <1>3
  <2>3. s = "ended" => d2 = d
    BY <1>3
  <2>4. (c2 = "calling" => k2 \in Settings) /\ (c2 = "terminating" => k2 = Terminate)
    BY <1>3
  <2>5. u \in Seq(AnySignal) /\ d \in Seq(Commands) /\ d2 \in Seq(Commands)
    <3>1. Append(d, k2) \in Seq(Commands)
      BY <1>2
    <3> QED
      BY <1>2, <1>3, <3>1
  <2>6. Balance("ready", s, u, d) /\ Pending("ready", s, u, d, k, t)
    BY <1>4
  <2> QED
    BY <2>1, <2>2, <2>3, <2>4, <2>5, <2>6, SentBalances
<1>6. "eintr" \notin use => Steady(c2, s, u, t)
  BY <1>3, <1>4 DEF Steady
<1>7. InPlace(use, c2, s, u, k2, g, p)
  <2>1. s # "ended" => u = <<>>
    <3>1. s # "ended" => Len(u) + Len(d) + Lives(s) <= 1 /\ Lives(s) \in {1, 2}
      BY <1>4 DEF Balance, Lives, Awaits
    <3>2. Len(u) \in Nat /\ Len(d) \in Nat /\ (Len(u) = 0 => u = <<>>)
      BY <1>2
    <3> QED
      BY <3>1, <3>2
  <2>2. s # "ended" => Alike(use, p, g)
    BY <1>4 DEF InPlace
  <2>3. s # "ended" /\ c2 = "calling" /\ "again" \notin use => Single(g, k2)
    BY <1>2, <1>3
  <2> QED
    BY <2>1, <2>2, <2>3 DEF InPlace
<1>8. /\ up'[a] = u /\ server'[a] = s /\ terminated'[a] = t /\ given'[a] = g
      /\ policy'[a] = p /\ use' = use
  BY <1>2 DEF serverVars
<1>9. Kept(a)'
  BY <1>2, <1>3, <1>5, <1>6, <1>7, <1>8 DEF Kept
<1>10. Named(a)'
  <2>1. down[a] # <<>> => down'[a] # <<>>
    <3>1. d # <<>> => Append(d, k2) # <<>>
      BY <1>2
    <3> QED
      BY <1>2, <1>3, <3>1
  <2> QED
    BY <1>1, <2>1 DEF Named, serverVars, zapVars
<1>11. Spares(a)
  BY <1>3 DEF Spares, serverVars, zapVars
<1> QED
  BY <1>9, <1>10, <1>11 DEF Keeps

(* allow, deny, the configure_ members and set_verbose, *)
LEMMA KeepsCall ==
  ASSUME Typed, AuthInv, NEW a \in Auths, NEW c \in Settings, Call(a, c)
  PROVE  Keeps(a)
<1>1. c \in Commands
  BY DEF Commands
<1>2. "again" \notin use => Single(given[a], c)
  BY DEF Call, Single
<1> QED
  BY <1>1, <1>2, KeepsSends DEF Call

(* ... and ~auth. *)
LEMMA KeepsDestroy ==
  ASSUME Typed, AuthInv, NEW a \in Auths, Destroy(a)
  PROVE  Keeps(a)
<1>1. Terminate \in Commands
  BY DEF Commands
<1> QED
  BY <1>1, KeepsSends DEF Destroy

(* A signal interrupts a send that waits. *)
LEMMA KeepsSendInterrupted ==
  ASSUME Typed, AuthInv, NEW a \in Auths, SendInterrupted(a)
  PROVE  Keeps(a)
<1>1. Named(a) /\ Kept(a)
  BY DEF AuthInv
<1>2. PICK s, u, d, k, t, c2 :
        /\ s = server[a] /\ u = up[a] /\ d = down[a] /\ k = asked[a] /\ t = terminated[a]
        /\ c2 = caller'[a]
  OBVIOUS
<1>3. /\ caller[a] = "stuck" /\ c2 = IF k = Terminate THEN "terminating" ELSE "calling"
      /\ \A b \in Auths : b # a => caller'[b] = caller[b]
  BY <1>2 DEF SendInterrupted, Moves, Typed
<1>4. Balance("stuck", s, u, d) /\ Pending("stuck", s, u, d, k, t)
  BY <1>1, <1>2, <1>3 DEF Kept
<1>5. s = "ended"
  BY <1>4 DEF Balance
<1>6. Balance(c2, s, u, d)
  <2>1. Awaits(c2) = Awaits("stuck")
    BY <1>3 DEF Awaits
  <2> QED
    BY <1>3, <1>4, <1>5, <2>1 DEF Balance
<1>7. Pending(c2, s, u, d, k, t)
  BY <1>3, <1>4, <1>5 DEF Pending, Commands
<1>8. UNCHANGED <<use, asked, given, server, polled, policy, terminated, down, up, bound, zap>>
  BY DEF SendInterrupted, serverVars, zapVars
<1>9. InPlace(use, c2, s, u, k, given[a], policy[a]) /\ "eintr" \in use
  BY <1>5 DEF InPlace, SendInterrupted
<1>10. Kept(a)'
  BY <1>2, <1>6, <1>7, <1>8, <1>9 DEF Kept
<1>11. Named(a)'
  BY <1>1, <1>8 DEF Named
<1>12. Spares(a)
  BY <1>3, <1>8 DEF Spares
<1> QED
  BY <1>10, <1>11, <1>12 DEF Keeps

(* The signals that calls wait for. *)
LEMMA KeepsWaits ==
  ASSUME Typed, AuthInv, NEW a \in Auths, Waits(a)
  PROVE  Keeps(a)
<1>1. Named(a) /\ Kept(a)
  BY DEF AuthInv
<1>2. PICK c, s, u, d, k, t, g, p, c2, k2, g2, p2 :
        /\ c = caller[a] /\ s = server[a] /\ u = up[a] /\ d = down[a] /\ k = asked[a]
        /\ t = terminated[a] /\ g = given[a] /\ p = policy[a]
        /\ u \in Seq(AnySignal) /\ d \in Seq(Commands)
        /\ c2 = caller'[a] /\ k2 = asked'[a] /\ g2 = given'[a] /\ p2 = policy'[a]
  BY TypedAt
<1>3. /\ Balance(c, s, u, d) /\ Pending(c, s, u, d, k, t)
      /\ "eintr" \notin use => Steady(c, s, u, t)
      /\ InPlace(use, c, s, u, k, g, p)
  BY <1>1, <1>2 DEF Kept
<1>4. /\ u # <<>> /\ up'[a] = Tail(u)
      /\ \A b \in Auths : b # a => caller'[b] = caller[b] /\ up'[b] = up[b]
  BY <1>2 DEF Waits, Constructed, ConstructorThrows, Returns, DestroysMembers, Destroyed,
              Waited, Moves, Typed
<1>5. \/ c = "constructing" /\ c2 = "ready" /\ Head(u) = "ok" /\ k2 = k /\ g2 = g /\ p2 = p
      \/ c = "constructing" /\ c2 = "failed" /\ Head(u) = "ko" /\ k2 = k /\ g2 = g /\ p2 = p
      \/ c = "calling" /\ c2 = "ready" /\ k2 = NoCommand /\ g2 = Promised(g, k) /\ p2 = p
      \/ c = "terminating" /\ c2 = "stopping" /\ k2 = k /\ g2 = g /\ p2 = p
      \/ c = "stopping" /\ c2 = "gone" /\ k2 = k /\ g2 = NoPolicy /\ p2 = NoPolicy
  BY <1>2 DEF Waits, Constructed, ConstructorThrows, Returns, DestroysMembers, Destroyed,
              Waited, Moves, Typed, serverVars
<1>6. Head(u) = u[1] /\ 1 \in DOMAIN u
  BY <1>2, <1>4
<1>7. c2 = "failed" => s = "ended"
  BY <1>3, <1>5, <1>6 DEF Balance
<1>8. Balance(c2, s, Tail(u), d)
  <2>1. Awaits(c2) = Awaits(c) - 1
    BY <1>5 DEF Awaits
  <2>2. c \in {"constructing", "calling", "terminating", "stopping"}
    BY <1>5
  <2>3. c2 \in {"ready", "failed", "stopping", "gone"}
    BY <1>5
  <2> QED
    BY <1>2, <1>3, <1>4, <1>7, <2>1, <2>2, <2>3, WaitedBalances
<1>9. c \in {"calling", "terminating"} => d = <<>>
  BY <1>2, <1>3, <1>4, WaitedDone
<1>10. Pending(c2, s, Tail(u), d, k2, t)
  BY <1>3, <1>4, <1>5, <1>9 DEF Pending
<1>11. "eintr" \notin use => Steady(c2, s, Tail(u), t)
  BY <1>3, <1>4, <1>5, <1>6 DEF Steady
<1>12. InPlace(use, c2, s, Tail(u), k2, g2, p2)
  <2>1. CASE c = "calling"
    BY <1>3, <1>4, <1>5, <2>1 DEF InPlace
  <2>2. CASE c = "stopping"
    BY <1>5, <2>2 DEF InPlace, Alike
  <2>3. CASE c \in {"constructing", "terminating"}
    BY <1>3, <1>5, <2>3 DEF InPlace
  <2> QED
    BY <1>5, <2>1, <2>2, <2>3
<1>13. server'[a] = s /\ down'[a] = d /\ terminated'[a] = t /\ use' = use
  BY <1>2 DEF Waits, Constructed, ConstructorThrows, Returns, DestroysMembers, Destroyed, serverVars
<1>14. Kept(a)'
  BY <1>2, <1>4, <1>8, <1>10, <1>11, <1>12, <1>13 DEF Kept
<1>15. Named(a)'
  BY <1>1 DEF Named, Waits, Constructed, ConstructorThrows, Returns, DestroysMembers, Destroyed,
              serverVars, zapVars
<1>16. Spares(a)
  <2>1. \A b \in Auths : b # a => asked'[b] = asked[b] /\ given'[b] = given[b] /\ policy'[b] = policy[b]
    BY DEF Waits, Constructed, ConstructorThrows, Returns, DestroysMembers, Destroyed,
           serverVars, Typed
  <2>2. UNCHANGED <<use, server, polled, terminated, down, zapVars>>
    BY DEF Waits, Constructed, ConstructorThrows, Returns, DestroysMembers, Destroyed, serverVars
  <2> QED
    BY <1>4, <2>1, <2>2 DEF Spares, zapVars
<1> QED
  BY <1>14, <1>15, <1>16 DEF Keeps

(* The routine binds the name, or cannot. *)
LEMMA KeepsStarts ==
  ASSUME Typed, AuthInv, NEW a \in Auths, Starts(a)
  PROVE  Keeps(a)
<1>1. Named(a) /\ Kept(a) /\ server[a] = "starting"
  BY DEF AuthInv, Starts
<1>2. PICK c, s2, u, u2, d, k, t, g, p :
        /\ c = caller[a] /\ u = up[a] /\ d = down[a] /\ k = asked[a] /\ t = terminated[a]
        /\ g = given[a] /\ p = policy[a] /\ u \in Seq(AnySignal) /\ d \in Seq(Commands)
        /\ s2 = server'[a] /\ u2 = up'[a]
  BY TypedAt
<1>3. /\ Balance(c, "starting", u, d) /\ Pending(c, "starting", u, d, k, t)
      /\ InPlace(use, c, "starting", u, k, g, p)
  BY <1>1, <1>2 DEF Kept
<1>4. /\ c = "constructing" /\ u = <<>> /\ d = <<>>
      /\ Balance(c, "serving", Append(u, "ok"), d) /\ Balance(c, "refused", u, d)
  BY <1>2, <1>3, StartBalances
<1>5. /\ \/ bound = Nobody /\ bound' = a /\ s2 = "serving" /\ u2 = Append(u, "ok")
         \/ bound # Nobody /\ bound' = bound /\ s2 = "refused" /\ u2 = u
      /\ \A b \in Auths : b # a => server'[b] = server[b] /\ up'[b] = up[b]
  BY <1>2 DEF Starts, ToCaller, Typed
<1>6. Balance(c, s2, u2, d)
  BY <1>4, <1>5
<1>7. Pending(c, s2, u2, d, k, t)
  BY <1>3, <1>4 DEF Pending
<1>8. Steady(c, s2, u2, t)
  BY <1>4, <1>5 DEF Steady
<1>9. InPlace(use, c, s2, u2, k, g, p)
  BY <1>3, <1>4 DEF InPlace
<1>10. /\ caller'[a] = c /\ down'[a] = d /\ asked'[a] = k /\ terminated'[a] = t
       /\ given'[a] = g /\ policy'[a] = p /\ use' = use
  BY <1>2 DEF Starts, callerVars
<1>11. Kept(a)'
  BY <1>2, <1>6, <1>7, <1>8, <1>9, <1>10 DEF Kept
<1>12. a # Nobody /\ \A b \in Auths : b # Nobody
  BY AuthAssumption
<1>13. Named(a)'
  BY <1>1, <1>2, <1>5, <1>12 DEF Named, Starts
<1>14. Spares(a)
  BY <1>5, <1>12 DEF Spares, Starts, callerVars
<1> QED
  BY <1>11, <1>13, <1>14 DEF Keeps

(* Steps that change no list and send nothing: a poll, an answer to a       *)
(* request, and a receive that a signal interrupts.                        *)
LEMMA KeepsLooks ==
  ASSUME Typed, AuthInv, NEW a \in Auths,
         Poll(a) \/ Authenticate(a) \/ CommandInterrupted(a)
  PROVE  Keeps(a)
<1>1. Named(a) /\ Kept(a)
  BY DEF AuthInv
<1>2. UNCHANGED <<use, caller, asked, given, server, policy, terminated, down, up, bound>>
  BY DEF Poll, Authenticate, CommandInterrupted, callerVars, zapVars
<1>3. Kept(a)'
  BY <1>1, <1>2 DEF Kept
<1>4. server[a] = "serving" /\ bound = a /\ ~terminated[a]
  BY <1>1, TypedAt DEF Named, Poll, AtPoll, Authenticate, CommandInterrupted, Looks
<1>5. \A b \in Auths : b # a => polled'[b] = polled[b]
  BY DEF Poll, Authenticate, CommandInterrupted, Looks, Typed
<1>6. Named(a)'
  <2>1. CASE Poll(a)
    BY <1>1, <1>2, <1>4, <2>1 DEF Named, Poll, Typed, zapVars
  <2>2. CASE Authenticate(a)
    <3>1. polled'[a] = polled[a] \ {"zap"}
      BY <2>2 DEF Authenticate, Looks, Typed
    <3> QED
      BY <1>1, <1>2, <1>4, <3>1 DEF Named
  <2>3. CASE CommandInterrupted(a)
    <3>1. polled'[a] = polled[a] \ {"pipe"} /\ zap' = zap
      BY <2>3 DEF CommandInterrupted, Looks, Typed, zapVars
    <3> QED
      BY <1>1, <1>2, <1>4, <3>1 DEF Named
  <2> QED
    BY <2>1, <2>2, <2>3
<1>7. Spares(a)
  BY <1>2, <1>4, <1>5 DEF Spares
<1> QED
  BY <1>3, <1>6, <1>7 DEF Keeps

(* The loop is left, at its head or because a send throws. *)
LEMMA KeepsLeaves ==
  ASSUME Typed, AuthInv, NEW a \in Auths, Leave(a) \/ AuthenticateInterrupted(a)
  PROVE  Keeps(a)
<1>1. Named(a) /\ Kept(a)
  BY DEF AuthInv
<1>2. PICK c, s2, u, d, k, t, g, p :
        /\ c = caller[a] /\ u = up[a] /\ d = down[a] /\ k = asked[a] /\ t = terminated[a]
        /\ g = given[a] /\ p = policy[a] /\ u \in Seq(AnySignal) /\ d \in Seq(Commands)
        /\ s2 = server'[a]
  BY TypedAt
<1>3. server[a] = "serving" /\ bound = a
  BY <1>1 DEF Named, Leave, AuthenticateInterrupted
<1>4. /\ Balance(c, "serving", u, d) /\ Pending(c, "serving", u, d, k, t)
      /\ "eintr" \notin use => Steady(c, "serving", u, t)
      /\ InPlace(use, c, "serving", u, k, g, p)
  BY <1>1, <1>2, <1>3 DEF Kept
<1>5. /\ s2 \in {"leaving", "throwing"} /\ polled'[a] = {}
      /\ "eintr" \notin use => t
      /\ \A b \in Auths : b # a => server'[b] = server[b] /\ polled'[b] = polled[b]
  BY <1>2 DEF Leave, AuthenticateInterrupted, Typed
<1>6. Balance(c, s2, u, d)
  BY <1>2, <1>4, <1>5, LeaveBalances
<1>7. Pending(c, s2, u, d, k, t)
  BY <1>4, <1>5 DEF Pending
<1>8. "eintr" \notin use => Steady(c, s2, u, t)
  <2>1. t => c \in {"terminating", "stopping", "gone"}
    BY <1>4 DEF Pending
  <2> QED
    BY <1>5, <2>1 DEF Steady
<1>9. InPlace(use, c, s2, u, k, g, p)
  BY <1>4, <1>5 DEF InPlace
<1>10. UNCHANGED <<use, caller, asked, given, policy, terminated, down, up>> /\ bound' = Nobody
  BY DEF Leave, AuthenticateInterrupted, callerVars
<1>11. Kept(a)'
  BY <1>2, <1>6, <1>7, <1>8, <1>9, <1>10 DEF Kept
<1>12. a # Nobody /\ \A b \in Auths : b # Nobody
  BY AuthAssumption
<1>13. Named(a)'
  BY <1>2, <1>5, <1>10, <1>12 DEF Named
<1>14. Spares(a)
  BY <1>3, <1>5, <1>10, <1>12 DEF Spares
<1> QED
  BY <1>11, <1>13, <1>14 DEF Keeps

(* A command is read, carried out and answered. *)
LEMMA KeepsHandleCommand ==
  ASSUME Typed, AuthInv, NEW a \in Auths, HandleCommand(a)
  PROVE  Keeps(a)
<1>1. Named(a) /\ Kept(a)
  BY DEF AuthInv
<1>2. PICK c, u, u2, d, d2, k, t2, g, p, p2 :
        /\ c = caller[a] /\ u = up[a] /\ d = down[a] /\ k = asked[a]
        /\ g = given[a] /\ p = policy[a] /\ u \in Seq(AnySignal) /\ d \in Seq(Commands)
        /\ g \in Policies /\ p \in Policies
        /\ u2 = up'[a] /\ d2 = down'[a] /\ t2 = terminated'[a] /\ p2 = policy'[a]
  BY TypedAt
<1>3. server[a] = "serving" /\ bound = a /\ d # <<>>
  BY <1>1, <1>2 DEF Named, HandleCommand, Looks
<1>4. /\ Balance(c, "serving", u, d) /\ \E t : Pending(c, "serving", u, d, k, t)
      /\ InPlace(use, c, "serving", u, k, g, p)
  BY <1>1, <1>2, <1>3 DEF Kept
<1>5. d = <<k>> /\ Head(d) = k /\ Tail(d) = <<>>
  <2>1. d = <<k>>
    BY <1>3, <1>4 DEF Pending
  <2> QED
    BY <2>1
<1>6. /\ p2 = Configured(p, k) /\ (t2 <=> k = Terminate) /\ u2 = Append(u, "ok") /\ d2 = <<>>
      /\ polled'[a] = polled[a] \ {"pipe"} /\ "zap" \notin polled[a]
      /\ \A b \in Auths : b # a =>
           /\ policy'[b] = policy[b] /\ terminated'[b] = terminated[b] /\ up'[b] = up[b]
           /\ down'[b] = down[b] /\ polled'[b] = polled[b]
  BY <1>2, <1>5 DEF HandleCommand, Looks, ToCaller, Typed
<1>7. /\ Balance(c, "serving", u2, d2)
      /\ c \notin {"none", "constructing", "ready", "failed", "stuck", "stopping", "gone"}
  <2>1. u \in Seq(AnySignal) /\ d \in Seq(Commands) /\ d # <<>> /\ Balance(c, "serving", u, d)
    BY <1>2, <1>3, <1>4
  <2>2. u2 = Append(u, "ok") /\ d2 = Tail(d)
    BY <1>5, <1>6
  <2> QED
    BY <2>1, <2>2, AnswerBalances
<1>8. \/ c = "calling" /\ k \in Settings
      \/ c = "terminating" /\ k = Terminate
  <2>1. c \in Callers
    BY <1>2, TypedAt
  <2> QED
    BY <1>4, <1>7, <2>1 DEF Callers, Pending
<1>9. c = "calling" => ~t2
  BY <1>6, <1>8, CommandsDiffer
<1>10. Pending(c, "serving", u2, d2, k, t2)
  BY <1>6, <1>8, <1>9 DEF Pending
<1>11. Steady(c, "serving", u2, t2)
  BY DEF Steady
<1>12. InPlace(use, c, "serving", u2, k, g, p2)
  <2>1. CASE c = "calling"
    <3>1. Alike(use, p, g) /\ ("again" \notin use => Single(g, k))
      <4>1. u = <<>>
        BY <1>2, <1>3, <1>4, <2>1, WaitedDone
      <4> QED
        BY <1>4, <2>1, <4>1 DEF InPlace
    <3>2. Alike(use, Configured(p, k), Promised(g, k))
      BY <1>2, <1>8, <2>1, <3>1, ListsAgree
    <3>3. u2 # <<>>
      BY <1>2, <1>6
    <3> QED
      BY <1>6, <2>1, <3>2, <3>3 DEF InPlace
  <2>2. CASE c = "terminating"
    <3>1. p2 = p
      BY <1>6, <1>8, <2>2, TerminateKeepsLists
    <3> QED
      BY <1>4, <2>2, <3>1 DEF InPlace
  <2> QED
    BY <1>8, <2>1, <2>2
<1>13. UNCHANGED <<use, caller, asked, given, server, zap, bound>>
  BY DEF HandleCommand, callerVars, zapVars
<1>14. Kept(a)'
  BY <1>2, <1>3, <1>7, <1>10, <1>11, <1>12, <1>13 DEF Kept
<1>15. Named(a)'
  <2>1. polled'[a] = {}
    BY <1>6, TypedAt
  <2> QED
    BY <1>3, <1>13, <2>1 DEF Named
<1>16. Spares(a)
  BY <1>6, <1>13 DEF Spares
<1> QED
  BY <1>14, <1>15, <1>16 DEF Keeps

(* The routine's own answer. *)
LEMMA KeepsEnds ==
  ASSUME Typed, AuthInv, NEW a \in Auths, Ends(a)
  PROVE  Keeps(a)
<1>1. Named(a) /\ Kept(a)
  BY DEF AuthInv
<1>2. PICK c, s, x, u, d, k, t, g, p :
        /\ c = caller[a] /\ s = server[a] /\ u = up[a] /\ d = down[a] /\ k = asked[a]
        /\ t = terminated[a] /\ g = given[a] /\ p = policy[a]
        /\ u \in Seq(AnySignal) /\ d \in Seq(Commands)
        /\ x = IF s = "leaving" THEN "ok" ELSE "ko"
  BY TypedAt
<1>3. /\ Balance(c, s, u, d) /\ Pending(c, s, u, d, k, t)
      /\ "eintr" \notin use => Steady(c, s, u, t)
  BY <1>1, <1>2 DEF Kept
<1>4. /\ s \in {"leaving", "throwing", "refused"} /\ server'[a] = "ended"
      /\ up'[a] = Append(u, x) /\ down'[a] = <<>>
      /\ \A b \in Auths : b # a =>
           server'[b] = server[b] /\ up'[b] = up[b] /\ down'[b] = down[b]
  BY <1>2 DEF Ends, ToCaller, Typed
<1>5. x \in AnySignal
  BY <1>2 DEF AnySignal
<1>6. Balance(c, "ended", Append(u, x), <<>>)
  BY <1>2, <1>3, <1>4, <1>5, EndBalances
<1>7. Pending(c, "ended", Append(u, x), <<>>, k, t)
  BY <1>3 DEF Pending
<1>8. "eintr" \notin use => Steady(c, "ended", Append(u, x), t)
  <2> SUFFICES ASSUME "eintr" \notin use PROVE Steady(c, "ended", Append(u, x), t)
    OBVIOUS
  <2>1. Steady(c, s, u, t) /\ (t => c \in {"terminating", "stopping", "gone"})
    BY <1>3 DEF Pending
  <2>2. c \notin {"ready", "calling"}
    BY <1>4, <2>1 DEF Steady
  <2>3. c = "constructing" => Append(u, x)[1] # "ok"
    <3> SUFFICES ASSUME c = "constructing" PROVE Append(u, x)[1] # "ok"
      OBVIOUS
    <3>1. s = "refused" /\ x = "ko"
      BY <1>2, <1>4, <2>1 DEF Steady
    <3>2. u = <<>>
      <4> SUFFICES ASSUME u # <<>> PROVE FALSE
        OBVIOUS
      <4>1. 1 \in DOMAIN u
        BY <1>2
      <4>2. u[1] = "ok"
        BY <1>3, <3>1, <4>1 DEF Balance
      <4> QED
        BY <2>1, <3>1, <4>2 DEF Steady
    <3>3. Append(u, x) = <<x>>
      BY <3>2
    <3> QED
      BY <3>1, <3>3
  <2> QED
    BY <2>2, <2>3 DEF Steady
<1>9. InPlace(use, c, "ended", Append(u, x), k, g, p)
  BY DEF InPlace
<1>10. UNCHANGED <<use, caller, asked, given, policy, terminated, polled, zap, bound>>
  BY DEF Ends, callerVars, zapVars
<1>11. Kept(a)'
  BY <1>2, <1>4, <1>6, <1>7, <1>8, <1>9, <1>10 DEF Kept
<1>12. Named(a)'
  BY <1>1, <1>2, <1>4, <1>10 DEF Named
<1>13. Spares(a)
  BY <1>4, <1>10 DEF Spares
<1> QED
  BY <1>11, <1>12, <1>13 DEF Keeps

-------------------------------------------------------------------------------
(* The invariant holds. *)

(* It holds at the beginning, *)
LEMMA AuthInit == Init => AuthInv
<1> SUFFICES ASSUME Init, NEW a \in Auths PROVE Named(a) /\ Kept(a)
  BY DEF AuthInv
<1>1. /\ caller[a] = "none" /\ asked[a] = NoCommand /\ given[a] = NoPolicy /\ policy[a] = NoPolicy
      /\ server[a] = "none" /\ polled[a] = {} /\ ~terminated[a] /\ down[a] = <<>> /\ up[a] = <<>>
      /\ bound = Nobody
  BY DEF Init
<1>2. Named(a)
  BY <1>1, AuthAssumption DEF Named
<1>3. Len(<<>>) = 0 /\ DOMAIN <<>> = {}
  OBVIOUS
<1>4. Balance("none", "none", <<>>, <<>>)
  BY <1>3 DEF Balance, Lives, Awaits
<1>5. Pending("none", "none", <<>>, <<>>, NoCommand, terminated[a])
  BY <1>1 DEF Pending
<1>6. Steady("none", "none", <<>>, terminated[a]) /\ InPlace(use, "none", "none", <<>>, NoCommand, NoPolicy, NoPolicy)
  BY DEF Steady, InPlace, Alike
<1> QED
  BY <1>1, <1>2, <1>4, <1>5, <1>6 DEF Kept

(* ... and every step keeps it. *)
LEMMA AuthNext == Typed /\ AuthInv /\ [Next]_vars => AuthInv'
<1> SUFFICES ASSUME Typed, AuthInv, [Next]_vars PROVE AuthInv'
  OBVIOUS
<1>1. ASSUME NEW a \in Auths, Keeps(a) PROVE AuthInv'
  BY <1>1, Combined DEF Keeps
<1>2. ASSUME NEW a \in Auths, Server(a) PROVE AuthInv'
  BY <1>1, <1>2, KeepsStarts, KeepsLooks, KeepsLeaves, KeepsHandleCommand, KeepsEnds DEF Server
<1>3. ASSUME NEW a \in Auths,
             \/ Construct(a) \/ Destroy(a) \/ SendInterrupted(a) \/ Waits(a)
             \/ \E c \in Settings : Call(a, c)
      PROVE  AuthInv'
  BY <1>1, <1>3, KeepsConstruct, KeepsDestroy, KeepsSendInterrupted, KeepsWaits, KeepsCall
<1>4. ASSUME NEW r \in Requests, Asks(r) PROVE AuthInv'
  <2>1. zap' # <<>>
    <3>1. zap \in Seq(Requests) /\ zap' = Append(zap, r)
      BY <1>4 DEF Asks, Typed
    <3> QED
      BY <3>1
  <2>2. UNCHANGED <<use, caller, asked, given, server, polled, policy, terminated, down, up, bound>>
    BY <1>4 DEF Asks, callerVars, serverVars
  <2> SUFFICES ASSUME NEW a \in Auths PROVE Named(a)' /\ Kept(a)'
    BY DEF AuthInv
  <2>3. Named(a) /\ Kept(a)
    BY DEF AuthInv
  <2>4. Named(a)'
    BY <2>1, <2>2, <2>3 DEF Named
  <2>5. Kept(a)'
    BY <2>2, <2>3 DEF Kept
  <2> QED
    BY <2>4, <2>5
<1>5. CASE UNCHANGED vars
  <2>1. UNCHANGED <<use, caller, asked, given, server, polled, policy, terminated, down, up, bound, zap>>
    BY <1>5 DEF vars, callerVars, serverVars, zapVars
  <2> SUFFICES ASSUME NEW a \in Auths PROVE Named(a)' /\ Kept(a)'
    BY DEF AuthInv
  <2>2. Named(a) /\ Kept(a)
    BY DEF AuthInv
  <2> QED
    BY <2>1, <2>2 DEF Named, Kept
<1> QED
  BY <1>2, <1>3, <1>4, <1>5 DEF Next

(* In every reachable state. *)
LEMMA AuthInvariant == Spec => [](Typed /\ AuthInv)
<1>1. Init => Typed /\ AuthInv
  BY TypedInit, AuthInit
<1>2. Typed /\ AuthInv /\ [Next]_vars => (Typed /\ AuthInv)'
  BY TypedNext, AuthNext
<1> QED
  BY <1>1, <1>2, PTL DEF Spec

-------------------------------------------------------------------------------
(* What follows. *)

(* While no signal interrupts, the lists that serve are those of the calls *)
(* that returned, and of the call in progress (auth.hpp:63-114).           *)
THEOREM AuthInForce == Spec => []InForce
<1>1. Typed /\ AuthInv => InForce
  <2> SUFFICES ASSUME Typed, AuthInv, "eintr" \notin use, NEW a \in Auths,
                      caller[a] \in {"ready", "calling"}
               PROVE  /\ bound = a
                      /\ caller[a] = "ready" => Known(policy[a]) = Known(given[a])
                      /\ caller[a] = "calling" =>
                           Known(policy[a]) \in {Known(given[a]), Known(Promised(given[a], asked[a]))}
    BY DEF InForce, Serves
  <2>1. Named(a) /\ Kept(a)
    BY DEF AuthInv
  <2>2. server[a] = "serving"
    BY <2>1 DEF Kept, Steady
  <2>3. bound = a
    BY <2>1, <2>2 DEF Named
  <2>4. \A p, q : Alike(use, p, q) => Known(p) = Known(q)
    BY DEF Alike, Known, Bare
  <2>5. /\ caller[a] = "ready" => Alike(use, policy[a], given[a])
        /\ caller[a] = "calling" => \/ Alike(use, policy[a], given[a])
                                    \/ Alike(use, policy[a], Promised(given[a], asked[a]))
    BY <2>1, <2>2 DEF Kept, InPlace
  <2> QED
    BY <2>3, <2>4, <2>5
<1> QED
  BY <1>1, AuthInvariant, PTL

(* The routine has read TERMINATE or has ended when ~auth destroys what it *)
(* uses, and has ended when the object is gone (auth.cpp:57-66, 74-79).    *)
THEOREM AuthMembersOutliveUse == Spec => []MembersOutliveUse
<1>1. Typed /\ AuthInv => MembersOutliveUse
  <2> SUFFICES ASSUME Typed, AuthInv, NEW a \in Auths
               PROVE  /\ caller[a] = "stopping" =>
                           polled[a] = {} /\ (terminated[a] \/ server[a] = "ended")
                      /\ caller[a] \in {"gone", "failed"} => server[a] = "ended" /\ bound # a
    BY DEF MembersOutliveUse
  <2>1. PICK c, s, u, d, k, t :
          /\ c = caller[a] /\ s = server[a] /\ u = up[a] /\ d = down[a] /\ k = asked[a]
          /\ t = terminated[a] /\ u \in Seq(AnySignal) /\ d \in Seq(Commands) /\ s \in Servers
    BY TypedAt
  <2>2. Named(a) /\ Balance(c, s, u, d) /\ Pending(c, s, u, d, k, t)
    BY <2>1 DEF AuthInv, Kept
  <2>3. /\ s # "ended" /\ c # "none" => Lives(s) >= 1
        /\ Lives(s) \in Nat /\ Len(u) \in Nat /\ Len(d) \in Nat
        /\ Len(u) + Len(d) + Lives(s) <= Awaits(c)
    <3>1. Lives(s) \in Nat /\ (s \notin {"none", "ended"} => Lives(s) >= 1)
      BY DEF Lives
    <3>2. s = "none" <=> c = "none"
      BY <2>2 DEF Balance
    <3>3. Len(u) + Len(d) + Lives(s) <= Awaits(c)
      BY <2>2 DEF Balance
    <3>4. Len(u) \in Nat /\ Len(d) \in Nat
      BY <2>1
    <3> QED
      BY <3>1, <3>2, <3>3, <3>4
  <2>4. c = "stopping" => t \/ s = "ended"
    <3>1. c = "stopping" /\ s # "ended" => d = <<>>
      <4>1. Awaits("stopping") = 1 /\ (Len(d) = 0 => d = <<>>)
        BY <2>1 DEF Awaits
      <4> QED
        BY <2>3, <4>1
    <3>2. c = "stopping" /\ d = <<>> => t \/ s = "ended"
      BY <2>2 DEF Pending
    <3> QED
      BY <3>1, <3>2
  <2>5. c \in {"gone", "failed"} => s = "ended"
    <3>1. c = "gone" => s = "ended"
      <4>1. Awaits("gone") = 0
        BY DEF Awaits
      <4> QED
        BY <2>3, <4>1
    <3>2. c = "failed" => s = "ended"
      BY <2>2 DEF Balance
    <3> QED
      BY <3>1, <3>2
  <2> QED
    BY <2>1, <2>2, <2>4, <2>5 DEF Named
<1> QED
  BY <1>1, AuthInvariant, PTL

(* What the lists decide is what the documentation says of lists like them. *)
LEMMA VerdictsAdmit ==
  ASSUME NEW p \in Policies, NEW q \in Policies, NEW U, Alike(U, p, q), NEW r \in Requests,
         "again" \notin U \/ r.mechanism # "PLAIN"
  PROVE  Verdict(p, Request(r)).status = "200" <=> r \in Admissible(q)
<1>1. /\ p.whitelist = q.whitelist /\ p.blacklist = q.blacklist
      /\ p.client_keys = q.client_keys /\ p.curve_allow_any = q.curve_allow_any
      /\ r.mechanism = "PLAIN" => p.passwords = q.passwords
  BY DEF Alike, Bare, Policies
<1>2. r.address \in Addresses /\ r.mechanism \in Mechanisms
  BY RequestAssumption
<1>3. Denied(p, r.address) <=> r.address \in Rejected(q)
  BY <1>1, <1>2 DEF Denied, Rejected
<1>4. /\ Request(r).address = r.address /\ Request(r).mechanism = r.mechanism
      /\ r.mechanism = "CURVE" => Request(r).credential = Z85(r.credential)
      /\ r.mechanism # "CURVE" => Request(r).credential = r.credential
  BY DEF Request
<1>5. (r.mechanism \in {"PLAIN", "CURVE"} => Authenticates(p, Request(r)))
        <=> /\ r.mechanism = "PLAIN" => r.credential \in q.passwords
            /\ r.mechanism = "CURVE" => Z85(r.credential) \in q.client_keys \/ q.curve_allow_any
  <2>1. CASE r.mechanism = "PLAIN"
    BY <1>1, <1>4, <2>1 DEF Authenticates
  <2>2. CASE r.mechanism = "CURVE"
    BY <1>1, <1>4, <2>2 DEF Authenticates
  <2>3. CASE r.mechanism \notin {"PLAIN", "CURVE"}
    BY <2>3
  <2> QED
    BY <2>1, <2>2, <2>3
<1>6. Verdict(p, Request(r)).status = "200"
        <=> /\ ~Denied(p, r.address)
            /\ r.mechanism \in {"PLAIN", "CURVE"} => Authenticates(p, Request(r))
  BY <1>2, <1>4 DEF Verdict, Reply
<1> QED
  BY <1>3, <1>5, <1>6 DEF Admissible

(* Every answer is the documentation's, by the settings of the calls that   *)
(* returned or of these and the one in progress.                           *)
THEOREM AuthAnswersAsDocumented == Spec => AnswersAsDocumented
<1>1. ASSUME Typed, AuthInv, [Next]_vars, NEW a \in Auths,
             bound = a, zap # <<>>, zap' = Tail(zap), bound' = a
      PROVE  \/ "again" \in use /\ replied'[1].mechanism = "PLAIN"
             \/ \E p \in {given[a], Promised(given[a], asked[a])} :
                  replied'[2].status = "200" <=> replied'[1] \in Admissible(p)
  <2>1. zap' # zap /\ a # Nobody
    BY <1>1, AuthAssumption DEF Typed
  <2>2. \A b \in Auths : ~Construct(b) /\ ~Destroy(b) /\ ~SendInterrupted(b) /\ ~Waits(b)
    BY <2>1 DEF Construct, Destroy, SendInterrupted, Waits, Constructed, ConstructorThrows, Returns,
                DestroysMembers, Destroyed, zapVars
  <2>3. \A b \in Auths, c \in Settings : ~Call(b, c)
    BY <2>1 DEF Call, zapVars
  <2>4. \A b \in Auths : /\ ~Starts(b) /\ ~Poll(b) /\ ~AuthenticateInterrupted(b)
                         /\ ~HandleCommand(b) /\ ~CommandInterrupted(b) /\ ~Leave(b) /\ ~Ends(b)
    BY <1>1, <2>1 DEF Starts, Poll, AuthenticateInterrupted, HandleCommand, CommandInterrupted,
                      Leave, Ends, zapVars
  <2>5. \A r \in Requests : ~Asks(r)
    BY <1>1 DEF Asks, Typed
  <2>6. PICK b \in Auths : Authenticate(b)
    BY <1>1, <2>1, <2>2, <2>3, <2>4, <2>5 DEF Next, Server, vars, zapVars
  <2>7. b = a /\ server[a] = "serving" /\ Named(a) /\ Kept(a)
    BY <1>1, <2>6, TypedAt DEF Authenticate, Looks, AuthInv, Named
  <2>8. PICK r \in Requests : r = Head(zap)
    BY <1>1 DEF Typed
  <2>9. replied'[1] = r /\ replied'[2] = Verdict(policy[a], Request(r))
    BY <2>6, <2>7, <2>8 DEF Authenticate
  <2>10. CASE "again" \in use /\ r.mechanism = "PLAIN"
    BY <2>9, <2>10
  <2>11. CASE "again" \notin use \/ r.mechanism # "PLAIN"
    <3>1. PICK p \in {given[a], Promised(given[a], asked[a])} :
            p \in Policies /\ Alike(use, policy[a], p)
      <4>1. caller[a] = "calling" => asked[a] \in Commands
        BY <2>7 DEF Kept, Pending, Commands
      <4>2. caller[a] = "calling" => Promised(given[a], asked[a]) \in Policies
        BY <4>1, <1>1, ListsTyped, TypedAt
      <4>3. given[a] \in Policies
        BY <1>1, TypedAt
      <4>4. \/ Alike(use, policy[a], given[a])
            \/ caller[a] = "calling" /\ Alike(use, policy[a], Promised(given[a], asked[a]))
        BY <2>7 DEF Kept, InPlace
      <4> QED
        BY <4>2, <4>3, <4>4
    <3>2. policy[a] \in Policies
      BY <1>1, TypedAt
    <3>3. Verdict(policy[a], Request(r)).status = "200" <=> r \in Admissible(p)
      BY <2>11, <3>1, <3>2, VerdictsAdmit
    <3> QED
      BY <2>9, <3>3
  <2> QED
    BY <2>10, <2>11
<1>2. Typed /\ AuthInv /\ [Next]_vars =>
        [\A a \in Auths : bound = a /\ zap # <<>> /\ zap' = Tail(zap) /\ bound' = a =>
           \/ "again" \in use /\ replied'[1].mechanism = "PLAIN"
           \/ \E p \in {given[a], Promised(given[a], asked[a])} :
                replied'[2].status = "200" <=> replied'[1] \in Admissible(p)]_vars
  BY <1>1
<1> QED
  BY <1>2, AuthInvariant, PTL DEF Spec, AnswersAsDocumented
===============================================================================
