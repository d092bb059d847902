-------------------------------- MODULE Socket --------------------------------
(***************************************************************************)
(* The life of zmqpp::socket objects and the options read and written      *)
(* through them (src/src/zmqpp/socket.cpp): who owns a socket of libzmq,   *)
(* and what each overload of set() and get() makes of an option.  Every    *)
(* behaviour is about one option, any of socket_options.hpp, as they are   *)
(* declared for libzmq 4.2 and later.                                      *)
(***************************************************************************)
EXTENDS Integers, Functions

CONSTANTS
  Objects,   \* storage a socket object can be in, each used by a thread of its own
  Handles,   \* the sockets libzmq makes
  Types,     \* socket types
  Ints,      \* values of int and of int64_t that callers pass
  TwoTo64,   \* how many values uint64_t has
  Texts,     \* texts that callers pass; "nul" has a NUL inside, "long" is
             \* longer than the 256 bytes of get()
  Uses       \* the sets of what callers do beyond the plain use:
             \*   "assign"   a socket is assigned to another
             \*   "threads"  two threads read textual options at once
             \*   "contexts" context objects and sockets, as in Context

ASSUME SocketAssumption ==
  /\ Ints \subseteq Int /\ TwoTo64 \in Nat \ {0, 1}
  /\ \A n \in Ints : n < TwoTo64

NoHandle == "nullptr"

ASSUME HandleAssumption == NoHandle \notin Handles

VARIABLES
  use,      \* which of Uses it is
  option,   \* the option the behaviour is about
  handle,   \* living object -> its handle, or NoHandle
  type,     \* living object -> what type() says
  life,     \* open handle -> its type and the option: the value it has, the
            \* last one a caller set, and through which overload
  reading,  \* objects in get(string), libzmq's answer in the buffer
  buffer,   \* the static buffer of get(string)
  answer    \* how the last get ended

objectVars == <<handle, type>>
vars == <<use, option, objectVars, life, reading, buffer, answer>>

-------------------------------------------------------------------------------
(* The case lists of set() and get(). *)

Unsigned == {"affinity", "vmci_buffer_size", "vmci_buffer_min", "vmci_buffer_max"}
Signed == {"max_messsage_size"}

BooleanSet ==
  {"ipv4_only", "immediate", "router_mandatory", "xpub_verbose", "ipv6", "plain_server",
   "conflate", "curve_server", "probe_router", "request_correlate", "request_relaxed",
   "router_raw", "router_handover", "gssapi_plaintext", "gssapi_server", "invert_matching",
   "stream_notify", "xpub_manual", "xpub_nodrop", "xpub_verboser"}

TextSet ==
  {"identity", "subscribe", "unsubscribe", "tcp_accept_filter", "plain_password",
   "plain_username", "zap_domain", "curve_public_key", "curve_secret_key", "curve_server_key",
   "gssapi_principal", "gssapi_service_principal", "socks_proxy", "xpub_welcome_message"}

IntAsUnsigned == {"affinity", "vmci_buffer_size", "vmci_buffer_min", "vmci_buffer_max"}
IntAsSigned == {"max_messsage_size"}

IntAsBoolean ==
  {"ipv4_only", "immediate", "router_mandatory", "xpub_verbose", "ipv6", "plain_server",
   "conflate", "curve_server", "probe_router", "request_correlate", "request_relaxed",
   "router_raw", "router_handover", "gssapi_plaintext", "gssapi_server", "invert_matching",
   "stream_notify", "xpub_manual", "xpub_nodrop", "xpub_verboser"}

IntNotNegative ==
  {"backlog", "reconnect_interval_max", "send_buffer_size", "recovery_interval",
   "receive_buffer_size", "send_high_water_mark", "receive_high_water_mark", "multicast_hops",
   "rate"}

IntAny ==
  {"reconnect_interval", "linger", "receive_timeout", "send_timeout", "tcp_keepalive_idle",
   "tcp_keepalive_count", "tcp_keepalive_interval", "connect_timeout", "heartbeat_interval",
   "heartbeat_timeout", "heartbeat_ttl", "multicast_max_tpdu", "tpc_max_retransmit", "use_fd",
   "vmci_connect_timeout"}

IntGet ==
  {"type", "linger", "backlog", "reconnect_interval", "reconnect_interval_max",
   "receive_timeout", "send_timeout", "file_descriptor", "events", "receive_more",
   "send_buffer_size", "receive_buffer_size", "rate", "recovery_interval",
   "send_high_water_mark", "receive_high_water_mark", "multicast_hops", "ipv4_only",
   "immediate", "tcp_keepalive", "tcp_keepalive_idle", "tcp_keepalive_count",
   "tcp_keepalive_interval", "ipv6", "plain_server", "mechanism", "connect_timeout",
   "gssapi_plaintext", "gssapi_server", "invert_matching", "multicast_max_tpdu",
   "stream_notify", "tpc_max_retransmit", "use_fd", "vmci_connect_timeout", "xpub_manual",
   "xpub_nodrop"}

(* Mutant: an option was forgotten. *)
BooleanGetShort == {"receive_more", "ipv4_only", "immediate", "ipv6", "plain_server"}

BooleanGet ==
  {"receive_more", "ipv4_only", "immediate", "ipv6", "plain_server", "gssapi_plaintext",
   "gssapi_server", "invert_matching", "stream_notify", "xpub_manual", "xpub_nodrop",
   "xpub_verboser"}

TextGet ==
  {"identity", "last_endpoint", "plain_password", "plain_username", "zap_domain",
   "curve_public_key", "curve_secret_key", "curve_server_key", "gssapi_principal",
   "gssapi_service_principal", "socks_proxy"}

(* Declared, and taken by no overload. *)
Orphans ==
  {"handshake_interval", "type_of_service", "connect_rid", "ipc_filter_gid", "ipc_filter_pid",
   "ipc_filter_uid"}

Options ==
  Unsigned \cup Signed \cup BooleanSet \cup TextSet \cup {"tcp_keepalive"} \cup IntNotNegative
    \cup IntAny \cup IntGet \cup BooleanGet \cup TextGet \cup Orphans

-------------------------------------------------------------------------------
(* The overloads of set(): the value they pass to libzmq, or Bounced when   *)
(* they throw before.                                                      *)

Bounced == <<"bounced">>
Default == <<"default">>
Number(n) == <<"number", n>>
Text(t) == <<"text", t>>

Unless(refused, value) == IF refused THEN Bounced ELSE value

SetBool(n) == Unless(option \notin BooleanSet, Number(n))
SetUnsigned(n) == Unless(option \notin Unsigned, Number(n))
SetSigned(n) == Unless(option \notin Signed \/ n < 0, Number(n))
SetText(t) == Unless(option \notin TextSet, Text(t))

(* Mutant: nothing is refused before the conversion. *)
SetIntUnchecked(n) ==
  CASE option \in IntAsUnsigned -> SetUnsigned(n % TwoTo64)
    [] option \in IntAsSigned -> SetSigned(n)
    [] option \in IntAsBoolean -> SetBool(IF n = 0 THEN 0 ELSE 1)
    [] option = "tcp_keepalive" \/ option \in IntNotNegative \cup IntAny -> Number(n)
    [] OTHER -> Bounced

SetInt(n) ==
  CASE option \in IntAsUnsigned -> IF n < 0 THEN Bounced ELSE SetUnsigned(n % TwoTo64)
    [] option \in IntAsSigned -> SetSigned(n)
    [] option \in IntAsBoolean -> IF n \in {0, 1} THEN SetBool(n) ELSE Bounced
    [] option = "tcp_keepalive" -> Unless(n \notin -1..1, Number(n))
    [] option \in IntNotNegative -> Unless(n < 0, Number(n))
    [] option \in IntAny -> Number(n)
    [] OTHER -> Bounced

(* The overloads of get(): the options they take, and what the caller gets *)
(* of libzmq's value.                                                      *)
Gettable ==
  [int |-> IntGet, bool |-> BooleanGet, uint64 |-> Unsigned, int64 |-> Signed, string |-> TextGet]

AsBool(value) == IF value[1] # "number" THEN value ELSE Number(IF value[2] = 1 THEN 1 ELSE 0)
AsText(value) == IF value = Text("nul") /\ option # "identity" THEN Text("cut") ELSE value

-------------------------------------------------------------------------------
(* The objects. *)

(* f, and y for x besides. *)
With(f, x, y) == [z \in DOMAIN f \cup {x} |-> IF z = x THEN y ELSE f[z]]

Alive == DOMAIN handle
Idle == Alive \ reading

NoAnswer == [by |-> "none"]

Init ==
  /\ use \in Uses /\ option \in Options
  /\ handle = <<>> /\ type = <<>> /\ life = <<>>
  /\ reading = {} /\ buffer = Default
  /\ answer = NoAnswer

(* socket(context, type), of a handle libzmq has free; when it has none, an *)
(* exception.                                                              *)
Construct(o, t) ==
  /\ o \notin Alive
  /\ \E h \in Handles \ DOMAIN life :
       /\ handle' = With(handle, o, h)
       /\ type' = With(type, o, t)
       /\ life' = With(life, h, [type |-> t, value |-> Default, asked |-> Default, by |-> "none"])
  /\ answer' = NoAnswer
  /\ UNCHANGED <<use, option, reading, buffer>>

(* Mutant: both objects have the handle. *)
TakenKept(o, q) == With(handle, o, handle[q])

(* The handles after socket o is moved out of q. *)
Taken(o, q) == [With(handle, o, handle[q]) EXCEPT ![q] = NoHandle]

MoveConstruct(o, q) ==
  /\ o \notin Alive /\ q \in Idle
  /\ handle' = Taken(o, q)
  /\ type' = With(type, o, type[q])
  /\ answer' = NoAnswer
  /\ UNCHANGED <<use, option, life, reading, buffer>>

(* operator=: the handles are exchanged, the type is cloned. *)
MoveAssign(o, q) ==
  /\ "assign" \in use
  /\ {o, q} \subseteq Idle /\ o # q
  /\ handle' = [handle EXCEPT ![o] = handle[q], ![q] = handle[o]]
  /\ type' = [type EXCEPT ![o] = type[q]]
  /\ answer' = NoAnswer
  /\ UNCHANGED <<use, option, life, reading, buffer>>

(* close(); of a socket without a handle it throws. *)
Close(o) ==
  /\ o \in Idle /\ handle[o] # NoHandle
  /\ life' = RestrictDomain(life, LAMBDA h : h # handle[o])
  /\ handle' = [handle EXCEPT ![o] = NoHandle]
  /\ answer' = NoAnswer
  /\ UNCHANGED <<use, option, type, reading, buffer>>

(* ~socket closes what close() did not. *)
Destroy(o) ==
  /\ o \in Idle
  /\ life' = RestrictDomain(life, LAMBDA h : h # handle[o])
  /\ handle' = RestrictDomain(handle, LAMBDA p : p # o)
  /\ type' = RestrictDomain(type, LAMBDA p : p # o)
  /\ answer' = NoAnswer
  /\ UNCHANGED <<use, option, reading, buffer>>

-------------------------------------------------------------------------------
(* The options. *)

(* A set that libzmq accepts.  One that bounces, that libzmq refuses or     *)
(* that is of no handle throws and changes nothing.                        *)
Set(o, by, asked, passed) ==
  /\ o \in Idle /\ handle[o] # NoHandle /\ passed # Bounced
  /\ life' = [life EXCEPT ![handle[o]].value = passed, ![handle[o]].asked = asked,
                         ![handle[o]].by = by]
  /\ answer' = NoAnswer
  /\ UNCHANGED <<use, option, objectVars, reading, buffer>>

SetOf(o) ==
  \/ \E n \in Ints : Set(o, "int", Number(n), SetInt(n)) \/ Set(o, "int64", Number(n), SetSigned(n))
  \/ \E n \in {0, 1} : Set(o, "bool", Number(n), SetBool(n))
  \/ \E n \in 0..TwoTo64 - 1 : Set(o, "uint64", Number(n), SetUnsigned(n))
  \/ \E t \in Texts : Set(o, "string", Text(t), SetText(t))

Answers(o, by, value) == answer' = [by |-> by, of |-> handle[o], value |-> value]

(* An overload that does not take the option throws. *)
GetBounces(o, by) ==
  /\ o \in Idle /\ option \notin Gettable[by]
  /\ Answers(o, by, Bounced)
  /\ UNCHANGED <<use, option, objectVars, life, reading, buffer>>

Get(o, by) ==
  /\ o \in Idle /\ handle[o] # NoHandle /\ by # "string" /\ option \in Gettable[by]
  /\ LET value == life[handle[o]].value
     IN  Answers(o, by, IF by = "bool" THEN AsBool(value) ELSE value)
  /\ UNCHANGED <<use, option, objectVars, life, reading, buffer>>

(* get(string): libzmq writes into the buffer what fits in; then the caller *)
(* gets a copy.                                                            *)
GetText(o) ==
  /\ o \in Idle /\ handle[o] # NoHandle /\ option \in Gettable["string"]
  /\ reading # {} => "threads" \in use
  /\ life[handle[o]].value # Text("long")
  /\ buffer' = life[handle[o]].value
  /\ reading' = reading \cup {o}
  /\ answer' = NoAnswer
  /\ UNCHANGED <<use, option, objectVars, life>>

CopyText(o) ==
  /\ o \in reading
  /\ reading' = reading \ {o}
  /\ Answers(o, "string", AsText(buffer))
  /\ UNCHANGED <<use, option, objectVars, life, buffer>>

-------------------------------------------------------------------------------
Next ==
  \E o \in Objects :
    \/ \E t \in Types : Construct(o, t)
    \/ \E q \in Objects : MoveConstruct(o, q) \/ MoveAssign(o, q)
    \/ Close(o) \/ Destroy(o)
    \/ SetOf(o)
    \/ \E by \in DOMAIN Gettable : GetBounces(o, by) \/ Get(o, by)
    \/ GetText(o) \/ CopyText(o)

Spec == Init /\ [][Next]_vars

-------------------------------------------------------------------------------
(* Two socket objects never have the same handle, an open handle has an     *)
(* object that will close it, a handle of an object is open, and type()     *)
(* says the type it was made with, unless sockets were assigned            *)
(* (socket.cpp:45-61, 107-117, 884-913).                                   *)
HandlesAreOwned ==
  /\ {handle[o] : o \in Alive} \ {NoHandle} = DOMAIN life
  /\ \A o, q \in Alive : handle[o] = handle[q] /\ handle[o] # NoHandle => o = q
  /\ "assign" \notin use => \A o \in Alive : handle[o] # NoHandle => life[handle[o]].type = type[o]

(* Whatever the overload that set an option, and the one it is read with,   *)
(* the caller reads the number or text that was asked for, or an           *)
(* exception, and never what a conversion made of it (socket.cpp:387-882)  *)
(* or what another socket has ("Get a socket option from the underlaying   *)
(* zmq socket.", socket.hpp:527).  Text with a NUL comes back whole only   *)
(* as the identity.                                                        *)
GetsItsOwn ==
  LET asked == life[answer.of].asked
  IN  answer # NoAnswer /\ answer.value # Bounced =>
        answer.value = asked \/ (asked = Text("nul") /\ option # "identity")

(* So it does as long as no two threads read text at once: they share a    *)
(* buffer (socket.cpp:845).                                                *)
GetsWhatWasSet == "threads" \notin use => GetsItsOwn

(* What socket_options.hpp:30-132 declares "get only" and "set only". *)
GetOnly ==
  {"receive_more", "file_descriptor", "events", "type", "backlog", "last_endpoint", "mechanism"}
SetOnly ==
  {"subscribe", "unsubscribe", "router_mandatory", "xpub_verbose", "tcp_accept_filter",
   "conflate", "curve_server", "probe_router", "request_correlate", "request_relaxed",
   "router_raw", "connect_rid", "ipc_filter_gid", "ipc_filter_pid", "ipc_filter_uid",
   "router_handover", "heartbeat_interval", "heartbeat_timeout", "heartbeat_ttl",
   "xpub_verboser"}

(* No overload of set() sets what is declared "get only".  False of         *)
(* backlog (socket_options.hpp:41), which set(int) sets (socket.cpp:474).  *)
GetOnlyHolds == option \in GetOnly => \A h \in DOMAIN life : life[h].by = "none"

(* Every overload of get() bounces what is declared "set only".  False of   *)
(* xpub_verboser (socket_options.hpp:130), which get(bool) takes and asks  *)
(* libzmq for (socket.cpp:776).                                            *)
SetOnlyHolds == option \in SetOnly /\ answer # NoAnswer => answer.value = Bounced

(* The case lists of the five overloads of set(), of those of get() and the *)
(* declarations fit (socket.cpp:387-821): but for backlog and              *)
(* xpub_verboser all options are as declared; and the overload that set an *)
(* option reads it too, unless it is declared set only, is                 *)
(* xpub_welcome_message, of which nothing is declared, or is a number of   *)
(* 64 bits that was given as an int.                                       *)
ReadsBack ==
  /\ option \notin {"backlog", "xpub_verboser"} => GetOnlyHolds /\ SetOnlyHolds
  /\ answer # NoAnswer /\ answer.value = Bounced /\ answer.of # NoHandle
       /\ answer.by = life[answer.of].by =>
          \/ option \in SetOnly \cup {"xpub_welcome_message"}
          \/ answer.by = "int" /\ option \in Unsigned \cup Signed
===============================================================================
