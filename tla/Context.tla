------------------------------- MODULE Context -------------------------------
(***************************************************************************)
(* zmqpp::context objects (src/src/zmqpp/context.hpp, context.cpp) and the *)
(* sockets that are made in them: who owns a context of libzmq, and how it *)
(* ends.  The behaviours with "contexts" in use are about them, the others *)
(* are those of Socket, each of whose sockets has the context it needs.    *)
(***************************************************************************)
EXTENDS Socket

CONSTANTS
  Owners,    \* storage a context object can be in
  Contexts   \* the contexts libzmq makes

ASSUME ContextAssumption == NoHandle \notin Contexts

VARIABLES
  context,   \* living context object -> its context, or NoHandle
  within,    \* open handle -> its context
  ending,    \* contexts whose end has begun: no socket can be made in them
  calling,   \* context object in terminate() -> who called it, and whether
             \* zmq_ctx_destroy waits or a signal interrupted it
  crashed    \* a destructor threw, which ends the program

contextVars == <<context, within, ending, calling, crashed>>
allVars == <<vars, contextVars>>

ContextInit ==
  /\ Init /\ ("contexts" \in use => option = "linger")
  /\ context = <<>> /\ within = <<>> /\ ending = {} /\ calling = <<>> /\ crashed = FALSE

-------------------------------------------------------------------------------
Held == {context[c] : c \in DOMAIN context} \ {NoHandle}

(* Context objects that no thread is in terminate() of. *)
Free == DOMAIN context \ DOMAIN calling

NewContext(c) ==
  /\ c \notin DOMAIN context
  /\ \E z \in Contexts \ Held : context' = With(context, c, z)
  /\ UNCHANGED <<vars, within, ending, calling, crashed>>

MoveContext(c, d) ==
  /\ c \notin DOMAIN context /\ d \in Free
  /\ context' = [With(context, c, context[d]) EXCEPT ![d] = NoHandle]
  /\ UNCHANGED <<vars, within, ending, calling, crashed>>

(* operator=: the contexts are exchanged. *)
AssignContext(c, d) ==
  /\ {c, d} \subseteq Free /\ c # d
  /\ context' = [context EXCEPT ![c] = context[d], ![d] = context[c]]
  /\ UNCHANGED <<vars, within, ending, calling, crashed>>

(* terminate(), which throws when there is no context, or ~context. *)
Terminate(c, by) ==
  /\ c \in Free /\ context[c] # NoHandle
  /\ calling' = With(calling, c, [by |-> by, waits |-> TRUE])
  /\ ending' = ending \cup {context[c]}
  /\ UNCHANGED <<vars, context, within, crashed>>

(* ~context of an object without a context. *)
DropContext(c) ==
  /\ c \in Free /\ context[c] = NoHandle
  /\ context' = RestrictDomain(context, LAMBDA d : d # c)
  /\ UNCHANGED <<vars, within, ending, calling, crashed>>

InCall(c, waits) == c \in DOMAIN calling /\ calling[c].waits = waits

(* Mutant: an interrupted call is an error. *)
TerminateThrows(c) ==
  /\ InCall(c, TRUE)
  /\ crashed' = (calling[c].by = "~context")
  /\ calling' = RestrictDomain(calling, LAMBDA d : d # c)
  /\ UNCHANGED <<vars, context, within, ending>>

TerminateInterrupted(c) ==
  /\ InCall(c, TRUE)
  /\ calling' = [calling EXCEPT ![c].waits = FALSE]
  /\ UNCHANGED <<vars, context, within, ending, crashed>>

TerminateAgain(c) ==
  /\ InCall(c, FALSE)
  /\ calling' = [calling EXCEPT ![c].waits = TRUE]
  /\ UNCHANGED <<vars, context, within, ending, crashed>>

(* zmq_ctx_destroy has waited for the context's sockets to be closed. *)
Terminated(c) ==
  /\ InCall(c, TRUE)
  /\ \A h \in DOMAIN within : within[h] # context[c]
  /\ context' = IF calling[c].by = "~context" THEN RestrictDomain(context, LAMBDA d : d # c)
                ELSE [context EXCEPT ![c] = NoHandle]
  /\ ending' = ending \ {context[c]}
  /\ calling' = RestrictDomain(calling, LAMBDA d : d # c)
  /\ UNCHANGED <<vars, within, crashed>>

(* socket(context, type): it throws when there is no context or it is ending. *)
ConstructIn(o, t, c) ==
  /\ c \in DOMAIN context /\ context[c] \notin ending \cup {NoHandle}
  /\ Construct(o, t)
  /\ within' = [h \in DOMAIN life' |-> IF h \in DOMAIN life THEN within[h] ELSE context[c]]
  /\ UNCHANGED <<context, ending, calling, crashed>>

(* The moves, close() and the destructor of Socket. *)
SocketStep(o) ==
  /\ \/ \E q \in Objects : MoveConstruct(o, q) \/ MoveAssign(o, q)
     \/ Close(o) \/ Destroy(o)
  /\ within' = RestrictDomain(within, LAMBDA h : h \in DOMAIN life')
  /\ UNCHANGED <<context, ending, calling, crashed>>

ContextStep(c) ==
  \/ NewContext(c) \/ DropContext(c)
  \/ \E d \in Owners : MoveContext(c, d) \/ AssignContext(c, d)
  \/ \E by \in {"terminate", "~context"} : Terminate(c, by)
  \/ TerminateInterrupted(c) \/ TerminateAgain(c) \/ Terminated(c)

ContextNext ==
  \/ "contexts" \notin use /\ Next /\ UNCHANGED contextVars
  \/ /\ "contexts" \in use /\ ~crashed
     /\ \/ \E c \in Owners : ContextStep(c)
        \/ \E o \in Objects : SocketStep(o) \/ \E t \in Types, c \in Owners : ConstructIn(o, t, c)

ContextSpec == ContextInit /\ [][ContextNext]_allVars

-------------------------------------------------------------------------------
(* However contexts and sockets are moved, closed and destroyed, and        *)
(* however often signals interrupt terminate(): two objects never have the *)
(* same context, a context that sockets are open in has an object that     *)
(* ends it, one whose end began is still being ended, so that it is not    *)
(* left behind, and no destructor throws, which are all declared NOEXCEPT  *)
(* (context.cpp:25-37, context.hpp:96-128, socket.cpp:45-61).              *)
ContextsAreOwned ==
  /\ \A c, d \in DOMAIN context : context[c] = context[d] /\ context[c] # NoHandle => c = d
  /\ {within[h] : h \in DOMAIN within} \subseteq Held
  /\ ending = {context[c] : c \in DOMAIN calling}
  /\ ~crashed
===============================================================================
