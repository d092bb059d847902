# Formal models of zmqpp

zmqpp is the C++ binding of 0MQ: RAII classes for contexts and sockets, a
multipart `message`, and on top of them a `poller`, an event `loop` with timers,
a `reactor`, `actor` threads and the ZAP authenticator `auth`; a command line
client comes with it. This directory holds TLA+ models of the parts with state, the TLC configurations that check
them on small instances, and theorems about them with proofs for TLAPS.

Paths below are relative to `src/src/zmqpp/`; `main.cpp` is `src/src/client/main.cpp`. The code is modelled as it is
built for 64-bit Linux with libzmq 4, with assertions compiled out.

Contents: [1 the system](#1-the-system) · [2 modules](#2-modules) ·
[3 plain use and beyond](#3-plain-use-and-beyond-uses) · [4 runs](#4-runs) ·
[5 fairness](#5-fairness) · [6 proofs](#6-proofs) ·
[7 what the models found](#7-what-the-models-found) ·
[8 not modelled](#8-not-modelled) · [9 plan](#9-plan)

To check a run: `tlc -config MCActor.cfg MCActor`. To check the proofs: `tlapm` on
each of `PollTableProofs`, `PollerProofs`, `LoopProofs`, `ReactorProofs`, `ActorProofs`,
`SocketProofs`, `AuthProofs` and `MessageProofs`.

## 1 The system

### Components

| component | source | state | operations |
|---|---|---|---|
| poller | `poller.cpp` | `_items`, the vector given to `zmq_poll`; `_index` and `_fdindex`, from sockets and descriptors to positions in it | add, has, remove, check_for, poll, events |
| loop | `loop.cpp` | a poller, `items_`, `timers_` sorted by deadline, three lists of removals put off, `dispatching_`, `rebuild_poller_` | add and remove of sockets, descriptors and timers, reset, start |
| reactor | `reactor.cpp` | a poller, `items_`, two lists of removals put off, `dispatching_` | add, remove, check_for, poll, get_poller |
| actor | `actor.cpp` | the owner's socket, `stopped_`, `retval_`, `eptr_`, `mutex_`; a thread with its own socket | constructor, moves, stop, pipe, destructor; `start_routine` in the thread |
| socket, messages | `socket.cpp` | a socket of libzmq, `_recv_buffer` | send and receive of messages and of parts |
| auth | `auth.cpp`, `zap_request.cpp` | an actor, its poller, the lists of addresses, passwords and keys, `curve_allow_any`, `terminated` | allow, deny, configure_domain, _plain, _curve, _gssapi, set_verbose; requests of libzmq |
| message, frame | `message.cpp`, `frame.cpp` | `_parts`, `_read_cursor`; each frame a `zmq_msg_t` | add, move in, push, pop, remove, move, copy, send, receive; write and read by type; is_signal |
| byte order, signals | `inet.hpp`, `signal.hpp` | none | conversions between the host's and the network's order; the form of signals |
| socket, options | `socket.cpp`, `socket_options.hpp` | the static buffer of `get(string)` | 5 overloads of set and 5 of get, each with a list of the options it takes |
| socket, lifetime | `socket.cpp` | `_socket`, `_type` | construct, moves, close, destroy; bind, connect, monitor |
| context | `context.hpp`, `context.cpp` | `_context` | construct, moves, set, get, terminate, destroy |
| proxies | `proxy*.cpp` | none | one blocking call each |
| z85, curve | `z85.cpp`, `curve.cpp` | none | texts of keys, key pairs |
| client | `src/src/client/` | a poller of a socket and the standard input, `can_send`, `can_recv`, a message | main(): lines to messages, messages to lines |

### How they interact

- A loop and a reactor own a poller and call it. Their handlers are the user's
  and call back into the loop or reactor that called them: the object changes
  while it is being walked. Removals are therefore put off until the walk is
  over (`dispatching_`), additions are not.
- An actor is one object and two threads. They share the members of the object
  (`eptr_` under `mutex_`) and a pair of `inproc` sockets, over which the
  routine signals its start and its end and the owner `signal::stop`. The object
  may be moved, and die, while the thread runs.
- auth is an actor whose routine polls two sockets, the pipe and the one at
  `inproc://zeromq.zap.01`. The owner's thread sends a command, waits for one
  signal and returns. The routine works on members of the auth object, which its
  destructor destroys.
- A message is a vector of frames, each of which shares storage with libzmq
  by reference counts; what `send` takes, libzmq owns. `message::move` and the
  `void*` constructors hand libzmq a buffer and a release function.
- `context::terminate` waits for the sockets of the context to be closed, by the
  threads that use them, which learn of it from an exception of a call.
- The client owns a poller, whose masks it sets anew each round from `can_send` and
  `can_recv`, and reads its input through stdio, which has a buffer the poller knows
  nothing of.
- Everything blocks in libzmq, and a signal handler may interrupt any such call
  (EINTR). Each of the callers above treats this in its own way.

### What is hard, and what correctness means

- **poller**: two structures that must agree, and a removal that moves another
  item. *Every key's entry points at an item of that key, and every item is
  pointed at*; then a poller is a set of watched keys with their masks.
- **loop**: handlers that add, remove and reset while lists are walked; two
  phases (timers, then items) with several ways out, each of which has to get to
  the flush in the right state; a list that must be sorted when the wait is
  computed. *What the loop polls is what users asked for; a raised key is
  dispatched once, when it is raised for input, output or an error, and no other; no
  iterator is used after its list changed; the wait
  fits the earliest timer; a due timer fires.*
- **reactor**: the same with one phase and with polls inside handlers.
- **actor**: the race of the constructor's end, the routine's end, moves and
  the destructor. *The thread does not use a dead object; every pipe has exactly
  one owner and is freed once; the owner is told what became of the routine;
  waits end and threads end.*
- **socket**: a message of several parts is several calls, each of which may be
  refused or interrupted. *Messages come whole and in order, or not at all.* The
  types of options are written down in ten lists. *A caller reads what was asked
  for, whatever the overloads; a handle has one object that closes it.*
- **context**: a signal interrupts terminate(), sockets are in loops of receives.
  *terminate() comes back; every context has one object that ends it, and no
  destructor throws.*
- **auth**: settings given by one thread and used by another, rules that depend
  on two lists and a mechanism, a service that ends with its object. *A call that
  returned is in force; requests are answered by the documented rules; the
  routine is through with the members before they go.*
- **message**: who releases storage when parts are copied, moved, sent and
  removed. *Never while a part shows it, and once when none does.* What is written on
  one host is read on another. *By the type it was written with, a part gives
  back the value, whatever the byte orders; a signal is known as one, and
  nothing else but 8 bytes that begin like one.*
- **client**: masks that follow its state only once a round, input that is read ahead,
  sends that are refused. *It sends and receives by turns, and loses no line.*

## 2 Modules

| module | models | uses |
|---|---|---|
| `PollTable` | the value of a poller and its operations, as operators; `Sound`, `Complete` | |
| `Lists` | what is left of a vector or list after elements are erased, as operators | |
| `Poller` | a poller and a caller, one action per member function | `PollTable` |
| `WatchSet` | what a poller promises: watched keys, interest, raised events | `PollTable` (keys and answers) |
| `Client` | the command line client and its poller, its input, its socket | `Poller` |
| `Dispatcher` | what a loop and a reactor promise: the handler of each key raised for input, output or an error is called once | |
| `Loop` | the loop, its poller, its user, time | `PollTable`, `Lists` |
| `Reactor` | the reactor, its poller, its user | `PollTable`, `Lists` |
| `Actor` | owner's thread, routines' threads, objects and pipes | |
| `ActorPromise` | what an owner may be told of a routine | |
| `Transfer` | a sender and a receiver over a bounded pipe, part by part | |
| `MessageQueue` | a queue of whole messages | |
| `Socket` | socket objects and their handles, options and the overloads that set and get them | |
| `Context` | context objects, their contexts, and the sockets made in them | `Socket` |
| `Auth` | auth objects, their routines, requests | |
| `Message` | messages, frames, storage and its references, typed parts | `Encoding` |
| `Encoding` | byte order, values of each type as the bytes of a part, signals: operators | |
| `PollTableProofs` | lemmas on the poller's operators | `PollTable` |
| `PollerProofs` | theorems on the poller and the client | `Client` |
| `LoopProofs`, `ReactorProofs` | theorems on the loop and the reactor | `Loop`, `Reactor` |
| `ActorProofs` | theorems on the actor | `Actor` |
| `SocketProofs` | theorems on sockets, contexts and transfers | `Context`, `Transfer` |
| `AuthProofs`, `MessageProofs` | theorems on auth and on messages | `Auth`, `Message` |
| `MC*` | constants of the runs | |

`Loop` and `Reactor` compose with the poller by keeping a value of `PollTable`
in a variable and calling its operators, as the objects keep a `poller` and call
it; `Client` extends `Poller` and conjoins its actions with its own steps, as
`Context` does with those of `Socket`. `Poller` implements `WatchSet`, `Loop` and
`Reactor` implement `Dispatcher`, `Actor` implements `ActorPromise` and
`Transfer` implements `MessageQueue`, each by an `INSTANCE ... WITH` in the
detailed module; all but the first do so under stated conditions (section 3), so the
property there says that every *step* is a step of the abstract specification or
a stutter unless one of the named things may happen.

### PollTable, Poller, WatchSet

`_index` and `_fdindex` have disjoint keys, so one function `index` stands for
both, with 0 for no entry; positions count from 1. `SwapAndPop` is `remove` up to
the call of `reindex`, `PollerRemove` all of it, `RemoveThrows` the case in which
`reindex` throws and leaves what was done. `Raisable` is what `zmq_poll` may
report of an item, `Readiness` all that one poll may write: input, output and, of
descriptors only, errors and `poll_pri` (libzmq 4.2). In `Poller` the variable
`answer` is what the last call
returned. `UniqueSpec` is the spec with callers that add a key only when it is not
there.

### Client

`options` is chosen once: the type of socket, `--singlepart`, a terminal or a pipe for
the input, and whether signals come; the type `"none"` is no client, but anybody calling
the poller, which is what the poller's own properties are checked on. `pc` goes round
`main()`'s loop: `tune` and `tuneStdin` (the two calls of `check_for`), `poll`,
`socket`, `stdin`, `gets` (one call of `fgets`), `send`. Push stands for
publish too and pull for subscribe: `main.cpp:58-61` treats them alike, and a
publisher that never blocks sends like a push socket. A line is `"text"` or `"blank"`, and a
message the numbers of its lines. `buffered` and `taken` are stdio: how many lines it
has read from the descriptor and how many `fgets` returned; what a terminal gives it
is a line at a time, what a pipe gives is all there is. `Ready` is what
`zmq_poll` finds: the end of a terminal or a file reads as input, that of a
pipe as a hangup. `turn` is what libzmq lets a request or reply socket do next.

### Loop

`pc` follows `start()`: `flush` (the three loops of `flush_remove_later`),
`poll`, `polling` (inside `zmq_poll`), `polled`, `timers` and `inTimer`
(`start_handle_timers`, between and inside handlers), `items` and `inItem`
(`start_handle_poller`), `exiting` (the flush after the loop), `idle` and
`returned`, and `undefined` once an iterator is used that its list has
invalidated. A handler is a turn of the user: while `pc` is `inTimer` or `inItem`
the actions `AddItem`, `RemoveItem`, `AddTimer`, `ResetTimer` and `RemoveTimer`
may be taken, then it returns true or false, or throws. Whether a removal happens
at once or is put off, and whether a flush finds `dispatching_` reset, comes from
the code's guards.

Time: a timer's `when` is what is left until its deadline, and goes below zero
when it is late. `Tick` may come at any moment, in a handler or between two
statements, and lowers every `when` and the timeout of the poll; it stops when a
timer is `MaxLate` behind. `Hour` is the longest wait of `tickless()`. `SortTimers`
is `std::list::sort`, which is stable. `wanted` and `ready` are history: the keys
whose last call by the user was an add, and the keys this poll raised for input, output
or an error and no handler has had. `Dispatched` is the test of `loop.cpp:201`. As a dispatcher the loop is in phase `raised` until it starts
on the items: it may then drop the whole pass, and does when a timer's
handler removed something (`159-163`).

### Reactor

As the loop, with `stack` for polls inside handlers: a record for each `poll()`
under way, with its position and the end its range-for took. An inner `poll()` may time
out or be interrupted as the outer one may (`PollersTurn`). `BypassRemove` is
`get_poller().remove()`.

### Actor

A *pipe* is one construction: the pair of sockets, the thread, and the queues
`up` and `down` between them, each bounded by `Hwm`. An *object* is storage that an
actor is constructed in, moved into, or destroyed in; `held` is its
`parent_pipe_`. `home` is the routine's `this`, which is what `start_routine` uses,
and does not follow moves; it is `Gone` once that object's life is over, and `pc`
is `wild` when the thread uses it then. `Answer`, `Catch`, `AnswerKo`, `Unlock` and
`Close` are the steps of `start_routine` after the routine's end; the owner's
calls that wait (`constructor`, `refusing`, `stop`) are split where they wait.

### Transfer, MessageQueue

`SendRefused`, `SendInterrupted` and `SendThrows` are the error branches of
`send(message&, bool)`; `More` is the computation of `ZMQ_SNDMORE`. `Begin` and
`Listen` also start calls part by part (`send(str, flags)`, `receive(str, flags)`
and `has_more_parts()`), so that the two interfaces meet on one pipe. The way
"again" is the loop `while(!receive(msg))` of `wait()`. libzmq keeps the parts of
a message in `under` until it has the last, and asks for room in the pipe only where a
message begins (`PartGoes`); then they are on `wire` for the
receiver, a sequence of messages, each with the parts of it that are left. `signals`
says whether signals come in a behaviour.

`TerminateBegins`, `TerminateIsInterrupted`, `TerminateRepeats` and
`TerminateComesBack` are the loop of `context::terminate`, and `ctx` is where it is;
libzmq tells each socket to stop (`Stops`), its calls throw from then on, and its
thread closes it. The sockets may also be closed at any time before.

### Socket

A behaviour is about one option, any of those declared for libzmq 4.2 and later.
The sets `Unsigned`, `BooleanSet`, `IntAsBoolean`, `IntGet`, ... are the case lists
of `socket.cpp`. `SetInt`, `SetBool`, `SetUnsigned`, `SetSigned` and `SetText` are
what an overload hands to libzmq, or `Bounced`. `life` belongs to the handles: the
value libzmq has, and as history the value that was asked for and the overload it
came through. `get(string)` has two steps, into its static buffer (`GetText`) and
out of it (`CopyText`). Calls that throw and change nothing are not steps, save a
get that bounces, which `ReadsBack` is about. `GetOnly` and `SetOnly` are the options that
`socket_options.hpp` declares so.

### Context

The behaviours with `contexts` in use have sockets made in contexts (`ConstructIn`); the
others are those of `Socket`. `Terminate` enters `terminate()` from a call or from
`~context`; `calling` is whether `zmq_ctx_destroy` waits or was interrupted;
`Terminated` is its return, which libzmq lets happen once the sockets are closed.
A context object is not moved while a thread is in its `terminate()`: that is a
data race of the callers.

### Auth

One action per step of the routine (`Poll`, `Authenticate`, `HandleCommand`,
`Leave`) and of the caller (`Call`, `Returns`, ...). `Request` is what `zap_request`
makes of the frames libzmq sends, with `Z85` as an injective text of a key; `Verdict` is
`authenticate()`, in the order of its tests, with the frames of `Reply`; `Configured` is
`handle_command()`. A receive that a signal interrupts has no frames:
`CommandInterrupted` leaves the command for the next poll, and after
`AuthenticateInterrupted` the routine is `throwing`. `SendInterrupted` is a command whose
send a signal interrupts: it is lost, and the caller waits all the same. A mechanism
that `authenticate()` does not know is denied.
`given` is history: the settings of the calls that returned.

### Message

A buffer is storage given to libzmq for one part; `refs` counts the `zmq_msg_t`
that refer to it, as libzmq does, and `released` how often its release function
ran. `Closed` closes frames; `Overwritten` is what `zmq_msg_init` on a message
with content does: the reference stays. The model covers parts of every kind that
own storage; tiny parts that libzmq stores inside the `zmq_msg_t` cannot leak.

With `typed` in use parts are written by type (`Written`) and the two messages may be
in processes of different byte orders; `ReceiveRemote` then gives the receiver
storage of its own with the same bytes. In `Encoding` a value is the sequence of its
bytes, the most significant first, `Memory` is what the host makes of it, and
`SwapIfNeeded` exchanges bytes in that memory as `swap_if_needed` does in
its union. `Put` and `Get` are `operator<<` and `get` for every type; the value is kept
beside the bytes as history.

## 3 Plain use and beyond: `Uses`

Much of this library is documented for callers who do not do certain things, and
says nothing of those who do. A model therefore has a constant `Uses`, a set of
sets of names, and a variable `use` that is one of them for a whole behaviour. `{}`
is plain use; each name lets one more thing happen. A property holds of all uses
unless it says which names it excludes. An exclusion is a statement about the code
too: section 7 says what goes wrong beyond it.

| module | names |
|---|---|
| `Loop` | `restart` start() again after it returned · `selfreset` a handler resets its own timer · `readd` a key is added again while it is watched or its removal is pending · `grow` a socket's handler adds a socket · `throw` handlers throw |
| `Reactor` | `readd` as in `Loop` · `grow` · `throw` · `nest` a handler polls · `bypass` a removal by way of get_poller() |
| `Actor` | `late` the routine throws after its start signal · `ownko` it sends ko itself · `mute` it returns true without a signal · `assign`, `self` move assignment onto an actor with a pipe, or onto itself · `exhausted` no thread can be created · `flood` the owner fills the pipe · `signals` EINTR |
| `Socket`, `Context` | `assign` move assignment of sockets · `threads` two threads in get(string) at once · `contexts` contexts too, for one option |
| `Auth` | `eintr` a signal in the service's poll or receive, or in the send of a command · `again` a second password for a user |
| `Message` | `pop` a part removed in front of others · `onto` copy() onto a message with parts · `shrink` a part removed that was read · `past` reading past the end · `typed` parts written by type, two byte orders |

`Poller` has the same with two specifications: `Spec` for all callers and
`UniqueSpec` for those that add a key only when it is not there, `Client` has
`options`, and `Transfer` has `signals`: a signal at a later part, or in terminate(). `typed` and `contexts` are no rough use: they keep what is
independent apart, so that the runs stay small.

## 4 Runs

| run | configuration | instance | shows |
|---|---|---|---|
| `client` | `MCClient.cfg` | 2 sockets, 1 descriptor, masks {} and {in}; a client of each type with 3 lines and 2 messages waiting | `IndexSound` an entry points at an item of its key; `IndexComplete` every item has its entry; `ImplementsWatchSet` the poller is a set of watched keys, also in the client's hands; `KeepsItsTurns` it reads, sends and receives only in turn; `LosesNoLine` the lines read are split among the messages, each once and in order; `ReadsOn` under fairness lines of a terminal are read |
| `loop_items` | `MCLoop_items.cfg` | 2 sockets, 1 descriptor, mask {in, pri}, 1 timer, at most 2 calls in a handler; restart / restart, throw and grow | `NothingUndefined` no list changes under its iterator; `HonoursCallers` at the poll the watched keys, each with its handler, are those the users asked for; `PollerStaysSound`; `DispatchStartsClean` no removal of a timer's handler is pending when the items' turn comes; `ImplementsDispatcher` the handler of each key raised for input, output or an error is called once, and of no other |
| `loop_timers` | `MCLoop_timers.cfg` | 2 timers, delays 0 and 1, repeated once or for ever, 1 socket; plain / selfreset | `WakesForEarliest` a wait is no longer than to the earliest deadline, and not negative; `NoFurtherThanDelay`; `DueTimersFire` under fairness |
| `reactor` | `MCReactor.cfg` | 1 socket, 1 descriptor, masks {in} and {pri}, polls 2 deep; plain / grow and nest / readd / throw and bypass | `PollerStaysSound`, `HonoursCallers`, `NothingUndefined`, `ImplementsDispatcher`, as for the loop |
| `actor` | `MCActor.cfg` | 2 objects, 2 constructions, 1 message per direction; three sets of uses | `NoThreadGoesWild` no routine's thread uses an object that is gone; `PipesAreOwned` an owner's end is held, by one object, or closed; `StopRemembers` a later stop() says what the first did; `KeepsPromise` owners are told what `ActorPromise` allows |
| `actor_live` | `MCActor_live.cfg` | 2 objects, 1 construction, 3 messages; plain | `WaitsEnd` constructor, stop and destructor return; `ThreadsEnd` |
| `transfer` | `MCTransfer.cfg` | messages of 1 and of 3 parts, a pipe of 2; without / with signals | `NeverStarves` the later parts are there when the first is; `DeliversWholeUninterrupted` each step is one of `MessageQueue`; `TerminateReturns` under fairness |
| `transfer_interrupted` | `MCTransfer_interrupted.cfg` | the same, a pipe of 1 | **violates** `DeliversWhole` (section 7) |
| `socket` | `MCContext.cfg` | 2 objects, 2 handles, 2 types, every option, ints -1..2, uint64_t of 2 bits, texts with and without NUL and too long; 2 context objects and 2 contexts; plain / assign and threads / assign and contexts | `HandlesAreOwned`; `GetsWhatWasSet`; `ReadsBack` an option that is set, or read, is not declared otherwise, save `backlog` and `xpub_verboser`, and one that the overload which set it does not read is declared set only; `ContextsAreOwned` every context has one object that ends it, and no destructor throws |
| `auth` | `MCAuth.cfg` | 1 object, 2 addresses, 1 user with 2 passwords, 1 known key, 6 requests over all mechanisms; plain / eintr / again | `InForce` a call that returned is in force; `AnswersAsDocumented` |
| `auth_objects` | `MCAuth_objects.cfg` | 2 objects, 1 address; plain | `MembersOutliveUse` the routine is through with the members when they go, and the name of the service is free; `ServiceAnswers` under fairness |
| `message` | `MCMessage.cfg` | 2 messages, 3 buffers; plain / all four / typed, with 2 parts of 8 values on hosts of 2 byte orders | `NotReleasedInUse`; `ReleasedUnlessOverwritten`; `RemainingCounts` remaining() does not wrap; `ReadsWhatWasWritten` a part gives back the value written; `SignalsAreSignals` is_signal() is true of what was written as a signal, and else only of a single part with a signal's size and magic number |

Why the bounds are enough. A poller's `remove` involves three items: the one
removed, the last, and one besides, hence three keys. A walk over a list can go
wrong at the element it stands on, one before and one after: a list of two and a
handler that makes two calls has all combinations, and a third key is there for a
second removal in the loop. The use `readd` of the loop has too many states for a run;
the reactor's run has it, and `LoopPollerSound` and `LoopHonoursCallers` hold of it. One mask is enough in the loop, since a descriptor
polled for {in, pri} may be raised for either, both or an error. Two timers can be in either order, a delay of zero is due
again at once, and `MaxLate` of 1 already has timers that are late when others are
due. The races of an actor involve one construction and two objects between which
it moves; the second construction is there for an assignment onto an actor that has one,
and for an object used again. A message of three parts has a first, a middle and a
last part, and one of one part is first and last at once; two of them on
the wire show where one ends. Options differ by the lists they are in, so the run
has them all; -1 and 2 are the ints that are no boolean, and -1 the one that is no unsigned
number. A request is judged by two lists, with a second address for one
that is in neither. A client's message has a first and a
later line and a blank one ends it: three lines, and two messages so that one waits while
another is answered. Numbers of every width are written by values whose bytes all differ, so that any exchange of
two of them shows; an `int64_t` with the magic number of signals is among the values. Storage is released by the last of several references: two
messages, one of them a copy, and libzmq's queue.

Runs whose specification lets the system stop (a loop that returned, all actors
gone, bounds on calls reached) set `CHECK_DEADLOCK FALSE`. Liveness is checked without
symmetry.

## 5 Fairness

Fairness is asked only of a thread that is inside the library and of libzmq, and
never of a user's decision to call.

- `loop_timers`: the thread in `start()` proceeds, a poll whose time is over
  returns, and handlers return. Time itself is under no fairness: the property is about
  timers that are due.
- `actor_live`: a waiting owner goes on when its signal is there; the routine's
  thread goes on after the routine's end; a routine sends its start signal or
  ends, reads what it is sent, and ends once it has read `signal::stop`, which is what
  actor.hpp asks of it. Nobody has to stop an actor: the property is about calls
  that are made, and threads whose owner is gone.
- `transfer`: libzmq delivers the order to stop to each socket and
  `terminate()` repeats its call. A thread that a call threw out of, or that finds
  the context ended between two calls, closes its socket: that is what RAII does
  on the way out, and what context.hpp:91-96 asks of everyone.
- `client`: `main()` runs, and libzmq takes a message sooner or later: a send that
  blocks for ever is a network without a peer. Nothing is asked of whoever types.
- `auth_objects`: both threads run, as both are in loops of the library.

## 6 Proofs

Every invariant and every property of steps that a run checks is also a theorem:
for every set of sockets, descriptors, timers, objects, pipes, messages, and every
bound. The theorems are about the specifications that the runs check, all uses
included.

| theorem | of | says |
|---|---|---|
| `PollerIndexSound` | `Spec` | `[](TypeOK /\ IndexSound)`, for any callers at all |
| `PollerIndexExact` | `UniqueSpec` | `[](IndexComplete /\ ReindexNeverThrows)` |
| `PollerImplementsWatchSet` | `UniqueSpec` | every step of a poller is one of `WatchSet` |
| `ClientPollsAWatchSet` | `ClientSpec` | ... in the client's hands too |
| `ClientKeepsItsTurns`, `ClientLosesNoLine` | `ClientSpec` | `[]KeepsItsTurns`, `[]LosesNoLine` |
| `LoopDispatchStartsClean`, `LoopNothingUndefined`, `LoopPollerSound` | `Loop` | `DispatchStartsClean`, `[]NothingUndefined`, `[]PollerStaysSound` |
| `LoopHonoursCallers`, `LoopImplementsDispatcher` | `Loop` | `[]HonoursCallers`; every step of a loop is one of `Dispatcher` |
| `LoopWakesForEarliest`, `LoopNoFurtherThanDelay` | `Loop` | `[]WakesForEarliest`, `[]NoFurtherThanDelay` |
| `ReactorPollerStaysSound`, `ReactorNothingUndefined`, `ReactorHonoursCallers`, `ReactorImplementsDispatcher` | `Reactor` | the same four of a reactor |
| `ActorPipesAreOwned`, `ActorStopRemembers`, `ActorNoThreadGoesWild` | `Actor` | `[]PipesAreOwned`, `[]StopRemembers`, `[]NoThreadGoesWild` |
| `ActorKeepsPromise` | `Actor` | every step of the actors is one of `ActorPromise` |
| `SocketHandlesAreOwned`, `SocketGetsWhatWasSet`, `SocketReadsBack`, `ContextContextsAreOwned` | `ContextSpec` | `[]HandlesAreOwned`, `[]GetsWhatWasSet`, `[]ReadsBack`, `[]ContextsAreOwned` |
| `SocketNeverStarves`, `SocketDeliversWhole` | `TransferSpec` | `[]NeverStarves`; without signals every step of a transfer is one of `MessageQueue` |
| `AuthInForce`, `AuthMembersOutliveUse`, `AuthAnswersAsDocumented` | `Auth` | `[]InForce`, `[]MembersOutliveUse`, `AnswersAsDocumented` |
| `MessageReadsWhatWasWritten`, `MessageSignalsAreSignals`, `MessageRemainingCounts` | `Message` | `[]ReadsWhatWasWritten`, `[]SignalsAreSignals`, `[]RemainingCounts` |
| `MessageNotReleasedInUse`, `MessageReleasedUnlessOverwritten` | `Message` | `[]NotReleasedInUse`, `[]ReleasedUnlessOverwritten` |

Assumed of the constants, each in the module that declares them: sockets and
descriptors are different keys and masks are sets of flags (`KeysDisjoint`,
`MasksAreFlags`); bounds are numbers (`MaxItemsIsNat`, `BoundsAreNat`, `ReactorBounds`,
`MessageBounds`) and so are delays (`TimesAreNat`); a pipe holds a message and
a message has a part (`HwmAssumption`, `TransferAssumption`); the values that stand
for nothing are none of the things (`NoTimerIsNot`, `SentinelsAssumption`,
`HandleAssumption`, `ContextAssumption`, `AuthAssumption`, `EmptyAssumption`); numbers
are below 2^64 (`SocketAssumption`); the client's two keys are keys of the poller
(`ClientAssumption`); requests come from addresses (`RequestAssumption`); a value of a
type has as many bytes as the type (`ValuesAreTyped`).

None of the properties is inductive. The invariants that are, and what they add:

**Poller.** `PollTableProofs` has one lemma per operation: it keeps the type of a
poller and `Sound` (`AddWellFormed`, `RemoveWellFormed`, ...), and what it does to
the keys, masks and events (`AddMaps`, `RemoveMaps`, ...). `Sound` is not inductive
for `remove` by itself, which passes through a state in which the moved item's entry
is beyond the end; `SwapAndPopShape` says what the vector looks like there, and
`RemoveWellFormed` puts `reindex` on top. `IndexComplete` needs callers that add a key
once, and together with `Sound` says that items and entries are in bijection; from
that the refinement of `WatchSet` follows step by step (`StepImplements`), with the
poller's items read as a function from keys. The theorems on other components use the
lemmas of `PollTableProofs`, not those of `Poller`.

**Client.** `ClientIsCaller`: each call of the client is one that `UniqueSpec` allows, as
`Given` says which keys it has added at each `pc`; so the poller's theorems are the
client's. The turns need `Tuned` (the masks follow the switches from `tune` on),
`Heeded` (so what a poll raised is something the switches allowed) and `Turns`
(a request or reply client enables one of the two, and before the poll the socket
can do what is enabled). `LosesNoLine` needs `Carried`, the same statement for the
message that is being put together, and `Stays`, by which a client that only sends does
not leave a terminal before its end.

**Loop.** `DispatchStartsClean` needs `PendingShows`: from the flush to the items'
turn, a pending removal is visible as `rebuild_poller_`, which is what makes the loop
skip the items. `NothingUndefined` needs `DispatchingKnown`: `dispatching_` is
set exactly while `start()` is in one of the two handler phases, so that no removal
is made at once there and the flush finds it reset; it is an invariant of uses
without `throw` and `grow`, and `Calm` carries that along. `PollerStaysSound`
needs the types of what the flush hands to the poller (`PollerInv`). `HonoursCallers`
needs `Agreeing`: items and poller have the same keys, each once, and these are the
wanted ones and those whose removal the flush has not come to (`Left`); and `Waiting`:
nothing waits where a poll begins. The refinement of `Dispatcher` adds `Raised`: what
the poll raised and no handler has had is what the range-for has ahead of it. Of time:
the list has each timer once and the iterator is in it (`TimersKept`), is sorted except
while timers are fired (`InOrder`), what is left of the wait is no longer than to any
deadline (`Waking`), and a timer whose handler runs was due (`Late`). The lemmas on
`std::list::sort` and on erasing say that the timers are rearranged, or cut, and no
other is in the list (`Rearranged`, `Cut`).

**Reactor.** As the loop, with `Alone` (one poll at a time, and its handlers find
`dispatching_` set) and `Within` (the end that each range-for took is in the items).

**Actor.** `Facts`, in seven parts: types; a live object's pipe is its own and open
(`Owning`; `Kept` for the converse); what a thread's place says of its routine
(`Threads`); a thread's `this` is a live object and no other thread's (`Homes`); a
signal under way is the answer of the routine's end, or its start signal, which comes
first (`Signals`); what the owner was told agrees with `stopped_` and `retval_`
(`Told`); while a routine has not signalled, the constructor of its object waits, holds
it alive, and no other thread has its mutex (`Awaited`). The last is what keeps a thread
from using a dead object, unless the routine throws late. The refinement of
`ActorPromise` adds what the plain use says of the first signal and of `eptr_`
(`PlainStart`).

**Socket, Context.** `Owned` is about handles and objects in both directions;
`Readable` says that a handle's value is what was asked, by an overload that takes the
option, and what the static buffer holds between the two steps of `get(string)`. The case
lists are compared in the proof of each overload. `Ended` does the same for contexts as
`Owned` for handles, with the objects in a `terminate()`.

**Transfer.** `Flagged`: each message on the wire is closed by its last part and by no
other, and libzmq's unfinished one by none: that alone makes receivers find the rest of a
message, signals or not. Without signals `Unmixed` says more: the parts under way
are the first parts of the message being sent, what is on the wire are whole messages but for
the one being received, and that one is what the receiver has and its rest. The
mapping to `MessageQueue` reads the wire by the first parts of its messages.

**Auth.** For each object, `Named`: who serves has the name of the service and is the
one that takes requests. `Balance` counts: the signals under way, those that commands
in the pipe will cause and those the routine will still send are no more than the
caller waits for. `Pending`: the command in the pipe, if it got there, is the one that was asked last.
`Steady`: without signals the routine serves from the constructor's return to the
destructor. `InPlace`: its lists are those of the calls that returned, with the command it
has answered and the caller has not seen. `AuthAnswersAsDocumented` is about steps; it uses that the
lists are those and compares `authenticate()` with the rules, test by test.

**Message.** `WrittenInv`: the bytes of a buffer, wherever it went, are those of
its value in network order, from which `Get` takes it back by the laws of `SwapIfNeeded`.
`CursorInv` bounds the cursors. `Accounted` counts: libzmq's `refs` of a buffer
is the number of frames, in messages and in its queue, that hold it, or more when frames
were overwritten; it is released when the count comes to 0, once. The counting of
frames over all messages is by cardinalities of sets of positions, with a lemma for
each way that a message changes.

**What is only model-checked.** Liveness, as the prover has no rules for fairness and
`ENABLED`: `ReadsOn`, `DueTimersFire`, `WaitsEnd`, `ThreadsEnd`, `TerminateReturns` and
`ServiceAnswers`. `DeliversWhole` is no theorem: the code violates it (section 7).

## 7 What the models found

**`socket::send` skips a part** (run `transfer_interrupted`). When a signal
interrupts a later part of a message, `continue` (`socket.cpp:191`) goes on with
the part after it. The comment above says that the rest can be sent safely; the part
that was refused is never sent again. The message arrives without it; if
it was the last, the message stays open and the next one is glued to it.

The rest was found while writing the models. Each is in a model; the property that would
break excludes it, by the name of a use or in its own words, and there is no run of its own.

- *poll_pri.* A descriptor may be polled for `poll_pri` (poller.hpp:48-50, libzmq 4.2 and
  later), and `zmq_poll` may raise it for that alone. The loop (`loop.cpp:201`) and the reactor
  (`reactor.cpp:120`) call a handler for input, output and errors only: the poll returns, no
  handler is called, and as nobody reads the data the next poll returns at once. loop.hpp:66
  and reactor.hpp:59 promise "a handler that will be called when the monitored events
  occur". `ImplementsDispatcher` therefore promises handlers for those three events only.
- *declarations.* socket_options.hpp:41 has `backlog` as "get only", and set(int) takes it
  (`socket.cpp:474`); socket_options.hpp:130 has `xpub_verboser` as "set only", and
  get(bool) asks libzmq for it (`socket.cpp:776`). `ReadsBack` says that these are the only two.
- *poller.* A key added twice has two items and one entry: `remove` leaves an item
  that is still polled (`poller.cpp:53-62`, `123-142`; poller.hpp:117 says
  "Stop monitoring"), and a later removal may throw out of `reindex`.
- *loop.* A handler that returns false leaves the timers unsorted, and a `start()`
  after that computes its wait from the wrong one (`loop.cpp:186-187`, `223`). A timer
  that its handler resets has its delay added twice (`183`). A timer created at
  the address of one that was removed in the same pass is removed by the flush
  (`97`, `214`), and so is a key that a handler removed and added again (`208-213`). A key added
  twice keeps an item when it is removed, as the poller's. A socket that another
  socket's handler removed is still called in that pass (`107-112`, `197-204`;
  loop.hpp:98). A handler's exception leaves `dispatching_` set: the flush of the next
  `start()` appends to the list it walks. A socket's handler that adds a socket may move
  the vector the range-for walks.
- *reactor.* The same exception, re-adding and adding as in the loop
  (`reactor.cpp:115-123`, `150-158`, `34-51`). A poll inside a handler flushes
  under the outer walk. `get_poller().remove()` leaves a handler whose key
  `has_input()` throws for.
- *actor.* A routine that throws after its start signal stores the exception in an
  object that may be gone (`actor.cpp:129-130`; actor.hpp:122-126). Assigning to an
  actor that has a pipe loses the pipe and its thread (`78-86`; actor.hpp:141-142). When
  no thread can be created the sockets stay open (`45`). A full pipe drops
  `signal::stop` (`99`), and `stop(true)` waits for good; so it does when a signal
  interrupts the routine's answer (`122-125`). A routine that sends ko itself and
  returns false, as `auth.cpp:48` and test_actor.cpp:147 do, may wait for its
  owner's end, which is closed (`51-53`, `125`).
- *auth.* A signal in the service's poll ends it (`auth.cpp:57`), and the answer of
  its end passes for that of the next command; the call after that waits for good. A
  signal in the receive of a request does the same: the reply "500" (`314-317`)
  goes out on a socket that received nothing, libzmq refuses it, the exception ends
  the routine with ko, and no caller looks at which signal it gets. A command whose send is
  interrupted is lost (`84` and its like), and the caller waits for an answer to it. A
  second password for a user is ignored (`204`). The domain is stored and never read.
- *message.* `pop_front`, `remove` and `copy` onto parts overwrite frames
  without closing them (`frame.cpp:82-89`, `message.cpp:418-431`, `461`): their
  storage is never released, and message.hpp:49 promises the release function
  is called on every moved part. Reading past the end moves the cursor, after which
  `remaining()` wraps (message.hpp:256, 351).
- *client.* A client of a request or reply socket leaves right after the first message it
  receives: the test in `main.cpp:286` sees the switches that were just flipped
  (`198-199`), when input was not polled for, though `153` says "socket will
  flip between send/recv.". Lines that stdio has read from a pipe beyond the
  message's end wake nobody (`220`), and are lost when the client leaves at the
  hangup. A send that a signal interrupts drops its message and flips the switches
  (`263-276`), and an interrupted receive is taken for a message (`186`). While a reply
  client waits for a request, a pipe that was closed makes its poll return at once for
  ever. (Not in the model: a last line without a newline loses its last character, `231`.)
- *socket.* `get(string)` copies by way of a buffer that all threads share
  (`socket.cpp:845`). Text options other than the identity are cut at a NUL
  (`877`). Six declared options are taken by no overload (socket_options.hpp:101-106),
  `xpub_welcome_message` can be set only and does not say so, and 64-bit options
  can be set with an int but not read with one. `operator=` clones the type of the
  source while it exchanges the handles (`900-902`).

## 8 Not modelled

- bind, connect, monitor, join and leave of a socket: one call of libzmq each, with an
  exception on failure; what they do is libzmq's.
- `_recv_buffer` in the moves of a socket: nothing reads it after the call that filled it.
- A context's `set()` and `get()`: one call of libzmq each.
- `z85::decode` and `curve`: one call of libzmq each. `byte_ordering.hpp` is used only for
  the metadata of a ZAP reply, which every caller leaves empty.
- Verbose output, the printing of signals, a frame's `_sent` flag, which nothing reads.
- `actor::bind_parent`, which retries without end on any error of bind.
- The parsing of the client's options, and what it prints.
- Proxies, version queries and exception types.
- The loop's wait in milliseconds: time is in whole units, so that what `tickless()` cuts off
  (`loop.cpp:225`), after which the loop polls once more, is not seen.
- The lifetime of the caller's own objects, whose addresses `loop` and
  `reactor` keep until a flush.
- Memory exhaustion, except where libzmq reports it through a call.
- libzmq itself. The modules state what they assume of it where they use it: a pipe
  shows whole messages, bounds their number, `zmq_poll` reports events that
  were asked for, sockets are told of the end of their context, references are counted.

## 9 Plan

Done: the inventory, models and runs of every component with state, also of the
client, the contexts and the encodings; abstract specifications of the poller, the
dispatchers, the actor and the pipe; theorems for every invariant and every property of
steps that the runs check. Left, in this order:

1. Theorems for uses that are excluded today and need not be: which of the
   exclusions in `Orderly` and `PlainUse` an invariant with more parts could do without.
2. The safety halves of the liveness properties: that a due timer is never
   passed over by a pass that comes to an end, that an owner which waits has a thread
   that still owes it a signal.
3. A common invariant of `Loop` and `Reactor`, whose `Agreeing` and `Waiting` are alike,
   stated once about a dispatcher's items, poller and pending removals.
