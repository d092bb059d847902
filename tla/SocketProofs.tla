------------------------------ MODULE SocketProofs -----------------------------
(***************************************************************************)
(* Theorems about zmqpp::socket and zmqpp::context: for every number of    *)
(* objects, handles and contexts, every option and every value (Context),  *)
(* and for messages between two sockets, of any number and size, through a *)
(* pipe of any capacity (Transfer).                                        *)
(***************************************************************************)
EXTENDS Context, Transfer, SequenceTheorems, TLAPS

-------------------------------------------------------------------------------
(* The behaviours of sockets in contexts are behaviours of sockets.        *)

(* A step of contexts makes no step of sockets, or one that Socket has. *)
LEMMA ContextStepsAreSockets == [ContextNext]_allVars => [Next]_vars
<1> SUFFICES ASSUME ContextNext \/ UNCHANGED allVars PROVE Next \/ UNCHANGED vars
  BY DEF allVars
<1>1. ASSUME NEW c \in Owners, ContextStep(c)  PROVE UNCHANGED vars
  BY <1>1 DEF ContextStep, NewContext, DropContext, MoveContext, AssignContext, Terminate,
              TerminateInterrupted, TerminateAgain, Terminated
<1>2. ASSUME NEW o \in Objects, SocketStep(o)  PROVE Next
  BY <1>2 DEF SocketStep, Next
<1>3. ASSUME NEW o \in Objects, NEW t \in Types, NEW c \in Owners, ConstructIn(o, t, c)  PROVE Next
  BY <1>3 DEF ConstructIn, Next
<1> QED
  BY <1>1, <1>2, <1>3 DEF ContextNext, allVars

-------------------------------------------------------------------------------
(* Who owns a handle. *)

Numbers == {Number(n) : n \in Int}
Values == {Default} \cup Numbers \cup {Text(t) : t \in Texts}
Overloads == {"int", "bool", "uint64", "int64", "string"}
Lives == [type : Types, value : Values, asked : Values, by : Overloads \cup {"none"}]

SocketTyped ==
  /\ handle \in [DOMAIN handle -> Handles \cup {NoHandle}] /\ Alive \subseteq Objects
  /\ type \in [Alive -> Types]
  /\ DOMAIN life \subseteq Handles
  /\ life \in [DOMAIN life -> Lives]
  /\ reading \subseteq {o \in Alive : handle[o] # NoHandle}

Owned ==
  /\ \A o \in Alive : handle[o] # NoHandle => handle[o] \in DOMAIN life
  /\ \A h \in DOMAIN life : \E o \in Alive : handle[o] = h
  /\ \A o, q \in Alive : handle[o] = handle[q] /\ handle[o] # NoHandle => o = q
  /\ "assign" \notin use => \A o \in Alive : handle[o] # NoHandle => life[handle[o]].type = type[o]

(* Before the first socket there is nothing to own. *)
LEMMA OwnedInit == Init => SocketTyped /\ Owned
BY DEF Init, SocketTyped, Owned, Alive

(* What a set that is not refused passes on: the number or text that was    *)
(* asked for, of an option that the overload takes.                        *)
IntSet ==
  IntAsUnsigned \cup IntAsSigned \cup IntAsBoolean \cup {"tcp_keepalive"} \cup IntNotNegative
    \cup IntAny

SettableBy(by) ==
  CASE by = "int" -> IntSet
    [] by = "bool" -> BooleanSet
    [] by = "uint64" -> Unsigned
    [] by = "int64" -> Signed
    [] by = "string" -> TextSet

PassedOn(by, asked, passed) ==
  passed # Bounced =>
    /\ passed = asked /\ option \in SettableBy(by)
    /\ option \in BooleanGet => passed \in {Number(0), Number(1)}

(* The cast to uint64_t keeps a number that is not negative. *)
LEMMA RemainderOfSmall == \A n \in Int : 0 <= n /\ n < TwoTo64 => n % TwoTo64 = n
BY SocketAssumption

(* get(bool) takes nothing that a number other than 0 and 1 is passed to. *)
LEMMA BooleansAreNotNumbers ==
  option \in BooleanGet =>
    option \notin Unsigned \cup Signed \cup TextSet \cup {"tcp_keepalive"} \cup IntNotNegative \cup IntAny
BY DEF BooleanGet, Unsigned, Signed, TextSet, IntNotNegative, IntAny

(* No option is in two of the case lists of set(int). *)
LEMMA ListsAreDisjoint ==
  /\ option \in IntAsUnsigned => option \notin IntAsSigned \cup IntAsBoolean
  /\ option \in IntAsSigned => option \notin IntAsBoolean
  /\ option \in IntAsUnsigned \cup IntAsSigned \cup IntAsBoolean =>
       option \notin {"tcp_keepalive"} \cup IntNotNegative \cup IntAny
BY DEF IntAsUnsigned, IntAsSigned, IntAsBoolean, IntNotNegative, IntAny

(* set(option, int) passes on the number, whichever list the option is in. *)
LEMMA SetIntPasses == \A n \in Ints : PassedOn("int", Number(n), SetInt(n))
<1> SUFFICES ASSUME NEW n \in Ints, SetInt(n) # Bounced
             PROVE  /\ SetInt(n) = Number(n) /\ option \in IntSet
                    /\ option \in BooleanGet => SetInt(n) \in {Number(0), Number(1)}
  BY DEF PassedOn, SettableBy
<1>0. n \in Int /\ n < TwoTo64 /\ TwoTo64 \in Nat \ {0}
  BY SocketAssumption
<1>1. CASE option \in IntAsUnsigned
  <2>1. SetInt(n) = Number(n) /\ n >= 0
    BY <1>0, <1>1, ListsAreDisjoint, RemainderOfSmall DEF SetInt, SetUnsigned, Unless, IntAsUnsigned, Unsigned
  <2> QED
    BY <1>1, <2>1, BooleansAreNotNumbers DEF IntSet, IntAsUnsigned, Unsigned
<1>2. CASE option \in IntAsSigned /\ option \notin IntAsUnsigned
  BY <1>2, ListsAreDisjoint, BooleansAreNotNumbers DEF SetInt, SetSigned, Unless, IntSet, IntAsSigned, Signed
<1>3. CASE option \in IntAsBoolean /\ option \notin IntAsSigned \cup IntAsUnsigned
  BY <1>3, ListsAreDisjoint DEF SetInt, SetBool, Unless, IntSet
<1>4. CASE option \notin IntAsBoolean \cup IntAsSigned \cup IntAsUnsigned
  <2>1. SetInt(n) = Number(n) /\ option \in {"tcp_keepalive"} \cup IntNotNegative \cup IntAny
    BY <1>4 DEF SetInt, Unless
  <2> QED
    BY <2>1, BooleansAreNotNumbers DEF IntSet
<1> QED
  BY <1>1, <1>2, <1>3, <1>4

(* Each set is one that passes on what was asked. *)
LEMMA SetsKnown ==
  ASSUME NEW o, SetOf(o)
  PROVE  \E by \in Overloads, asked \in Values : \E passed :
           PassedOn(by, asked, passed) /\ Set(o, by, asked, passed)
<1> USE DEF Overloads, Values, Numbers, PassedOn, SettableBy
<1>1. CASE \E n \in Ints : Set(o, "int", Number(n), SetInt(n))
  BY <1>1, SetIntPasses, SocketAssumption
<1>2. CASE \E n \in Ints : Set(o, "int64", Number(n), SetSigned(n))
  BY <1>2, SocketAssumption, BooleansAreNotNumbers DEF SetSigned, Unless
<1>3. CASE \E n \in {0, 1} : Set(o, "bool", Number(n), SetBool(n))
  BY <1>3 DEF SetBool, Unless
<1>4. CASE \E n \in 0..TwoTo64 - 1 : Set(o, "uint64", Number(n), SetUnsigned(n))
  BY <1>4, SocketAssumption, BooleansAreNotNumbers DEF SetUnsigned, Unless
<1>5. CASE \E t \in Texts : Set(o, "string", Text(t), SetText(t))
  BY <1>5, BooleansAreNotNumbers DEF SetText, Unless
<1> QED
  BY <1>1, <1>2, <1>3, <1>4, <1>5 DEF SetOf

(* What the options' operations leave alone. *)
LEMMA OptionsKeep ==
  ASSUME SocketTyped, NEW o \in Objects,
         \/ SetOf(o) \/ \E by \in DOMAIN Gettable : GetBounces(o, by) \/ Get(o, by)
         \/ GetText(o) \/ CopyText(o)
  PROVE  /\ UNCHANGED <<use, option, handle, type>>
         /\ DOMAIN life' = DOMAIN life /\ life' \in [DOMAIN life' -> Lives]
         /\ \A h \in DOMAIN life : life'[h].type = life[h].type
         /\ reading' \subseteq reading \cup {r \in {o} : o \in Alive /\ handle[o] # NoHandle}
<1> USE DEF objectVars
<1>1. ASSUME NEW by \in Overloads, NEW asked \in Values, NEW passed, PassedOn(by, asked, passed),
             Set(o, by, asked, passed)
      PROVE  /\ UNCHANGED <<use, option, handle, type, reading>>
             /\ DOMAIN life' = DOMAIN life /\ life' \in [DOMAIN life' -> Lives]
             /\ \A h \in DOMAIN life : life'[h].type = life[h].type
  <2>1. /\ UNCHANGED <<use, option, handle, type, reading>> /\ passed \in Values
        /\ life' = [life EXCEPT ![handle[o]].value = passed, ![handle[o]].asked = asked,
                              ![handle[o]].by = by]
    BY <1>1 DEF Set, PassedOn
  <2>2. ASSUME NEW h \in DOMAIN life  PROVE life'[h] \in Lives /\ life'[h].type = life[h].type
    BY <2>1 DEF SocketTyped, Lives
  <2> QED
    BY <2>1, <2>2 DEF SocketTyped
<1>2. CASE SetOf(o)
  <2>1. PICK by \in Overloads, asked \in Values : \E passed :
          PassedOn(by, asked, passed) /\ Set(o, by, asked, passed)
    BY <1>2, SetsKnown
  <2> QED
    BY <1>1, <2>1
<1>3. CASE \E by \in DOMAIN Gettable : GetBounces(o, by) \/ Get(o, by)
  BY <1>3 DEF GetBounces, Get, SocketTyped
<1>4. CASE GetText(o) \/ CopyText(o)
  BY <1>4 DEF GetText, CopyText, SocketTyped, Idle
<1> QED
  BY <1>2, <1>3, <1>4

(* Every step keeps the handles owned. *)
LEMMA OwnedNext == SocketTyped /\ Owned /\ [Next]_vars => SocketTyped' /\ Owned'
<1> SUFFICES ASSUME SocketTyped, Owned, [Next]_vars PROVE SocketTyped' /\ Owned'
  OBVIOUS
<1> DEFINE Goal == SocketTyped' /\ Owned'
<1> USE DEF objectVars, SocketTyped, Alive
<1>1. ASSUME NEW o \in Objects, NEW t \in Types, Construct(o, t)  PROVE Goal
  <2>1. PICK h \in Handles \ DOMAIN life :
          /\ handle' = With(handle, o, h) /\ type' = With(type, o, t)
          /\ life' = With(life, h, [type |-> t, value |-> Default, asked |-> Default, by |-> "none"])
    BY <1>1 DEF Construct
  <2>2. h # NoHandle /\ o \notin Alive /\ UNCHANGED <<use, reading>>
    BY <1>1, HandleAssumption DEF Construct
  <2>3. [type |-> t, value |-> Default, asked |-> Default, by |-> "none"] \in Lives
    BY DEF Lives, Values
  <2>6. SocketTyped'
    BY <2>1, <2>2, <2>3 DEF With
  <2>4. \A p \in Alive : handle'[p] = handle[p] /\ handle[p] # h
    BY <2>1, <2>2 DEF With, Owned
  <2>5. handle'[o] = h /\ life'[h].type = t /\ type'[o] = t
    BY <2>1, <2>2 DEF With
  <2> QED
    BY <2>1, <2>2, <2>4, <2>5, <2>6 DEF With, Owned
<1>2. ASSUME NEW o \in Objects, NEW q \in Objects, MoveConstruct(o, q)  PROVE Goal
  <2>1. /\ o \notin Alive /\ q \in Alive \ reading
        /\ handle' = [With(handle, o, handle[q]) EXCEPT ![q] = NoHandle]
        /\ type' = With(type, o, type[q]) /\ UNCHANGED <<use, life, reading>>
    BY <1>2 DEF MoveConstruct, Taken, Idle
  <2>2. /\ DOMAIN handle' = Alive \cup {o} /\ handle'[o] = handle[q] /\ handle'[q] = NoHandle
        /\ \A p \in Alive \ {q} : handle'[p] = handle[p]
        /\ DOMAIN type' = Alive \cup {o} /\ type'[o] = type[q] /\ \A p \in Alive : type'[p] = type[p]
    BY <2>1 DEF With
  <2>3. SocketTyped'
    BY <2>1, <2>2 DEF With
  <2> QED
    BY <2>1, <2>2, <2>3 DEF Owned
<1>3. ASSUME NEW o \in Objects, NEW q \in Objects, MoveAssign(o, q)  PROVE Goal
  <2>1. /\ {o, q} \subseteq Alive \ reading /\ o # q /\ "assign" \in use
        /\ handle' = [handle EXCEPT ![o] = handle[q], ![q] = handle[o]]
        /\ type' = [type EXCEPT ![o] = type[q]] /\ UNCHANGED <<use, life, reading>>
    BY <1>3 DEF MoveAssign, Idle
  <2>2. SocketTyped'
    BY <2>1
  <2> QED
    BY <2>1, <2>2 DEF Owned
<1>4. ASSUME NEW o \in Objects, Close(o)  PROVE Goal
  <2>1. /\ o \in Alive \ reading /\ handle[o] # NoHandle
        /\ life' = [h \in DOMAIN life \ {handle[o]} |-> life[h]]
        /\ handle' = [handle EXCEPT ![o] = NoHandle] /\ UNCHANGED <<use, type, reading>>
    BY <1>4 DEF Close, Idle, RestrictDomain, Restrict
  <2>2. SocketTyped'
    BY <2>1
  <2> QED
    BY <2>1, <2>2, HandleAssumption DEF Owned
<1>5. ASSUME NEW o \in Objects, Destroy(o)  PROVE Goal
  <2>1. /\ o \in Alive \ reading
        /\ life' = [h \in DOMAIN life \ {handle[o]} |-> life[h]]
        /\ handle' = [p \in Alive \ {o} |-> handle[p]]
        /\ type' = [p \in Alive \ {o} |-> type[p]] /\ UNCHANGED <<use, reading>>
    BY <1>5 DEF Destroy, Idle, RestrictDomain, Restrict
  <2>2. SocketTyped'
    BY <2>1
  <2> QED
    BY <2>1, <2>2, HandleAssumption DEF Owned
<1>6. ASSUME NEW o \in Objects,
             \/ SetOf(o) \/ \E by \in DOMAIN Gettable : GetBounces(o, by) \/ Get(o, by)
             \/ GetText(o) \/ CopyText(o)
      PROVE  Goal
  <2>1. /\ UNCHANGED <<use, option, handle, type>>
        /\ DOMAIN life' = DOMAIN life /\ life' \in [DOMAIN life' -> Lives]
        /\ \A h \in DOMAIN life : life'[h].type = life[h].type
        /\ reading' \subseteq reading \cup {r \in {o} : o \in Alive /\ handle[o] # NoHandle}
    BY <1>6, OptionsKeep
  <2> QED
    BY <2>1 DEF Owned
<1>7. CASE UNCHANGED vars
  BY <1>7 DEF vars, Owned
<1> QED
  BY <1>1, <1>2, <1>3, <1>4, <1>5, <1>6, <1>7 DEF Next

(* However socket objects are made, moved, assigned, closed and destroyed,  *)
(* in the middle of threads that read options and of contexts that end: a  *)
(* handle that is open has exactly one object that will close it.          *)
THEOREM SocketHandlesAreOwned == ContextSpec => []HandlesAreOwned
<1>1. ContextInit => SocketTyped /\ Owned
  BY OwnedInit DEF ContextInit
<1>2. SocketTyped /\ Owned /\ [ContextNext]_allVars => SocketTyped' /\ Owned'
  BY OwnedNext, ContextStepsAreSockets
<1>3. SocketTyped /\ Owned => HandlesAreOwned
  BY HandleAssumption DEF SocketTyped, Owned, HandlesAreOwned, Alive
<1> QED
  BY <1>1, <1>2, <1>3, PTL DEF ContextSpec

-------------------------------------------------------------------------------
(* What is read of an option. *)

(* What a handle remembers of its option: the last set passed on what the   *)
(* caller asked, and an overload that takes the option.                    *)
Remembered(s) ==
  /\ s.value = s.asked /\ s.value # Bounced
  /\ s.by # "none" => s.by \in Overloads /\ option \in SettableBy(s.by)
  /\ option \in BooleanGet => s.value \in {Default, Number(0), Number(1)}

Readable ==
  /\ \A h \in DOMAIN life : Remembered(life[h])
  /\ buffer # Bounced
  /\ reading # {} => option \in TextGet
  /\ "threads" \notin use => \A o \in reading : reading = {o} /\ buffer = life[handle[o]].value

Read == SocketTyped /\ Owned /\ Readable /\ GetsWhatWasSet /\ ReadsBack

(* The case lists of set() and get() differ by what is "set only" and by    *)
(* the numbers of 64 bits given as int.                                    *)
LEMMA NotReadBack ==
  ASSUME NEW by \in Overloads, option \in SettableBy(by), option \notin Gettable[by]
  PROVE  \/ option \in SetOnly \cup {"xpub_welcome_message"}
         \/ by = "int" /\ option \in Unsigned \cup Signed
<1>1. CASE by = "int"
  <2>1. option \in IntSet /\ option \notin IntGet
    BY <1>1 DEF SettableBy, Gettable
  <2>2. IntSet \subseteq IntGet \cup SetOnly \cup Unsigned \cup Signed
    BY DEF IntSet, IntAsUnsigned, IntAsSigned, IntAsBoolean, IntNotNegative, IntAny, IntGet, SetOnly,
           Unsigned, Signed
  <2> QED
    BY <1>1, <2>1, <2>2
<1>2. CASE by = "bool"
  <2>1. option \in BooleanSet /\ option \notin BooleanGet
    BY <1>2 DEF SettableBy, Gettable
  <2> QED
    BY <2>1 DEF BooleanSet, BooleanGet, SetOnly
<1>3. CASE by = "string"
  <2>1. option \in TextSet /\ option \notin TextGet
    BY <1>3 DEF SettableBy, Gettable
  <2> QED
    BY <2>1 DEF TextSet, TextGet, SetOnly
<1>4. CASE by \in {"uint64", "int64"}
  BY <1>4 DEF SettableBy, Gettable
<1> QED
  BY <1>1, <1>2, <1>3, <1>4 DEF Overloads

(* But for backlog and xpub_verboser, no overload of set() takes what is get *)
(* only, and none of get() what is set only.                               *)
LEMMA DeclaredLists ==
  ASSUME NEW name, name \notin {"backlog", "xpub_verboser"}, NEW by \in Overloads
  PROVE  /\ name \in GetOnly => name \notin SettableBy(by)
         /\ name \in SetOnly => name \notin Gettable[by]
<1>1. name \in GetOnly => name \notin IntSet \cup BooleanSet \cup Unsigned \cup Signed \cup TextSet
  BY DEF GetOnly, IntSet, IntAsUnsigned, IntAsSigned, IntAsBoolean, IntNotNegative, IntAny, BooleanSet,
         Unsigned, Signed, TextSet
<1>2. name \in SetOnly => name \notin IntGet \cup BooleanGet \cup Unsigned \cup Signed \cup TextGet
  BY DEF SetOnly, IntGet, BooleanGet, Unsigned, Signed, TextGet
<1> QED
  BY <1>1, <1>2 DEF SettableBy, Gettable, Overloads

(* When every handle is remembered right, what is get only was not set. *)
LEMMA NothingSet ==
  ASSUME Readable, option \notin {"backlog", "xpub_verboser"}
  PROVE  GetOnlyHolds
<1> SUFFICES ASSUME option \in GetOnly, NEW h \in DOMAIN life, life[h].by # "none"  PROVE FALSE
  BY DEF GetOnlyHolds
<1>1. life[h].by \in Overloads /\ option \in SettableBy(life[h].by)
  BY DEF Readable, Remembered
<1> QED
  BY <1>1, DeclaredLists

(* An answer of the value that a handle has is a good one. *)
LEMMA GoodAnswers ==
  ASSUME Readable, SocketTyped, Owned, NEW o \in Alive, handle[o] # NoHandle,
         NEW by \in Overloads, option \in Gettable[by], NEW v,
         v = life[handle[o]].value \/ v = AsText(life[handle[o]].value),
         answer' = [by |-> by, of |-> handle[o], value |-> v],
         UNCHANGED <<use, option, life>>
  PROVE  GetsWhatWasSet' /\ ReadsBack'
<1>1. handle[o] \in DOMAIN life /\ Remembered(life[handle[o]])
  BY DEF Owned, Readable
<1>2. life[handle[o]].value = life[handle[o]].asked /\ v # Bounced
  BY <1>1 DEF Remembered, AsText, Text, Bounced
<1>3. answer'.of = handle[o] /\ answer'.value = v /\ life' = life /\ option' = option
  OBVIOUS
<1>4. GetsWhatWasSet'
  BY <1>2, <1>3 DEF GetsWhatWasSet, GetsItsOwn, AsText
<1>5. option \notin {"backlog", "xpub_verboser"} => GetOnlyHolds /\ option \notin SetOnly
  BY NothingSet, DeclaredLists
<1>6. ReadsBack'
  BY <1>2, <1>3, <1>5 DEF ReadsBack, GetOnlyHolds, SetOnlyHolds
<1> QED
  BY <1>4, <1>6

(* Before the first socket there is nothing to read. *)
LEMMA ReadInit == Init => Readable /\ GetsWhatWasSet /\ ReadsBack
BY DEF Init, Readable, GetsWhatWasSet, GetsItsOwn, ReadsBack, GetOnlyHolds, SetOnlyHolds, Default, Bounced

(* A step that answers nothing answers nothing wrong. *)
LEMMA NoAnswerIsGood == Readable' /\ answer' = NoAnswer => GetsWhatWasSet' /\ ReadsBack'
<1>1. ASSUME Readable', option' \notin {"backlog", "xpub_verboser"}, option' \in GetOnly,
             NEW h \in DOMAIN life', life'[h].by # "none"
      PROVE  FALSE
  <2>1. life'[h].by \in Overloads /\ option' \in SettableBy(life'[h].by)
    BY <1>1 DEF Readable, Remembered
  <2> QED
    BY <1>1, <2>1, DeclaredLists
<1> QED
  BY <1>1 DEF GetOnlyHolds, GetsWhatWasSet, GetsItsOwn, ReadsBack, SetOnlyHolds

(* A step that leaves the kept handles as they are, and makes others that   *)
(* are remembered right, disturbs no reader whose handle is kept.          *)
LEMMA ReadableKept ==
  ASSUME SocketTyped, Readable, NEW kept, kept \subseteq DOMAIN life,
         UNCHANGED <<use, option, reading, buffer>>,
         \A h \in DOMAIN life' : IF h \in kept THEN life'[h] = life[h] ELSE Remembered(life'[h]),
         \A o \in reading : handle'[o] = handle[o] /\ handle[o] \in kept \cap DOMAIN life'
  PROVE  Readable'
<1>1. \A s : Remembered(s)' = Remembered(s) 
  BY DEF Remembered
<1> QED
  BY <1>1 DEF Readable, Remembered

(* Every step keeps what can be read and answers right. *)
LEMMA ReadNext == Read /\ [Next]_vars => Readable' /\ GetsWhatWasSet' /\ ReadsBack'
<1> SUFFICES ASSUME Read, [Next]_vars PROVE Readable' /\ GetsWhatWasSet' /\ ReadsBack'
  OBVIOUS
<1> DEFINE Goal == Readable' /\ GetsWhatWasSet' /\ ReadsBack'
<1>0. SocketTyped /\ Owned /\ Readable
  BY DEF Read
<1>r. \A o \in reading : o \in Alive /\ handle[o] # NoHandle /\ handle[o] \in DOMAIN life
  BY <1>0 DEF SocketTyped, Owned
<1>1. ASSUME NEW o \in Objects, NEW t \in Types, Construct(o, t)  PROVE Goal
  <2>1. PICK h \in Handles \ DOMAIN life :
          /\ handle' = With(handle, o, h)
          /\ life' = With(life, h, [type |-> t, value |-> Default, asked |-> Default, by |-> "none"])
    BY <1>1 DEF Construct
  <2>2. o \notin Alive /\ UNCHANGED <<use, option, reading, buffer>> /\ answer' = NoAnswer
    BY <1>1 DEF Construct
  <2>3. Remembered([type |-> t, value |-> Default, asked |-> Default, by |-> "none"])
    BY DEF Remembered, Default, Bounced
  <2>4. \A p \in reading : handle'[p] = handle[p]
    BY <2>1, <2>2, <1>r DEF With, Alive
  <2>5. /\ DOMAIN life' = DOMAIN life \cup {h} /\ \A g \in DOMAIN life : life'[g] = life[g]
        /\ Remembered(life'[h])
    BY <2>1, <2>3 DEF With
  <2>6. Readable'
    BY <1>0, <1>r, <2>2, <2>4, <2>5, ReadableKept
  <2> QED
    BY <2>2, <2>6, NoAnswerIsGood
<1>2. ASSUME NEW o \in Objects, NEW q \in Objects, MoveConstruct(o, q) \/ MoveAssign(o, q)  PROVE Goal
  <2>1. /\ UNCHANGED <<use, option, life, reading, buffer>> /\ answer' = NoAnswer
        /\ \A p \in reading : handle'[p] = handle[p]
    BY <1>2, <1>r DEF MoveConstruct, MoveAssign, Taken, Idle, Alive, With
  <2>2. Readable'
    BY <1>0, <1>r, <2>1, ReadableKept
  <2> QED
    BY <2>1, <2>2, NoAnswerIsGood
<1>3. ASSUME NEW o \in Objects, Close(o) \/ Destroy(o)  PROVE Goal
  <2>1. /\ o \in Alive \ reading /\ life' = [h \in DOMAIN life \ {handle[o]} |-> life[h]]
        /\ UNCHANGED <<use, option, reading, buffer>> /\ answer' = NoAnswer
        /\ \A p \in reading : handle'[p] = handle[p]
    BY <1>3, <1>r DEF Close, Destroy, Idle, Alive, RestrictDomain, Restrict
  <2>2. \A p \in reading : handle[p] # handle[o]
    BY <1>0, <1>r, <2>1 DEF Owned
  <2>3. Readable'
    BY <1>0, <1>r, <2>1, <2>2, ReadableKept
  <2> QED
    BY <2>1, <2>3, NoAnswerIsGood
<1>4. ASSUME NEW o \in Objects, SetOf(o)  PROVE Goal
  <2>1. PICK by \in Overloads, asked \in Values : \E passed :
          PassedOn(by, asked, passed) /\ Set(o, by, asked, passed)
    BY <1>4, SetsKnown
  <2>2. PICK passed : PassedOn(by, asked, passed) /\ Set(o, by, asked, passed)
    BY <2>1
  <2>3. /\ o \in Alive \ reading /\ handle[o] # NoHandle /\ passed # Bounced
        /\ life' = [life EXCEPT ![handle[o]].value = passed, ![handle[o]].asked = asked,
                              ![handle[o]].by = by]
        /\ UNCHANGED <<use, option, handle, reading, buffer>> /\ answer' = NoAnswer
    BY <2>2 DEF Set, Idle, objectVars
  <2>4. handle[o] \in DOMAIN life
    BY <1>0, <2>3 DEF Owned
  <2>5. /\ DOMAIN life' = DOMAIN life
        /\ \A h \in DOMAIN life \ {handle[o]} : life'[h] = life[h]
        /\ life'[handle[o]].value = passed /\ life'[handle[o]].asked = asked
        /\ life'[handle[o]].by = by
    BY <1>0, <2>3, <2>4 DEF SocketTyped, Lives
  <2>6. Remembered(life'[handle[o]])
    BY <2>2, <2>3, <2>5 DEF Remembered, PassedOn
  <2>7. \A p \in reading : handle[p] # handle[o]
    BY <1>0, <1>r, <2>3 DEF Owned
  <2>8. Readable'
    <3>1. \A h \in DOMAIN life' :
            IF h \in DOMAIN life \ {handle[o]} THEN life'[h] = life[h] ELSE Remembered(life'[h])
      BY <2>5, <2>6
    <3>2. \A p \in reading :
            handle'[p] = handle[p] /\ handle[p] \in (DOMAIN life \ {handle[o]}) \cap DOMAIN life'
      BY <1>r, <2>3, <2>5, <2>7
    <3> QED
      BY <1>0, <2>3, <3>1, <3>2, ReadableKept
  <2> QED
    BY <2>3, <2>8, NoAnswerIsGood
<1>5. ASSUME NEW o \in Objects, NEW by \in DOMAIN Gettable, GetBounces(o, by)  PROVE Goal
  <2>1. /\ o \in Alive /\ option \notin Gettable[by] /\ by \in Overloads
        /\ answer' = [by |-> by, of |-> handle[o], value |-> Bounced]
        /\ UNCHANGED <<use, option, handle, life, reading, buffer>>
    BY <1>5 DEF GetBounces, Answers, Gettable, Overloads, Idle, objectVars
  <2>2. Readable'
    BY <1>0, <1>r, <2>1, ReadableKept
  <2>3. ASSUME handle[o] # NoHandle, by = life[handle[o]].by
        PROVE  \/ option \in SetOnly \cup {"xpub_welcome_message"}
               \/ by = "int" /\ option \in Unsigned \cup Signed
    <3>1. handle[o] \in DOMAIN life /\ Remembered(life[handle[o]])
      BY <1>0, <2>1, <2>3 DEF Owned, Readable
    <3>2. option \in SettableBy(by)
      BY <2>1, <2>3, <3>1 DEF Remembered, Overloads
    <3> QED
      BY <2>1, <3>2, NotReadBack
  <2>4. option \notin {"backlog", "xpub_verboser"} => GetOnlyHolds
    BY <1>0, NothingSet
  <2>5. GetsWhatWasSet' /\ ReadsBack'
    BY <2>1, <2>3, <2>4 DEF GetsWhatWasSet, GetsItsOwn, ReadsBack, GetOnlyHolds, SetOnlyHolds
  <2> QED
    BY <2>2, <2>5
<1>6. ASSUME NEW o \in Objects, NEW by \in DOMAIN Gettable, Get(o, by)  PROVE Goal
  <2> DEFINE value == life[handle[o]].value
  <2>1. /\ o \in Alive /\ handle[o] # NoHandle /\ option \in Gettable[by] /\ by \in Overloads
        /\ answer' = [by |-> by, of |-> handle[o],
                      value |-> IF by = "bool" THEN AsBool(value) ELSE value]
        /\ UNCHANGED <<use, option, handle, life, reading, buffer>>
    BY <1>6 DEF Get, Answers, Gettable, Overloads, Idle, objectVars
  <2>2. Readable'
    BY <1>0, <1>r, <2>1, ReadableKept
  <2>3. by = "bool" => AsBool(value) = value
    <3>1. SUFFICES ASSUME by = "bool" PROVE AsBool(value) = value
      OBVIOUS
    <3>2. option \in BooleanGet
      BY <2>1, <3>1 DEF Gettable
    <3>3. value \in {Default, Number(0), Number(1)}
      BY <1>0, <2>1, <3>2 DEF Readable, Remembered, Owned
    <3> QED
      BY <3>3 DEF AsBool, Default, Number
  <2>4. GetsWhatWasSet' /\ ReadsBack'
    BY <1>0, <2>1, <2>3, GoodAnswers
  <2> QED
    BY <2>2, <2>4
<1>7. ASSUME NEW o \in Objects, GetText(o)  PROVE Goal
  <2>1. /\ o \in Alive /\ handle[o] # NoHandle /\ (reading # {} => "threads" \in use)
        /\ buffer' = life[handle[o]].value /\ reading' = reading \cup {o} /\ answer' = NoAnswer
        /\ option \in TextGet
        /\ UNCHANGED <<use, option, handle, life>>
    BY <1>7 DEF GetText, Idle, objectVars, Gettable
  <2>2. handle[o] \in DOMAIN life
    BY <1>0, <2>1 DEF Owned
  <2>3. Readable'
    BY <1>0, <2>1, <2>2 DEF Readable, Remembered
  <2> QED
    BY <2>1, <2>3, NoAnswerIsGood
<1>8. ASSUME NEW o \in Objects, CopyText(o)  PROVE Goal
  <2>1. /\ o \in reading /\ reading' = reading \ {o}
        /\ answer' = [by |-> "string", of |-> handle[o], value |-> AsText(buffer)]
        /\ UNCHANGED <<use, option, handle, life, buffer>>
    BY <1>8 DEF CopyText, Answers, objectVars
  <2>2. Readable'
    BY <1>0, <2>1 DEF Readable, Remembered
  <2>3. CASE "threads" \notin use
    <3>1. buffer = life[handle[o]].value
      BY <1>0, <2>1, <2>3 DEF Readable
    <3>2. option \in Gettable["string"]
      BY <1>0, <2>1 DEF Readable, Gettable
    <3>3. GetsWhatWasSet' /\ ReadsBack'
      BY <1>0, <1>r, <2>1, <3>1, <3>2, GoodAnswers DEF Overloads
    <3> QED
      BY <2>2, <3>3
  <2>4. CASE "threads" \in use
    <3>1. AsText(buffer) # Bounced
      BY <1>0 DEF Readable, AsText, Text, Bounced
    <3>2. option \in Gettable["string"]
      BY <1>0, <2>1 DEF Readable, Gettable
    <3>3. option \notin {"backlog", "xpub_verboser"} => GetOnlyHolds /\ option \notin SetOnly
      BY <1>0, <3>2, NothingSet, DeclaredLists DEF Overloads
    <3> QED
      BY <2>1, <2>2, <2>4, <3>1, <3>3 DEF GetsWhatWasSet, GetsItsOwn, ReadsBack, GetOnlyHolds, SetOnlyHolds
  <2> QED
    BY <2>3, <2>4
<1>9. CASE UNCHANGED vars
  BY <1>9 DEF vars, objectVars, Read, Readable, Remembered, GetsWhatWasSet, GetsItsOwn, ReadsBack, GetOnlyHolds,
              SetOnlyHolds
<1> QED
  BY <1>1, <1>2, <1>3, <1>4, <1>5, <1>6, <1>7, <1>8, <1>9 DEF Next

(* The invariant behind the two theorems on options. *)
LEMMA ReadAlways == ContextSpec => []Read
<1>1. ContextInit => Read
  BY OwnedInit, ReadInit DEF ContextInit, Read
<1>2. Read /\ [ContextNext]_allVars => Read'
  BY OwnedNext, ReadNext, ContextStepsAreSockets DEF Read
<1> QED
  BY <1>1, <1>2, PTL DEF ContextSpec

(* For every option, every number of int and int64_t and every text: what   *)
(* any overload of get() returns is what the last caller of any overload   *)
(* of set() asked for.                                                     *)
THEOREM SocketGetsWhatWasSet == ContextSpec => []GetsWhatWasSet
BY ReadAlways, PTL DEF Read

(* For every option but backlog and xpub_verboser: no overload of set()     *)
(* takes what the header declares "get only" and none of get() what it     *)
(* declares "set only".  And the overload that set an option reads it too,  *)
(* unless it is set only, a number of 64 bits given as an int, or          *)
(* xpub_welcome_message.                                                   *)
THEOREM SocketReadsBack == ContextSpec => []ReadsBack
BY ReadAlways, PTL DEF Read

-------------------------------------------------------------------------------
(* Who ends a context. *)

ContextTyped ==
  /\ "contexts" \in use => DOMAIN within = DOMAIN life
  /\ DOMAIN calling \subseteq DOMAIN context
  /\ \A c \in DOMAIN calling : context[c] # NoHandle

Ended == ContextTyped /\ ContextsAreOwned

(* Every step keeps the contexts owned. *)
LEMMA EndedNext == Ended /\ [ContextNext]_allVars => Ended'
<1> SUFFICES ASSUME Ended, [ContextNext]_allVars PROVE Ended'
  OBVIOUS
<1> USE DEF Ended, ContextTyped, Held
<1>1. ASSUME NEW c \in Owners, NewContext(c)  PROVE Ended'
  <2>1. PICK z \in Contexts \ Held : context' = With(context, c, z)
    BY <1>1 DEF NewContext
  <2>2. c \notin DOMAIN context /\ UNCHANGED <<vars, within, ending, calling, crashed>> /\ z # NoHandle
    BY <1>1, ContextAssumption DEF NewContext
  <2>3. /\ DOMAIN context' = DOMAIN context \cup {c} /\ context'[c] = z
        /\ \A d \in DOMAIN context : context'[d] = context[d] /\ context[d] # z
    BY <2>1, <2>2 DEF With
  <2> QED
    BY <2>2, <2>3 DEF ContextsAreOwned, vars
<1>2. ASSUME NEW c \in Owners, NEW d \in Owners, MoveContext(c, d)  PROVE Ended'
  <2>1. /\ c \notin DOMAIN context /\ d \in DOMAIN context \ DOMAIN calling
        /\ DOMAIN context' = DOMAIN context \cup {c} /\ context'[c] = context[d]
        /\ context'[d] = NoHandle /\ \A e \in DOMAIN context \ {d} : context'[e] = context[e]
        /\ UNCHANGED <<vars, within, ending, calling, crashed>>
    BY <1>2 DEF MoveContext, Free, With
  <2> QED
    BY <2>1 DEF ContextsAreOwned, vars
<1>3. ASSUME NEW c \in Owners, NEW d \in Owners, AssignContext(c, d)  PROVE Ended'
  <2>1. /\ {c, d} \subseteq DOMAIN context \ DOMAIN calling /\ c # d
        /\ DOMAIN context' = DOMAIN context /\ context'[c] = context[d] /\ context'[d] = context[c]
        /\ \A e \in DOMAIN context \ {c, d} : context'[e] = context[e]
        /\ UNCHANGED <<vars, within, ending, calling, crashed>>
    BY <1>3 DEF AssignContext, Free
  <2> QED
    BY <2>1 DEF ContextsAreOwned, vars
<1>4. ASSUME NEW c \in Owners, NEW by, Terminate(c, by)  PROVE Ended'
  <2>1. /\ c \in DOMAIN context \ DOMAIN calling /\ context[c] # NoHandle
        /\ DOMAIN calling' = DOMAIN calling \cup {c} /\ ending' = ending \cup {context[c]}
        /\ UNCHANGED <<vars, context, within, crashed>>
    BY <1>4 DEF Terminate, Free, With
  <2> QED
    BY <2>1 DEF ContextsAreOwned, vars
<1>5. ASSUME NEW c \in Owners, DropContext(c)  PROVE Ended'
  <2>1. /\ c \in DOMAIN context \ DOMAIN calling /\ context[c] = NoHandle
        /\ DOMAIN context' = DOMAIN context \ {c}
        /\ \A d \in DOMAIN context \ {c} : context'[d] = context[d]
        /\ UNCHANGED <<vars, within, ending, calling, crashed>>
    BY <1>5 DEF DropContext, Free, RestrictDomain, Restrict
  <2> QED
    BY <2>1 DEF ContextsAreOwned, vars
<1>6. ASSUME NEW c \in Owners, TerminateInterrupted(c) \/ TerminateAgain(c)  PROVE Ended'
  <2>1. DOMAIN calling' = DOMAIN calling /\ UNCHANGED <<vars, context, within, ending, crashed>>
    BY <1>6 DEF TerminateInterrupted, TerminateAgain
  <2> QED
    BY <2>1 DEF ContextsAreOwned, vars
<1>7. ASSUME NEW c \in Owners, Terminated(c)  PROVE Ended'
  <2>1. /\ c \in DOMAIN calling /\ c \in DOMAIN context /\ context[c] # NoHandle
        /\ \A h \in DOMAIN within : within[h] # context[c]
        /\ ending' = ending \ {context[c]} /\ DOMAIN calling' = DOMAIN calling \ {c}
        /\ UNCHANGED <<vars, within, crashed>>
    BY <1>7 DEF Terminated, InCall, RestrictDomain, Restrict
  <2>2. /\ DOMAIN context' \subseteq DOMAIN context /\ DOMAIN context \ {c} \subseteq DOMAIN context'
        /\ \A d \in DOMAIN context \ {c} : context'[d] = context[d]
        /\ c \in DOMAIN context' => context'[c] = NoHandle
    BY <1>7 DEF Terminated, RestrictDomain, Restrict
  <2>3. Held' = Held \ {context[c]}
    BY <2>1, <2>2 DEF ContextsAreOwned
  <2>4. ending' = {context'[d] : d \in DOMAIN calling'}
    BY <2>1, <2>2 DEF ContextsAreOwned
  <2> QED
    BY <2>1, <2>2, <2>3, <2>4 DEF ContextsAreOwned, vars
<1>8. ASSUME NEW o \in Objects, SocketStep(o), "contexts" \in use  PROVE Ended'
  <2>1. UNCHANGED <<context, ending, calling, crashed, use>> /\ DOMAIN life' \subseteq DOMAIN life
    BY <1>8 DEF SocketStep, MoveConstruct, MoveAssign, Close, Destroy, RestrictDomain, Restrict
  <2>2. /\ DOMAIN within' = DOMAIN within \cap DOMAIN life'
        /\ \A h \in DOMAIN within' : within'[h] = within[h]
    BY <1>8 DEF SocketStep, RestrictDomain, Restrict
  <2> QED
    BY <1>8, <2>1, <2>2 DEF ContextsAreOwned
<1>9. ASSUME NEW o \in Objects, NEW t \in Types, NEW c \in Owners, ConstructIn(o, t, c),
             "contexts" \in use
      PROVE  Ended'
  <2>1. /\ UNCHANGED <<context, ending, calling, crashed, use>>
        /\ c \in DOMAIN context /\ context[c] # NoHandle
        /\ DOMAIN within' = DOMAIN life'
        /\ \A h \in DOMAIN within' : within'[h] = IF h \in DOMAIN life THEN within[h] ELSE context[c]
    BY <1>9 DEF ConstructIn, Construct
  <2> QED
    BY <1>9, <2>1 DEF ContextsAreOwned
<1>10. CASE "contexts" \notin use /\ Next /\ UNCHANGED contextVars
  <2>1. use' = use
    BY <1>10 DEF Next, Construct, MoveConstruct, MoveAssign, Close, Destroy, SetOf, Set, GetBounces,
                 Get, GetText, CopyText
  <2> QED
    BY <1>10, <2>1 DEF contextVars, ContextsAreOwned
<1>11. CASE UNCHANGED allVars
  BY <1>11 DEF allVars, vars, contextVars, ContextsAreOwned
<1> QED
  BY <1>1, <1>2, <1>3, <1>4, <1>5, <1>6, <1>7, <1>8, <1>9, <1>10, <1>11 DEF ContextNext, ContextStep

(* However many context objects there are and however often a signal        *)
(* interrupts zmq_ctx_destroy: a context has one object, none is left that  *)
(* has begun to end and that nobody is ending, and no destructor throws.   *)
THEOREM ContextContextsAreOwned == ContextSpec => []ContextsAreOwned
<1>1. ContextInit => Ended
  BY DEF ContextInit, Init, Ended, ContextTyped, ContextsAreOwned, Held
<1> QED
  BY <1>1, EndedNext, PTL DEF ContextSpec, Ended

-------------------------------------------------------------------------------
(* Messages between two sockets. *)

Parts == [part : Msgs \X Nat, more : BOOLEAN]
Pieces == Seq(Parts)

TransferTyped ==
  /\ signals \in BOOLEAN /\ msg \in Msgs /\ done \in Nat /\ done < Size[msg]
  /\ sender \in {"no", "send", "parts", "over", "gone"}
  /\ receiver \in {"no", "receive", "parts", "again", "over", "gone"}
  /\ under \in Pieces /\ wire \in Seq(Pieces) /\ inbox \in Seq(Msgs \X Nat)

(* The last part of a message, and no other, says that no more follow. *)
Closing(b) == b # <<>> /\ \A n \in DOMAIN b : b[n].more <=> n < Len(b)
AllMore(u) == \A n \in DOMAIN u : u[n].more
AllClosing(w) == \A k \in DOMAIN w : Closing(w[k])

Flagged ==
  /\ AllMore(under)
  /\ AllClosing(wire)
  /\ receiver = "gone" => wire = <<>>

(* The parts b are those of message m after the n-th, and the parts s the   *)
(* first of m.                                                             *)
Rest(b, m, n) == n + Len(b) = Size[m] /\ \A j \in DOMAIN b : b[j].part = <<m, n + j>>
Front(s, m) == \A j \in DOMAIN s : s[j] = <<m, j>>

Begun(u, m, n) == Len(u) = n /\ \A j \in DOMAIN u : u[j].part = <<m, j>>
Entire(b) == \E m \in Msgs : Rest(b, m, 0)
Divided(s, b) == \E m \in Msgs : Front(s, m) /\ Rest(b, m, Len(s))

(* The first message on the wire is not whole: the receiver took parts. *)
Taking == receiver = "over" \/ (Listening /\ inbox # <<>>)

(* Without signals libzmq has the first parts of the message that is sent,  *)
(* the wire whole messages but for the first, and the receiver what was    *)
(* before its rest.                                                        *)
Unmixed ==
  /\ Sending => Begun(under, msg, done)
  /\ sender = "no" => under = <<>>
  /\ \A k \in DOMAIN wire : k > 1 \/ ~Taking => Entire(wire[k])
  /\ Listening /\ inbox # <<>> => Divided(inbox, wire[1])

TransferInv == Flagged /\ NeverStarves /\ (~signals => Unmixed)

(* What is left on the wire when the next part was taken. *)
Left(w) == IF Len(Head(w)) = 1 THEN Tail(w) ELSE [w EXCEPT ![1] = Tail(@)]

(* The parts of a message, of which the first is looked at. *)
LEMMA FirstPart ==
  ASSUME NEW b \in Pieces, Closing(b)
  PROVE  /\ b # <<>> /\ Head(b) = b[1] /\ 1 \in DOMAIN b /\ b[1] \in Parts
         /\ b[1].more <=> Len(b) # 1
         /\ b[1].more => Closing(Tail(b)) /\ Tail(b) \in Pieces
<1>1. b \in Seq(Parts) /\ b # <<>>
  BY DEF Pieces, Closing
<1>2. Head(b) = b[1] /\ 1 \in DOMAIN b /\ b[1] \in Parts /\ Len(b) \in Nat /\ Len(b) > 0
  BY <1>1
<1>3. \A n \in DOMAIN b : b[n].more <=> n < Len(b)
  BY DEF Closing
<1>4. b[1].more <=> Len(b) # 1
  <2>1. b[1].more <=> 1 < Len(b)
    BY <1>2, <1>3
  <2>2. 1 < Len(b) <=> Len(b) # 1
    <3>1. PICK l \in Nat : l = Len(b) /\ l # 0
      BY <1>2
    <3>2. 1 < l <=> l # 1
      BY <3>1
    <3> QED
      BY <3>1, <3>2
  <2> QED
    BY <2>1, <2>2
<1>5. ASSUME b[1].more PROVE Closing(Tail(b)) /\ Tail(b) \in Pieces
  <2>1. Len(b) > 1
    BY <1>2, <1>4, <1>5
  <2>2. PICK r : r = Tail(b)
    OBVIOUS
  <2>3. /\ r \in Seq(Parts) /\ r # <<>> /\ Len(r) = Len(b) - 1
        /\ \A n \in DOMAIN r : r[n] = b[n + 1] /\ n + 1 \in DOMAIN b /\ n \in Nat
    <3>1. b \in Seq(Parts) /\ Len(b) > 1
      BY <1>1, <2>1
    <3>2. Tail(b) \in Seq(Parts) /\ Tail(b) # <<>> /\ Len(Tail(b)) = Len(b) - 1
      BY <3>1
    <3>3. \A n \in DOMAIN Tail(b) : Tail(b)[n] = b[n + 1] /\ n + 1 \in DOMAIN b /\ n \in Nat
      BY <3>1
    <3> QED
      BY <2>2, <3>2, <3>3
  <2>4. \A n \in DOMAIN r : n < Len(r) <=> n + 1 < Len(b)
    BY <1>2, <2>3
  <2>5. \A n \in DOMAIN r : r[n].more <=> n < Len(r)
    BY <1>3, <2>3, <2>4
  <2> QED
    BY <2>2, <2>3, <2>5 DEF Closing, Pieces
<1> QED
  BY <1>1, <1>2, <1>4, <1>5

(* A part that is taken is the last of its message exactly when it says so, *)
(* and then the next message is the first.                                 *)
LEMMA PartTaken ==
  ASSUME NEW w \in Seq(Pieces), w # <<>>, AllClosing(w), NEW t, t = Left(w)
  PROVE  /\ Head(w) = w[1] /\ 1 \in DOMAIN w /\ w[1] \in Pieces /\ Closing(w[1])
         /\ t \in Seq(Pieces) /\ AllClosing(t)
         /\ w[1][1].more => /\ DOMAIN t = DOMAIN w /\ t # <<>> /\ t[1] = Tail(w[1])
                            /\ \A k \in DOMAIN t : k > 1 => t[k] = w[k]
         /\ ~w[1][1].more => t = Tail(w) /\ Len(w[1]) = 1
<1>1. /\ Head(w) = w[1] /\ 1 \in DOMAIN w /\ w[1] \in Pieces /\ DOMAIN w = 1..Len(w)
      /\ Len(w) \in Nat
  OBVIOUS
<1>2. PICK b \in Pieces : b = w[1] /\ Closing(b)
  BY <1>1 DEF AllClosing
<1>3. /\ b[1].more <=> Len(b) # 1
      /\ b[1].more => Closing(Tail(b)) /\ Tail(b) \in Pieces
  BY <1>2, FirstPart
<1>4. CASE ~b[1].more
  <2>1. t = Tail(w) /\ Len(b) = 1
    BY <1>1, <1>2, <1>3, <1>4 DEF Left
  <2>2. t \in Seq(Pieces) /\ \A k \in DOMAIN t : k + 1 \in DOMAIN w /\ t[k] = w[k + 1]
    BY <2>1
  <2>3. AllClosing(t)
    BY <2>2 DEF AllClosing
  <2> QED
    BY <1>1, <1>2, <1>4, <2>1, <2>2, <2>3
<1>5. CASE b[1].more
  <2>1. PICK r \in Pieces : r = Tail(b) /\ Closing(r)
    BY <1>3, <1>5
  <2>2. t = [w EXCEPT ![1] = r]
    BY <1>1, <1>2, <1>3, <1>5, <2>1 DEF Left
  <2>3. /\ t \in Seq(Pieces) /\ DOMAIN t = DOMAIN w /\ t # <<>> /\ t[1] = r
        /\ \A k \in DOMAIN w : k = 1 \/ (k > 1 /\ t[k] = w[k])
    BY <1>1, <2>2
  <2>4. AllClosing(t)
    BY <2>1, <2>3 DEF AllClosing
  <2> QED
    BY <1>1, <1>2, <1>5, <2>1, <2>3, <2>4
<1> QED
  BY <1>4, <1>5

(* The last part of a message completes what libzmq has of it. *)
LEMMA PartEnds ==
  ASSUME NEW u \in Pieces, AllMore(u), NEW e \in Parts, ~e.more,
         NEW all, all = Append(u, e)
  PROVE  /\ all \in Pieces /\ Closing(all) /\ Len(all) = Len(u) + 1
         /\ \A n \in DOMAIN all : n = Len(u) + 1 \/ n \in DOMAIN u
         /\ \A n \in DOMAIN all : all[n] = IF n = Len(u) + 1 THEN e ELSE u[n]
<1>1. u \in Seq(Parts)
  BY DEF Pieces
<1>2. /\ all \in Seq(Parts) /\ Len(all) = Len(u) + 1 /\ all # <<>> /\ Len(u) \in Nat
      /\ \A n \in DOMAIN all : all[n] = IF n = Len(u) + 1 THEN e ELSE u[n]
      /\ \A n \in DOMAIN all : n = Len(u) + 1 \/ (n \in DOMAIN u /\ n < Len(u) + 1)
  BY <1>1
<1>3. \A n \in DOMAIN all : n = Len(u) + 1 => ~all[n].more /\ ~(n < Len(all))
  BY <1>2
<1>4. \A n \in DOMAIN all : n \in DOMAIN u /\ n < Len(u) + 1 => all[n].more /\ n < Len(all)
  BY <1>2 DEF AllMore
<1>5. Closing(all)
  BY <1>2, <1>3, <1>4 DEF Closing
<1> QED
  BY <1>2, <1>5 DEF Pieces

(* The parts that a message still needs are those after what is there. *)
LEMMA RestTaken ==
  ASSUME NEW b \in Pieces, Closing(b), NEW s \in Seq(Msgs \X Nat), NEW m \in Msgs,
         Front(s, m), Rest(b, m, Len(s)), NEW t, t = Append(s, b[1].part)
  PROVE  /\ t \in Seq(Msgs \X Nat) /\ t # <<>> /\ Front(t, m) /\ Len(t) = Len(s) + 1
         /\ b[1].more => Rest(Tail(b), m, Len(t))
         /\ ~b[1].more => Len(t) = Size[m]
<1>1. b \in Seq(Parts) /\ b # <<>>
  BY DEF Pieces, Closing
<1>2. PICK l \in Nat : l = Len(s)
  OBVIOUS
<1>3. /\ l + Len(b) = Size[m] /\ \A j \in DOMAIN b : b[j].part = <<m, l + j>>
      /\ \A j \in DOMAIN s : s[j] = <<m, j>>
  BY <1>2 DEF Rest, Front
<1>4. b[1].part = <<m, l + 1>>
  <2>1. 1 \in DOMAIN b
    BY <1>1
  <2> QED
    BY <1>3, <2>1
<1>5. t = Append(s, <<m, l + 1>>) /\ <<m, l + 1>> \in Msgs \X Nat
  BY <1>4
<1>6. /\ t \in Seq(Msgs \X Nat) /\ t # <<>> /\ Len(t) = l + 1
      /\ \A j \in DOMAIN t : j = l + 1 \/ j \in DOMAIN s
      /\ \A j \in DOMAIN t : t[j] = IF j = l + 1 THEN <<m, l + 1>> ELSE s[j]
  BY <1>2, <1>5
<1>7. Front(t, m)
  BY <1>3, <1>6 DEF Front
<1>8. b[1].more <=> Len(b) # 1
  BY FirstPart
<1>9. ASSUME b[1].more PROVE Rest(Tail(b), m, l + 1)
  <2>1. PICK n \in Nat : n = Len(b) /\ n # 0
    BY <1>1
  <2>2. PICK r : r = Tail(b)
    OBVIOUS
  <2>3. Len(r) = n - 1 /\ \A j \in DOMAIN r : r[j] = b[j + 1] /\ j + 1 \in DOMAIN b /\ j \in Nat
    BY <1>1, <2>1, <2>2
  <2>4. \A j \in DOMAIN r : r[j].part = <<m, (l + 1) + j>>
    BY <1>3, <2>3
  <2>5. (l + 1) + Len(r) = Size[m]
    BY <1>3, <2>1, <2>3
  <2> QED
    BY <2>2, <2>4, <2>5 DEF Rest
<1>10. ASSUME ~b[1].more PROVE Len(t) = Size[m]
  BY <1>3, <1>6, <1>8, <1>10
<1> QED
  BY <1>2, <1>6, <1>7, <1>9, <1>10

(* Before the first call nothing is under way. *)
LEMMA TransferStarts == TransferInit => TransferTyped /\ TransferInv
<1> SUFFICES ASSUME TransferInit PROVE TransferTyped /\ TransferInv
  OBVIOUS
<1>1. \A m \in Msgs : Size[m] \in Nat \ {0}
  BY TransferAssumption
<1>2. <<>> \in Pieces /\ <<>> \in Seq(Pieces) /\ <<>> \in Seq(Msgs \X Nat) /\ DOMAIN <<>> = {}
  BY DEF Pieces
<1>3. TransferTyped
  BY <1>1, <1>2 DEF TransferInit, TransferTyped
<1>4. TransferInv
  BY <1>2 DEF TransferInit, TransferInv, Flagged, AllMore, AllClosing, NeverStarves, Unmixed,
              Sending, Listening
<1> QED
  BY <1>3, <1>4

(* What a part adds to what libzmq has. *)
LEMMA GoesOn ==
  ASSUME TransferTyped, TransferInv, PartGoes
  PROVE  TransferTyped' /\ TransferInv'
<1>1. PICK u, w, s, m, n : /\ u = under /\ w = wire /\ s = inbox /\ m = msg /\ n = done
                           /\ u \in Pieces /\ w \in Seq(Pieces) /\ m \in Msgs /\ n \in Nat
                           /\ n < Size[m] /\ Size[m] \in Nat
  BY TransferAssumption DEF TransferTyped
<1>2. PICK e \in Parts : e = [part |-> <<m, n + 1>>, more |-> More] /\ (e.more <=> n < Size[m] - 1)
  <2>1. PICK x \in BOOLEAN : x = More
    <3>1. More \in BOOLEAN
      BY DEF More
    <3> QED
      BY <3>1
  <2>2. x <=> n < Size[m] - 1
    BY <1>1, <2>1 DEF More
  <2>3. [part |-> <<m, n + 1>>, more |-> x] \in Parts
    BY <1>1 DEF Parts
  <2> QED
    BY <2>1, <2>2, <2>3
<1>3. PICK all : all = Append(u, e)
  OBVIOUS
<1>4. /\ Sending /\ msg' = msg /\ UNCHANGED <<receiver, inbox, signals>>
      /\ IF e.more THEN done' = n + 1 /\ sender' = sender ELSE done' = 0 /\ sender' = "no"
  BY <1>1, <1>2 DEF PartGoes, Busy, Past, More, receiverVars
<1>5. /\ e.more => under' = all /\ wire' = w
      /\ ~e.more =>
           under' = <<>> /\ wire' = IF receiver = "gone" THEN <<>> ELSE Append(w, all)
  BY <1>1, <1>2, <1>3 DEF PartGoes, Accept
<1>6. /\ AllMore(u) /\ AllClosing(w) /\ (receiver = "gone" => w = <<>>)
      /\ Listening /\ s # <<>> => w # <<>>
  BY <1>1 DEF TransferInv, Flagged, NeverStarves
<1>7. /\ all \in Pieces /\ Len(all) = Len(u) + 1 /\ <<>> \in Pieces /\ <<>> \in Seq(Pieces)
      /\ \A j \in DOMAIN all : j = Len(u) + 1 \/ j \in DOMAIN u
      /\ \A j \in DOMAIN all : all[j] = IF j = Len(u) + 1 THEN e ELSE u[j]
  <2>1. u \in Seq(Parts)
    BY <1>1 DEF Pieces
  <2> QED
    BY <1>3, <2>1 DEF Pieces
<1>8. e.more => AllMore(all)
  BY <1>6, <1>7 DEF AllMore
<1>9. ~e.more => Closing(all)
  BY <1>1, <1>3, <1>6, PartEnds
<1>10. PICK w2 : w2 = Append(w, all)
  OBVIOUS
<1>11. /\ w2 \in Seq(Pieces) /\ w2 # <<>> /\ (w # <<>> => w2[1] = w[1])
       /\ \A k \in DOMAIN w2 : w2[k] = all \/ (k \in DOMAIN w /\ w2[k] = w[k])
  BY <1>1, <1>7, <1>10
<1>12. TransferTyped'
  <2>1. under' \in Pieces /\ wire' \in Seq(Pieces)
    BY <1>1, <1>5, <1>7, <1>10, <1>11
  <2>2. done' \in Nat /\ done' < Size[msg]
    BY <1>1, <1>2, <1>4
  <2> QED
    BY <1>4, <2>1, <2>2 DEF TransferTyped
<1>13. Flagged'
  <2>1. AllMore(<<>>) /\ AllClosing(<<>>)
    BY DEF AllMore, AllClosing
  <2>2. ~e.more => AllClosing(w2)
    BY <1>6, <1>9, <1>11 DEF AllClosing
  <2> QED
    BY <1>4, <1>5, <1>6, <1>8, <1>10, <2>1, <2>2 DEF Flagged
<1>14. NeverStarves'
  BY <1>1, <1>4, <1>5, <1>6, <1>10, <1>11 DEF NeverStarves, Listening
<1>15. ASSUME ~signals PROVE Unmixed'
  <2>1. /\ Begun(u, m, n)
        /\ \A k \in DOMAIN w : k > 1 \/ ~Taking => Entire(w[k])
        /\ Listening /\ s # <<>> => Divided(s, w[1])
    BY <1>1, <1>4, <1>15 DEF TransferInv, Unmixed
  <2>2. Begun(all, m, n + 1)
    BY <1>2, <1>7, <2>1 DEF Begun
  <2>3. ~e.more => Entire(all)
    <3> SUFFICES ASSUME ~e.more PROVE Rest(all, m, 0)
      BY <1>1 DEF Entire
    <3>1. n + 1 = Size[m]
      BY <1>1, <1>2
    <3>2. Len(all) = n + 1 /\ \A j \in DOMAIN all : all[j].part = <<m, j>> /\ j \in Nat
      <4>1. all \in Seq(Parts)
        BY <1>7 DEF Pieces
      <4> QED
        BY <2>2, <4>1 DEF Begun
    <3> QED
      BY <3>1, <3>2 DEF Rest
  <2>4. Taking' <=> Taking
    BY <1>4 DEF Taking, Listening
  <2>5. \A k \in DOMAIN wire' : k > 1 \/ ~Taking => Entire(wire'[k])
    BY <1>5, <1>10, <1>11, <2>1, <2>3
  <2>6. Listening /\ s # <<>> => Divided(s, wire'[1])
    BY <1>5, <1>6, <1>10, <1>11, <2>1 DEF Listening
  <2>7. Sending' => Begun(under', msg', done')
    BY <1>1, <1>4, <1>5, <2>2 DEF Sending
  <2>8. sender' = "no" => under' = <<>>
    BY <1>4, <1>5 DEF Sending
  <2> QED
    BY <1>1, <1>4, <2>4, <2>5, <2>6, <2>7, <2>8 DEF Unmixed, Listening
<1> QED
  BY <1>4, <1>12, <1>13, <1>14, <1>15 DEF TransferInv

(* The receiver gets the next part of the message it is in. *)
LEMMA ComesOn ==
  ASSUME TransferTyped, TransferInv, PartComes
  PROVE  TransferTyped' /\ TransferInv'
<1>1. PICK w, s, t, b : /\ w = wire /\ s = inbox /\ t = Left(w) /\ b = w[1]
                        /\ w \in Seq(Pieces) /\ s \in Seq(Msgs \X Nat)
  BY DEF TransferTyped
<1>2. w # <<>> /\ AllClosing(w) /\ Listening /\ receiver # "gone" /\ AllMore(under)
  BY <1>1 DEF PartComes, Heard, Listening, TransferInv, Flagged
<1>3. /\ Head(w) = b /\ 1 \in DOMAIN w /\ b \in Pieces /\ Closing(b)
      /\ t \in Seq(Pieces) /\ AllClosing(t)
      /\ b[1].more => /\ DOMAIN t = DOMAIN w /\ t # <<>> /\ t[1] = Tail(b)
                      /\ \A k \in DOMAIN t : k > 1 => t[k] = w[k]
      /\ ~b[1].more => t = Tail(w)
  BY <1>1, <1>2, PartTaken
<1>4. First = b[1] /\ b[1] \in Parts
  BY <1>1, <1>3, FirstPart DEF First
<1>5. /\ inbox' = Append(s, b[1].part) /\ wire' = t
      /\ receiver' = IF b[1].more THEN receiver ELSE "no"
      /\ UNCHANGED <<signals, sender, msg, done, under>>
  BY <1>1, <1>4 DEF PartComes, StillMore, Left, senderVars
<1>6. Append(s, b[1].part) \in Seq(Msgs \X Nat) /\ Append(s, b[1].part) # <<>>
  <2>1. b[1].part \in Msgs \X Nat
    BY <1>4 DEF Parts
  <2> QED
    BY <1>1, <2>1
<1>7. TransferTyped'
  BY <1>3, <1>5, <1>6 DEF TransferTyped
<1>8. Flagged' /\ NeverStarves'
  BY <1>2, <1>3, <1>5 DEF Flagged, NeverStarves, Listening
<1>9. ASSUME ~signals PROVE Unmixed'
  <2>1. /\ Sending => Begun(under, msg, done)
        /\ sender = "no" => under = <<>>
        /\ \A k \in DOMAIN w : k > 1 \/ s = <<>> => Entire(w[k])
        /\ s # <<>> => Divided(s, b)
    BY <1>1, <1>2, <1>9 DEF TransferInv, Unmixed, Taking, Listening
  <2>2. PICK m \in Msgs : Front(s, m) /\ Rest(b, m, Len(s))
    <3>1. CASE s = <<>>
      <4>1. PICK m \in Msgs : Rest(b, m, 0)
        BY <1>1, <1>3, <2>1, <3>1 DEF Entire
      <4>2. Len(s) = 0 /\ Front(s, m)
        BY <3>1 DEF Front
      <4> QED
        BY <4>1, <4>2
    <3>2. CASE s # <<>>
      BY <2>1, <3>2 DEF Divided
    <3> QED
      BY <3>1, <3>2
  <2>3. PICK s2 : s2 = Append(s, b[1].part)
    OBVIOUS
  <2>4. Front(s2, m) /\ (b[1].more => Rest(Tail(b), m, Len(s2)))
    BY <1>1, <1>3, <2>2, <2>3, RestTaken
  <2>5. Sending' <=> Sending
    BY <1>5 DEF Sending
  <2>6. CASE b[1].more
    <3>1. Divided(s2, t[1])
      BY <1>3, <2>4, <2>6 DEF Divided
    <3>2. \A k \in DOMAIN t : k > 1 => Entire(t[k])
      BY <1>3, <2>1, <2>6
    <3>3. Taking' /\ receiver' = receiver
      BY <1>2, <1>5, <1>6, <2>6 DEF Taking, Listening
    <3> QED
      BY <1>5, <2>1, <2>3, <2>5, <3>1, <3>2, <3>3 DEF Unmixed
  <2>7. CASE ~b[1].more
    <3>1. \A k \in DOMAIN t : k + 1 \in DOMAIN w /\ k + 1 > 1 /\ t[k] = w[k + 1]
      <4>1. w \in Seq(Pieces) /\ w # <<>> /\ t = Tail(w)
        BY <1>1, <1>2, <1>3, <2>7
      <4> QED
        BY <4>1
    <3>2. \A k \in DOMAIN t : Entire(t[k])
      BY <2>1, <3>1
    <3>3. ~Listening' /\ receiver' = "no"
      BY <1>5, <2>7 DEF Listening
    <3> QED
      BY <1>2, <1>5, <2>1, <2>5, <3>2, <3>3 DEF Unmixed
  <2> QED
    BY <2>6, <2>7
<1> QED
  BY <1>5, <1>7, <1>8, <1>9 DEF TransferInv

(* No other step of the sender or the receiver moves a part. *)
LEMMA KeepsParts ==
  TransferTyped /\ TransferInv /\ [TransferNext]_transferVars => TransferTyped' /\ TransferInv'
<1> SUFFICES ASSUME TransferTyped, TransferInv, [TransferNext]_transferVars
             PROVE  TransferTyped' /\ TransferInv'
  OBVIOUS
<1>1. \A m \in Msgs : 0 < Size[m] /\ Size[m] \in Nat
  BY TransferAssumption
<1>2. /\ <<>> \in Pieces /\ <<>> \in Seq(Pieces) /\ <<>> \in Seq(Msgs \X Nat)
      /\ DOMAIN <<>> = {} /\ Len(<<>>) = 0 /\ AllMore(<<>>) /\ AllClosing(<<>>)
  BY DEF Pieces, AllMore, AllClosing
<1>3. \A m : Begun(<<>>, m, 0)
  BY <1>2 DEF Begun
<1>4. /\ Flagged /\ NeverStarves
      /\ ~signals => /\ Sending => Begun(under, msg, done)
                     /\ sender = "no" => under = <<>>
                     /\ \A k \in DOMAIN wire : k > 1 \/ ~Taking => Entire(wire[k])
                     /\ Listening /\ inbox # <<>> => Divided(inbox, wire[1])
  BY DEF TransferInv, Unmixed
<1>5. ASSUME NEW m \in Msgs, NEW by \in {"send", "parts"}, Begin(m, by)
      PROVE  TransferTyped' /\ TransferInv'
  <2>1. /\ sender = "no" /\ sender' = by /\ msg' = m /\ done' = 0
        /\ UNCHANGED <<signals, under, wire, receiver, inbox>>
    BY <1>5 DEF Begin, receiverVars
  <2>2. TransferTyped'
    BY <1>1, <2>1 DEF TransferTyped
  <2>3. Flagged' /\ NeverStarves' /\ (Taking' <=> Taking) /\ (Listening' <=> Listening)
    BY <1>4, <2>1 DEF Flagged, NeverStarves, Listening, Taking
  <2>4. ~signals => Unmixed'
    BY <1>3, <1>4, <2>1, <2>3 DEF Unmixed
  <2> QED
    BY <2>1, <2>2, <2>3, <2>4 DEF TransferInv
<1>6. CASE SendRefused \/ SendInterrupted \/ SendThrows \/ SenderCloses
  <2>1. UNCHANGED <<signals, msg, wire, receiver, inbox>>
    BY <1>6 DEF SendRefused, SendInterrupted, SendThrows, SenderCloses, receiverVars
  <2>2. /\ sender' \in {"no", "send", "over", "gone"} /\ done' \in Nat /\ done' < Size[msg]
        /\ under' \in {under, <<>>}
    <3>1. CASE SendRefused \/ SendThrows \/ SenderCloses
      BY <1>1, <3>1 DEF SendRefused, SendThrows, SenderCloses, TransferTyped
    <3>2. CASE SendInterrupted
      BY <1>1, <3>2 DEF SendInterrupted, Past, More, TransferTyped
    <3> QED
      BY <1>6, <3>1, <3>2
  <2>3. TransferTyped'
    BY <1>2, <2>1, <2>2 DEF TransferTyped
  <2>4. Flagged' /\ NeverStarves' /\ (Taking' <=> Taking) /\ (Listening' <=> Listening)
    BY <1>2, <1>4, <2>1, <2>2 DEF Flagged, NeverStarves, Listening, Taking
  <2>5. ASSUME ~signals PROVE Unmixed'
    <3>1. ~Sending'
      BY <1>6, <2>5 DEF SendRefused, SendInterrupted, SendThrows, SenderCloses, Sending
    <3>2. sender' = "no" => under' = under /\ Sending /\ done = 0
      BY <1>6, <2>5 DEF SendRefused, SendInterrupted, SendThrows, SenderCloses, Busy, Sending
    <3>3. sender' = "no" => under' = <<>>
      <4>1. Begun(under, msg, 0) => under = <<>>
        <5>1. under \in Seq(Parts)
          BY DEF TransferTyped, Pieces
        <5> QED
          BY <5>1 DEF Begun
      <4> QED
        BY <1>4, <2>5, <3>2, <4>1
    <3> QED
      BY <1>4, <2>1, <2>4, <2>5, <3>1, <3>3 DEF Unmixed
  <2> QED
    BY <2>1, <2>3, <2>4, <2>5 DEF TransferInv
<1>7. ASSUME NEW by \in {"receive", "parts", "again"}, Listen(by)
      PROVE  TransferTyped' /\ TransferInv'
  <2>1. /\ receiver = "no" /\ receiver' = by /\ inbox' = <<>>
        /\ UNCHANGED <<signals, sender, msg, done, under, wire>>
    BY <1>7 DEF Listen, senderVars
  <2>2. TransferTyped'
    BY <1>2, <2>1 DEF TransferTyped
  <2>3. Flagged' /\ NeverStarves' /\ ~Taking /\ (Sending' <=> Sending)
    BY <1>4, <2>1 DEF Flagged, NeverStarves, Listening, Taking, Sending
  <2>4. ~signals => Unmixed'
    BY <1>4, <2>1, <2>3 DEF Unmixed
  <2> QED
    BY <2>1, <2>2, <2>3, <2>4 DEF TransferInv
<1>8. CASE ReceiveRefused \/ ReceiveThrows
  <2>1. /\ Listening /\ receiver' \in {"no", "over"} /\ (receiver' = "no" => inbox = <<>>)
        /\ UNCHANGED <<signals, sender, msg, done, under, wire, inbox>>
    BY <1>8 DEF ReceiveRefused, ReceiveThrows, Heard, senderVars
  <2>2. TransferTyped'
    BY <2>1 DEF TransferTyped
  <2>3. Flagged' /\ NeverStarves' /\ (Taking => Taking') /\ ~Listening' /\ (Sending' <=> Sending)
    BY <1>4, <2>1 DEF Flagged, NeverStarves, Listening, Taking, Sending
  <2>4. ~signals => Unmixed'
    BY <1>4, <2>1, <2>3 DEF Unmixed, Listening
  <2> QED
    BY <2>1, <2>2, <2>3, <2>4 DEF TransferInv
<1>9. CASE ReceiverCloses
  <2>1. /\ receiver' = "gone" /\ wire' = <<>>
        /\ UNCHANGED <<signals, sender, msg, done, under, inbox>>
    BY <1>9 DEF ReceiverCloses, senderVars
  <2>2. TransferTyped'
    BY <1>2, <2>1 DEF TransferTyped
  <2>3. Flagged' /\ NeverStarves' /\ ~Listening' /\ (Sending' <=> Sending)
    BY <1>2, <1>4, <2>1 DEF Flagged, NeverStarves, Listening, Sending
  <2>4. ~signals => Unmixed'
    BY <1>2, <1>4, <2>1, <2>3 DEF Unmixed
  <2> QED
    BY <2>1, <2>2, <2>3, <2>4 DEF TransferInv
<1>10. ASSUME UNCHANGED <<signals, senderVars, wire, receiverVars>>
       PROVE  TransferTyped' /\ TransferInv'
  BY <1>4, <1>10 DEF TransferTyped, TransferInv, Flagged, NeverStarves, Unmixed, Taking,
                     Listening, Sending, senderVars, receiverVars
<1>11. CASE TerminateBegins \/ TerminateIsInterrupted \/ TerminateRepeats \/ TerminateComesBack
  BY <1>10, <1>11 DEF TerminateBegins, TerminateIsInterrupted, TerminateRepeats,
                      TerminateComesBack, Terminates
<1>12. ASSUME NEW side \in {"sender", "receiver"}, Stops(side)
       PROVE  TransferTyped' /\ TransferInv'
  BY <1>10, <1>12 DEF Stops
<1>13. CASE UNCHANGED transferVars
  BY <1>10, <1>13 DEF transferVars
<1> QED
  BY <1>5, <1>6, <1>7, <1>8, <1>9, <1>11, <1>12, <1>13, GoesOn, ComesOn DEF TransferNext

(* In every reachable state. *)
LEMMA TransferInvariant == TransferSpec => [](TransferTyped /\ TransferInv)
<1>1. TransferTyped /\ TransferInv /\ [TransferNext]_transferVars => (TransferTyped /\ TransferInv)'
  BY KeepsParts
<1> QED
  BY <1>1, TransferStarts, PTL DEF TransferSpec

(* The receiver never waits for a part of a message of which it has one:    *)
(* assert(EAGAIN != zmq_errno()), socket.cpp:251.                          *)
THEOREM SocketNeverStarves == TransferSpec => []NeverStarves
<1>1. TransferTyped /\ TransferInv => NeverStarves
  BY DEF TransferInv
<1> QED
  BY <1>1, TransferInvariant, PTL

(* The messages that the queue promises, *)
Firsts(w) == [k \in DOMAIN w |-> Head(w[k]).part[1]]
Waiting == Firsts(wire)
Got == IF receiver = "no" THEN inbox ELSE <<>>
Gone == receiver = "gone"

(* ... and what has to be shown of a step, in the terms of MessageQueue. *)
LEMMA QueueSteps ==
  /\ UNCHANGED <<Waiting, ack, Got, Gone>> => UNCHANGED Queue!qvars
  /\ ack' = "none" /\ UNCHANGED <<Waiting, Got, Gone>> => Queue!QNext
  /\ Got' = <<>> /\ UNCHANGED <<Waiting, ack, Gone>> => Queue!QNext
  /\ \A m \in Msgs :
       ack' = "true" /\ UNCHANGED <<Got, Gone>>
         /\ Waiting' = (IF Gone THEN <<>> ELSE Append(Waiting, m)) => Queue!QNext
  /\ ack' \in {"false", "throw"} /\ UNCHANGED <<Waiting, Got, Gone>> => Queue!QNext
  /\ Waiting # <<>> /\ Got' = [n \in 1..Size[Head(Waiting)] |-> <<Head(Waiting), n>>]
       /\ Waiting' = Tail(Waiting) /\ UNCHANGED <<ack, Gone>> => Queue!QNext
  /\ Gone' = TRUE /\ Waiting' = <<>> /\ Got' = <<>> /\ UNCHANGED ack => Queue!QNext
BY DEF Waiting, Firsts, Got, Gone, Queue!qvars, Queue!QNext, Queue!Asks, Queue!Listens, Queue!Puts,
       Queue!PutsNothing, Queue!Takes, Queue!Closes, Queue!Whole

(* A message that is sent goes to the end of the queue, *)
LEMMA QueuesLast ==
  ASSUME NEW w \in Seq(Pieces), NEW all \in Pieces, all # <<>>, NEW m, all[1].part = <<m, 1>>
  PROVE  Firsts(Append(w, all)) = Append(Firsts(w), m)
<1>1. PICK w2, q, q2 : w2 = Append(w, all) /\ q = Firsts(w) /\ q2 = Firsts(w2)
  OBVIOUS
<1>2. PICK l \in Nat : l = Len(w) /\ DOMAIN w = 1..l
  OBVIOUS
<1>3. /\ DOMAIN w2 = 1..(l + 1) /\ \A k \in 1..l : w2[k] = w[k]
      /\ w2[l + 1] = all
  BY <1>1, <1>2
<1>4. Head(all) = all[1]
  BY DEF Pieces
<1>5. /\ q = [k \in 1..l |-> Head(w[k]).part[1]]
      /\ q2 = [k \in 1..(l + 1) |-> Head(w2[k]).part[1]]
  BY <1>1, <1>2, <1>3 DEF Firsts
<1>6. q2[l + 1] = m /\ \A k \in 1..l : q2[k] = q[k]
  BY <1>3, <1>4, <1>5
<1>7. PICK S : S = {q[k] : k \in 1..l} \cup {m}
  OBVIOUS
<1>8. q \in Seq(S) /\ Len(q) = l /\ m \in S
  <2>1. q \in [1..l -> S] /\ m \in S
    BY <1>5, <1>7
  <2> QED
    BY <1>2, <2>1
<1>9. PICK r : r = Append(q, m)
  OBVIOUS
<1>10. /\ r \in Seq(S) /\ Len(r) = l + 1 /\ r[l + 1] = m
       /\ \A k \in 1..l : r[k] = q[k]
  BY <1>8, <1>9, AppendProperties
<1>11. r = [k \in 1..(l + 1) |-> r[k]]
  BY <1>2, <1>10
<1>12. \A k \in 1..(l + 1) : k = l + 1 \/ k \in 1..l
  BY <1>2
<1>13. \A k \in 1..(l + 1) : q2[k] = r[k]
  BY <1>6, <1>10, <1>12
<1>14. q2 = [k \in 1..(l + 1) |-> q2[k]]
  BY <1>5
<1>15. q2 = r
  BY <1>11, <1>13, <1>14
<1> QED
  BY <1>1, <1>9, <1>15

(* ... and one that is taken was its first. *)
LEMMA QueueTail ==
  ASSUME NEW w \in Seq(Pieces), w # <<>>
  PROVE  Firsts(w) # <<>> /\ Head(Firsts(w)) = Head(w[1]).part[1] /\ Firsts(Tail(w)) = Tail(Firsts(w))
<1>1. PICK w2, q, q2 : w2 = Tail(w) /\ q = Firsts(w) /\ q2 = Firsts(w2)
  OBVIOUS
<1>2. PICK l \in Nat : l = Len(w) /\ DOMAIN w = 1..l /\ l # 0
  OBVIOUS
<1>3. DOMAIN w2 = 1..(l - 1) /\ \A k \in 1..(l - 1) : w2[k] = w[k + 1]
  BY <1>1, <1>2
<1>4. /\ q = [k \in 1..l |-> Head(w[k]).part[1]]
      /\ q2 = [k \in 1..(l - 1) |-> Head(w2[k]).part[1]]
  BY <1>1, <1>2, <1>3 DEF Firsts
<1>5. \A k \in 1..(l - 1) : q2[k] = q[k + 1]
  BY <1>2, <1>3, <1>4
<1>s. PICK S : S = {q[k] : k \in 1..l}
  OBVIOUS
<1>6. q \in Seq(S) /\ Len(q) = l
  <2>1. q \in [1..l -> S]
    BY <1>4, <1>s
  <2> QED
    BY <1>2, <2>1
<1>n. q # <<>>
  BY <1>2, <1>6
<1>7. Tail(q) = [k \in 1..(l - 1) |-> q[k + 1]] /\ Head(q) = q[1] /\ q # <<>>
  <2>1. PICK v : v = Tail(q)
    OBVIOUS
  <2>2. v \in Seq(S) /\ Len(v) = l - 1 /\ \A k \in 1..(l - 1) : v[k] = q[k + 1]
    BY <1>6, <1>n, <2>1, HeadTailProperties
  <2>3. v = [k \in 1..(l - 1) |-> v[k]]
    BY <1>2, <2>2
  <2>4. Head(q) = q[1]
    BY <1>6, <1>n
  <2> QED
    BY <1>n, <2>1, <2>2, <2>3, <2>4
<1>8. q2 = [k \in 1..(l - 1) |-> q2[k]]
  BY <1>4
<1>9. q2 = Tail(q)
  BY <1>5, <1>7, <1>8
<1>10. q[1] = Head(w[1]).part[1]
  BY <1>2, <1>4
<1> QED
  BY <1>1, <1>7, <1>9, <1>10

(* Without signals the step that hands over a message's last part puts it   *)
(* into the queue, and every other part leaves the queue alone.            *)
LEMMA PartGoesWhole ==
  ASSUME TransferTyped, TransferInv, PartGoes, ~signals
  PROVE  Queue!QNext \/ UNCHANGED Queue!qvars
<1>1. PICK u, w, m, n : /\ u = under /\ w = wire /\ m = msg /\ n = done
                        /\ u \in Pieces /\ w \in Seq(Pieces) /\ m \in Msgs /\ n \in Nat
                        /\ AllMore(u)
  BY DEF TransferTyped, TransferInv, Flagged
<1>2. UNCHANGED <<receiver, inbox>> /\ Sending
  BY DEF PartGoes, Busy, receiverVars
<1>3. UNCHANGED <<Got, Gone>>
  BY <1>2 DEF Got, Gone
<1>4. CASE More
  <2>1. ack' = ack
    BY <1>4 DEF PartGoes, Past
  <2>2. wire' = wire
    <3>1. receiver = "gone" => wire = <<>>
      BY DEF TransferInv, Flagged
    <3>2. wire' = wire \/ (receiver = "gone" /\ wire' = <<>>)
      BY <1>4 DEF PartGoes, Accept
    <3> QED
      BY <3>1, <3>2
  <2>3. Waiting' = Waiting
    BY <2>2 DEF Waiting
  <2> QED
    BY <1>3, <2>1, <2>3, QueueSteps
<1>5. CASE ~More
  <2>1. ack' = "true"
    BY <1>5 DEF PartGoes, Past
  <2>2. CASE receiver = "gone"
    <3>1. wire' = <<>>
      BY <1>5, <2>2 DEF PartGoes, Accept
    <3>2. Waiting' = <<>> /\ Gone
      BY <2>2, <3>1 DEF Waiting, Firsts, Gone
    <3> QED
      BY <1>1, <1>3, <2>1, <3>2, QueueSteps
  <2>3. CASE receiver # "gone"
    <3>1. PICK e \in Parts : e = [part |-> <<m, n + 1>>, more |-> FALSE] /\ ~e.more
      <4>1. m \in Msgs /\ n + 1 \in Nat
        BY <1>1
      <4>2. [part |-> <<m, n + 1>>, more |-> FALSE] \in Parts
        BY <4>1 DEF Parts
      <4> QED
        BY <4>2
    <3>2. PICK all : all = Append(u, e)
      OBVIOUS
    <3>3. wire' = Append(w, all)
      <4>1. More = FALSE
        BY <1>5 DEF More
      <4>2. Append(under, [part |-> <<msg, done + 1>>, more |-> More]) = all
        BY <1>1, <3>1, <3>2, <4>1
      <4> QED
        BY <1>1, <1>5, <2>3, <4>2 DEF PartGoes, Accept
    <3>4. /\ all \in Pieces /\ Closing(all) /\ Len(all) = Len(u) + 1
          /\ \A j \in DOMAIN all : all[j] = IF j = Len(u) + 1 THEN e ELSE u[j]
      <4>1. u \in Pieces /\ AllMore(u) /\ e \in Parts /\ ~e.more
        BY <1>1, <3>1
      <4>2. all \in Pieces /\ Closing(all)
        BY <3>2, <4>1, PartEnds
      <4>3. u \in Seq(Parts)
        BY <4>1 DEF Pieces
      <4>4. /\ Len(all) = Len(u) + 1
            /\ \A j \in DOMAIN all : all[j] = IF j = Len(u) + 1 THEN e ELSE u[j]
        BY <3>1, <3>2, <4>3
      <4> QED
        BY <4>2, <4>4
    <3>5. Begun(u, m, n)
      BY <1>1, <1>2, <2>3 DEF TransferInv, Unmixed
    <3>6. all[1].part = <<m, 1>> /\ all # <<>>
      <4>1. 1 \in DOMAIN all /\ all # <<>>
        BY <3>4, FirstPart
      <4>2. Len(u) = n /\ (1 # n + 1 => 1 \in DOMAIN u)
        <5>1. u \in Seq(Parts) /\ Len(u) = n
          BY <1>1, <3>5 DEF Begun, Pieces
        <5> QED
          BY <1>1, <5>1
      <4>3. 1 \in DOMAIN u => u[1].part = <<m, 1>>
        BY <3>5 DEF Begun
      <4>4. CASE n = 0
        <5>1. all[1] = e
          BY <3>4, <4>1, <4>2, <4>4
        <5> QED
          BY <3>1, <4>1, <4>4, <5>1
      <4>5. CASE n # 0
        <5>1. 1 # n + 1
          BY <1>1, <4>5
        <5>2. all[1] = u[1]
          BY <3>4, <4>1, <4>2, <5>1
        <5> QED
          BY <4>1, <4>2, <4>3, <5>1, <5>2
      <4> QED
        BY <4>4, <4>5
    <3>7. Firsts(Append(w, all)) = Append(Firsts(w), m)
      BY <1>1, <3>4, <3>6, QueuesLast
    <3>8. Waiting = Firsts(w) /\ Waiting' = Firsts(Append(w, all))
      BY <1>1, <3>3 DEF Waiting
    <3>9. Waiting' = Append(Waiting, m) /\ ~Gone
      BY <2>3, <3>7, <3>8 DEF Gone
    <3> QED
      BY <1>1, <1>3, <2>1, <3>9, QueueSteps
  <2> QED
    BY <2>2, <2>3
<1> QED
  BY <1>4, <1>5

(* Without signals the receiver's call is through when it has the whole     *)
(* message that was the queue's first.                                     *)
LEMMA PartComesWhole ==
  ASSUME TransferTyped, TransferInv, PartComes, ~signals
  PROVE  Queue!QNext \/ UNCHANGED Queue!qvars
<1>1. PICK w, s, t, b : /\ w = wire /\ s = inbox /\ t = Left(w) /\ b = w[1]
                        /\ w \in Seq(Pieces) /\ s \in Seq(Msgs \X Nat)
  BY DEF TransferTyped
<1>2. w # <<>> /\ AllClosing(w) /\ Listening
  BY <1>1 DEF PartComes, Heard, TransferInv, Flagged
<1>3. /\ Head(w) = b /\ 1 \in DOMAIN w /\ b \in Pieces /\ Closing(b)
      /\ b[1].more => /\ DOMAIN t = DOMAIN w /\ t # <<>> /\ t[1] = Tail(b)
                      /\ \A k \in DOMAIN t : k > 1 => t[k] = w[k]
      /\ ~b[1].more => t = Tail(w) /\ Len(b) = 1
  BY <1>1, <1>2, PartTaken
<1>4. First = b[1] /\ Head(b) = b[1] /\ b[1] \in Parts /\ b \in Seq(Parts)
  BY <1>1, <1>3, FirstPart DEF First, Pieces
<1>5. /\ inbox' = Append(s, b[1].part) /\ wire' = t /\ ack' = ack
      /\ receiver' = IF b[1].more THEN receiver ELSE "no"
  BY <1>1, <1>4 DEF PartComes, StillMore, Left, senderVars
<1>6. Got = <<>> /\ UNCHANGED Gone
  BY <1>2, <1>5 DEF Got, Gone, Listening
<1>7. PICK m \in Msgs : Front(s, m) /\ Rest(b, m, Len(s))
  <2>1. /\ \A k \in DOMAIN w : k > 1 \/ s = <<>> => Entire(w[k])
        /\ s # <<>> => Divided(s, b)
    BY <1>1, <1>2 DEF TransferInv, Unmixed, Taking, Listening
  <2>2. CASE s = <<>>
    <3>1. PICK m \in Msgs : Rest(b, m, 0)
      BY <1>1, <1>3, <2>1, <2>2 DEF Entire
    <3>2. Len(s) = 0 /\ Front(s, m)
      BY <2>2 DEF Front
    <3> QED
      BY <3>1, <3>2
  <2>3. CASE s # <<>>
    BY <2>1, <2>3 DEF Divided
  <2> QED
    BY <2>2, <2>3
<1>8. \A j \in DOMAIN b : b[j].part[1] = m
  BY <1>7 DEF Rest
<1>9. CASE b[1].more
  <2>1. Got' = <<>>
    BY <1>2, <1>5, <1>9 DEF Got, Listening
  <2>2. Head(t[1]).part[1] = m /\ Head(w[1]).part[1] = m
    <3>1. Closing(Tail(b)) /\ Tail(b) \in Pieces
      BY <1>3, <1>9, FirstPart
    <3>2. Head(Tail(b)) = b[2] /\ 2 \in DOMAIN b /\ 1 \in DOMAIN b
      <4>1. Tail(b) # <<>> /\ b # <<>> /\ b \in Seq(Parts)
        BY <1>3, <1>4, <3>1 DEF Closing
      <4> QED
        BY <4>1
    <3>3. t[1] = Tail(b) /\ w[1] = b
      BY <1>1, <1>3, <1>9
    <3>4. b[1].part[1] = m /\ b[2].part[1] = m
      BY <1>8, <3>2
    <3> QED
      BY <1>4, <3>2, <3>3, <3>4
  <2>3. \A k \in DOMAIN w : k = 1 \/ k > 1
    BY <1>1
  <2>4. \A k \in DOMAIN w : Head(t[k]).part[1] = Head(w[k]).part[1]
    BY <1>3, <1>9, <2>2, <2>3
  <2>5. Waiting' = Waiting
    BY <1>1, <1>3, <1>5, <1>9, <2>4 DEF Waiting, Firsts
  <2> QED
    BY <1>5, <1>6, <2>1, <2>5, QueueSteps
<1>10. CASE ~b[1].more
  <2>1. PICK s2 : s2 = Append(s, b[1].part)
    OBVIOUS
  <2>2. s2 \in Seq(Msgs \X Nat) /\ Front(s2, m) /\ Len(s2) = Size[m]
    <3>1. /\ b \in Pieces /\ Closing(b) /\ s \in Seq(Msgs \X Nat) /\ m \in Msgs
          /\ Front(s, m) /\ Rest(b, m, Len(s))
      BY <1>1, <1>3, <1>7
    <3>2. Front(s2, m)
      BY <2>1, <3>1, RestTaken
    <3>3. s2 \in Seq(Msgs \X Nat)
      BY <2>1, <3>1, RestTaken
    <3>4. Len(s2) = Size[m]
      <4>1. Len(s) + Len(b) = Size[m] /\ Len(b) = 1
        BY <1>3, <1>10, <3>1 DEF Rest
      <4>2. Len(s2) = Len(s) + 1
        BY <2>1, <3>3, RestTaken, <3>1
      <4> QED
        BY <4>1, <4>2
    <3> QED
      BY <3>2, <3>3, <3>4
  <2>3. s2 = [n \in 1..Size[m] |-> <<m, n>>]
    BY <2>2 DEF Front
  <2>4. Got' = s2
    BY <1>5, <1>10, <2>1 DEF Got
  <2>5. /\ Firsts(w) # <<>> /\ Head(Firsts(w)) = Head(w[1]).part[1]
        /\ Firsts(Tail(w)) = Tail(Firsts(w))
    BY <1>1, <1>2, QueueTail
  <2>6. Waiting = Firsts(w) /\ Waiting' = Firsts(Tail(w))
    BY <1>1, <1>3, <1>5, <1>10 DEF Waiting
  <2>7. Head(Firsts(w)) = m
    <3>1. 1 \in DOMAIN b
      BY <1>3, FirstPart
    <3> QED
      BY <1>1, <1>4, <1>8, <2>5, <3>1
  <2> QED
    BY <1>5, <1>6, <2>3, <2>4, <2>5, <2>6, <2>7, QueueSteps
<1> QED
  BY <1>9, <1>10

(* socket.cpp:187-189 and message.hpp:40: without signals every send puts a *)
(* whole message into the queue and says so, or nothing, and every receive *)
(* gives the oldest message whole, with its parts in order.                *)
THEOREM SocketDeliversWhole == TransferSpec => DeliversWholeUninterrupted
<1>1. ASSUME TransferTyped, TransferInv, [TransferNext]_transferVars, ~signals
      PROVE  Queue!QNext \/ UNCHANGED Queue!qvars
  <2>1. ASSUME NEW m \in Msgs, NEW by \in {"send", "parts"}, Begin(m, by)
        PROVE  Queue!QNext
    <3>1. ack' = "none" /\ UNCHANGED <<Waiting, Got, Gone>>
      BY <2>1 DEF Begin, Waiting, Got, Gone, receiverVars
    <3> QED
      BY <3>1, QueueSteps
  <2>2. CASE SendRefused \/ SendThrows
    <3>1. ack' \in {"false", "throw"} /\ UNCHANGED <<Waiting, Got, Gone>>
      BY <2>2 DEF SendRefused, SendThrows, Waiting, Got, Gone, receiverVars
    <3> QED
      BY <3>1, QueueSteps
  <2>3. ~SendInterrupted
    BY <1>1 DEF SendInterrupted
  <2>4. ASSUME NEW by \in {"receive", "parts", "again"}, Listen(by)
        PROVE  Queue!QNext
    <3>1. Got' = <<>> /\ UNCHANGED <<Waiting, ack, Gone>>
      BY <2>4 DEF Listen, Waiting, Got, Gone, senderVars
    <3> QED
      BY <3>1, QueueSteps
  <2>5. CASE ReceiveRefused \/ ReceiveThrows
    <3>1. UNCHANGED <<Waiting, ack, Got, Gone>>
      BY <2>5 DEF ReceiveRefused, ReceiveThrows, Heard, Listening, Waiting, Got, Gone, senderVars
    <3> QED
      BY <3>1, QueueSteps
  <2>6. CASE ReceiverCloses
    <3>1. Gone' = TRUE /\ Waiting' = <<>> /\ Got' = <<>> /\ UNCHANGED ack
      BY <2>6 DEF ReceiverCloses, Waiting, Firsts, Got, Gone, senderVars
    <3> QED
      BY <3>1, QueueSteps
  <2>7. ASSUME UNCHANGED <<ack, wire, receiverVars>> PROVE UNCHANGED Queue!qvars
    <3>1. UNCHANGED <<Waiting, ack, Got, Gone>>
      BY <2>7 DEF Waiting, Got, Gone, receiverVars
    <3> QED
      BY <3>1, QueueSteps
  <2>8. SenderCloses \/ TerminateBegins \/ TerminateIsInterrupted \/ TerminateRepeats
          \/ TerminateComesBack \/ (\E side \in {"sender", "receiver"} : Stops(side))
          \/ UNCHANGED transferVars => UNCHANGED <<ack, wire, receiverVars>>
    BY DEF SenderCloses, TerminateBegins, TerminateIsInterrupted, TerminateRepeats,
           TerminateComesBack, Terminates, Stops, transferVars, senderVars
  <2> QED
    BY <1>1, <2>1, <2>2, <2>3, <2>4, <2>5, <2>6, <2>7, <2>8, PartGoesWhole, PartComesWhole
    DEF TransferNext
<1>2. TransferTyped /\ TransferInv /\ [TransferNext]_transferVars =>
        [~signals => Queue!QNext \/ UNCHANGED Queue!qvars]_transferVars
  BY <1>1
<1> QED
  BY <1>2, TransferInvariant, PTL DEF TransferSpec, DeliversWholeUninterrupted
===============================================================================
