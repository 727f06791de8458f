--------------------------- MODULE DispatchProofs ---------------------------
(***************************************************************************)
(* The registry's cache, and what becomes of a routed message, for any     *)
(* apps, handlers, messages, registrations, failures and lost connections. *)
(***************************************************************************)
EXTENDS Dispatch, TLAPS

-----------------------------------------------------------------------------
(* Sequences.                                                              *)

\* A sequence is a function on an interval.
LEMMA SeqShape ==
  ASSUME NEW S, NEW s \in Seq(S)
  PROVE  Len(s) \in Nat /\ DOMAIN s = 1..Len(s)
OBVIOUS

\* The elements of two sequences one behind the other.
LEMMA ConcatShape ==
  ASSUME NEW S, NEW s \in Seq(S), NEW t \in Seq(S)
  PROVE  /\ s \o t \in Seq(S) /\ DOMAIN (s \o t) = 1..(Len(s) + Len(t))
         /\ \A i \in 1..(Len(s) + Len(t)) :
              (s \o t)[i] = IF i <= Len(s) THEN s[i] ELSE t[i - Len(s)]
OBVIOUS

\* The elements of a sequence with one more at the end.
LEMMA AppendShape ==
  ASSUME NEW S, NEW s \in Seq(S), NEW x \in S
  PROVE  /\ Append(s, x) \in Seq(S) /\ Len(Append(s, x)) = Len(s) + 1
         /\ \A i \in 1..Len(s) : Append(s, x)[i] = s[i]
         /\ Append(s, x)[Len(s) + 1] = x
OBVIOUS

\* Sequences with the same elements are the same.
LEMMA SameSeq ==
  ASSUME NEW S, NEW s \in Seq(S), NEW t \in Seq(S),
         Len(s) = Len(t), \A i \in 1..Len(s) : s[i] = t[i]
  PROVE  s = t
OBVIOUS

-----------------------------------------------------------------------------
(* The registry.                                                           *)

\* The registry has a map of handlers and a cache for every kind.
RegistryInv ==
  /\ handlers \in [Apps -> [Kinds -> SUBSET Seq(Segments)]]
  /\ cache = [a \in Apps |-> [k \in Kinds |-> cache[a][k]]]

\* Which app and kind a step of the registry is for.
OthersKept(a0, k0) ==
  \A a \in Apps, k \in Kinds :
    a # a0 \/ k # k0 => handlers'[a][k] = handlers[a][k] /\ cache'[a][k] = cache[a][k]

\* A registration adds its name and empties the cache of its kind.
LEMMA ListenStep ==
  ASSUME RegistryInv, NEW a0 \in Apps, NEW k0 \in Kinds, NEW name \in Seq(Segments),
         Listen(a0, k0, name)
  PROVE  /\ RegistryInv' /\ OthersKept(a0, k0)
         /\ cache'[a0][k0] = NoCache /\ handlers'[a0][k0] = handlers[a0][k0] \cup {name}
<1>1. /\ handlers' \in [Apps -> [Kinds -> SUBSET Seq(Segments)]]
      /\ handlers'[a0][k0] = handlers[a0][k0] \cup {name}
      /\ \A a \in Apps, k \in Kinds : a # a0 \/ k # k0 => handlers'[a][k] = handlers[a][k]
  BY DEF RegistryInv, Listen
<1>2. /\ cache' = [a \in Apps |-> [k \in Kinds |-> cache'[a][k]]]
      /\ cache'[a0][k0] = NoCache
      /\ \A a \in Apps, k \in Kinds : a # a0 \/ k # k0 => cache'[a][k] = cache[a][k]
  <2>1. cache' = [cache EXCEPT ![a0][k0] = NoCache]
    BY Zenon DEF Listen
  <2>2. cache = [a \in Apps |-> [k \in Kinds |-> cache[a][k]]]
    BY Zenon DEF RegistryInv
  <2> QED
    BY <2>1, <2>2, Zenon
<1> QED
  BY <1>1, <1>2, Zenon DEF RegistryInv, OthersKept

\* A lookup adds at most one resolution, the one it found, to the cache.
LEMMA ResolveStep ==
  ASSUME RegistryInv, NEW a0 \in Apps, NEW k0 \in Kinds, NEW name, NEW found,
         UNCHANGED handlers, CacheResolution(a0, k0, name, found)
  PROVE  /\ RegistryInv' /\ OthersKept(a0, k0)
         /\ \/ cache' = cache
            \/ /\ Lookup(a0, k0, name) = {}
               /\ cache'[a0][k0] = [n \in DOMAIN cache[a0][k0] \cup {name} |->
                                      IF n = name THEN found ELSE cache[a0][k0][n]]
<1>1. CASE cache' = cache
  BY <1>1, Zenon DEF RegistryInv, OthersKept
<1>2. CASE Lookup(a0, k0, name) = {}
  <2> DEFINE new == [n \in DOMAIN cache[a0][k0] \cup {name} |->
                       IF n = name THEN found ELSE cache[a0][k0][n]]
  <2>1. cache' = [cache EXCEPT ![a0][k0] = new]
    BY <1>2, Zenon DEF CacheResolution
  <2> HIDE DEF new
  <2>2. /\ cache' = [a \in Apps |-> [k \in Kinds |-> cache'[a][k]]]
        /\ cache'[a0][k0] = new
        /\ \A a \in Apps, k \in Kinds : a # a0 \/ k # k0 => cache'[a][k] = cache[a][k]
    BY <2>1, Zenon DEF RegistryInv
  <2> QED
    BY <1>2, <2>2, Zenon DEF RegistryInv, OthersKept, new
<1> QED
  BY <1>1, <1>2, Zenon DEF CacheResolution

\* Every step of the system leaves the registry alone or is one of the two.
LEMMA RegistryMoves ==
  ASSUME scenario \in Scenarios, [Next]_vars
  PROVE  \/ UNCHANGED <<handlers, cache>>
         \/ \E a \in Apps, k \in Kinds, name \in Seq(Segments) : Listen(a, k, name)
         \/ UNCHANGED handlers /\ \E a \in Apps, k \in Kinds : \E name :
              \E found \in LookupLocked(a, k, name) : CacheResolution(a, k, name, found)
<1>1. CASE \E h \in scenario.late : Register(h[1], h[2], h[3])
  <2>1. PICK h \in scenario.late : Register(h[1], h[2], h[3])
    BY <1>1
  <2>2. h[1] \in Apps /\ h[2] \in Kinds /\ h[3] \in Seq(Segments)
    BY DispatchAssumption
  <2> QED
    BY <2>1, <2>2, Zenon DEF Register
<1>2. CASE \E l \in Listeners : resolve(l)
  <2>1. PICK l \in Listeners : resolve(l)
    BY <1>2
  <2>2. l[1] \in Apps /\ l[2] \in Kinds
    BY DEF Listeners
  <2> QED
    BY <2>1, <2>2, Zenon DEF resolve
<1>3. CASE \E l \in Listeners : dispatch(l) \/ Handled(l) \/ Failed(l)
  BY <1>3, Zenon DEF dispatch, Handled, Failed, registryVars
<1>4. CASE \E a \in Apps : Start(a) \/ Declare(a) \/ startListeners(a) \/ Drop(a)
  BY <1>4, Zenon DEF Start, Declare, startListeners, Drop, registryVars
<1>5. CASE \E msg \in Messages : \/ \E isBroken \in BOOLEAN : Emit(msg, isBroken)
                                 \/ \E q \in Queues : Expire(msg, q)
                                 \/ \E l \in Listeners : Deliver(l, msg)
  BY <1>5, Zenon DEF Emit, Expire, Deliver, registryVars
<1>6. CASE UNCHANGED vars
  BY <1>6, Zenon DEF vars, registryVars
<1> QED
  BY <1>1, <1>2, <1>3, <1>4, <1>5, <1>6, Zenon DEF Next

\* What cannot change, and what a registry step needs of it.
ConfigInv == scenario \in Scenarios /\ withDLQRetry \in BOOLEAN

\* The configuration is read once.
LEMMA ConfigFixed ==
  ASSUME [Next]_vars
  PROVE  UNCHANGED <<withDLQRetry, scenario>>
<1>1. CASE \E h \in scenario.late : Register(h[1], h[2], h[3])
  BY <1>1, Zenon DEF Register, config
<1>2. CASE \E l \in Listeners : dispatch(l) \/ resolve(l) \/ Handled(l) \/ Failed(l)
  BY <1>2, Zenon DEF dispatch, resolve, Handled, Failed, config
<1>3. CASE \E a \in Apps : Start(a) \/ Declare(a) \/ startListeners(a) \/ Drop(a)
  BY <1>3, Zenon DEF Start, Declare, startListeners, Drop, config
<1>4. CASE \E msg \in Messages : \/ \E isBroken \in BOOLEAN : Emit(msg, isBroken)
                                 \/ \E q \in Queues : Expire(msg, q)
                                 \/ \E l \in Listeners : Deliver(l, msg)
  BY <1>4, Zenon DEF Emit, Expire, Deliver, config
<1>5. CASE UNCHANGED vars
  BY <1>5, Zenon DEF vars, config
<1> QED
  BY <1>1, <1>2, <1>3, <1>4, <1>5, Zenon DEF Next

\* The registry keeps its shape and its cache stays coherent.
LEMMA RegistryStep ==
  ASSUME ConfigInv, RegistryInv, CacheCoherent, [Next]_vars
  PROVE  RegistryInv' /\ CacheCoherent'
<1>1. CASE UNCHANGED <<handlers, cache>>
  BY <1>1, Zenon DEF RegistryInv, CacheCoherent
<1>2. CASE \E a \in Apps, k \in Kinds, name \in Seq(Segments) : Listen(a, k, name)
  <2>1. PICK a0 \in Apps, k0 \in Kinds, name \in Seq(Segments) : Listen(a0, k0, name)
    BY <1>2
  <2>2. RegistryInv' /\ OthersKept(a0, k0) /\ cache'[a0][k0] = NoCache
    BY <2>1, ListenStep
  <2>3. DOMAIN NoCache = {}
    BY DEF NoCache
  <2> QED
    BY <2>2, <2>3, Zenon DEF OthersKept, CacheCoherent
<1>3. CASE UNCHANGED handlers /\ \E a \in Apps, k \in Kinds : \E name :
             \E found \in LookupLocked(a, k, name) : CacheResolution(a, k, name, found)
  <2>0. PICK a0 \in Apps, k0 \in Kinds : \E name :
               \E found \in LookupLocked(a0, k0, name) : CacheResolution(a0, k0, name, found)
    BY <1>3
  <2>1. PICK name :
               \E found \in LookupLocked(a0, k0, name) : CacheResolution(a0, k0, name, found)
    BY <2>0
  <2>2. PICK found \in LookupLocked(a0, k0, name) : CacheResolution(a0, k0, name, found)
    BY <2>1
  <2>3. /\ RegistryInv' /\ OthersKept(a0, k0)
        /\ \/ cache' = cache
           \/ /\ Lookup(a0, k0, name) = {}
              /\ cache'[a0][k0] = [n \in DOMAIN cache[a0][k0] \cup {name} |->
                                     IF n = name THEN found ELSE cache[a0][k0][n]]
    BY <1>3, <2>2, ResolveStep
  <2> SUFFICES CacheCoherent'
    BY <2>3
  <2>4. CASE cache' = cache
    BY <1>3, <2>4, Zenon DEF CacheCoherent
  <2>5. CASE /\ Lookup(a0, k0, name) = {}
             /\ cache'[a0][k0] = [n \in DOMAIN cache[a0][k0] \cup {name} |->
                                    IF n = name THEN found ELSE cache[a0][k0][n]]
    <3>1. found \in resolvePattern(name, handlers[a0][k0])
      BY <2>2, <2>5, Zenon DEF LookupLocked
    <3>2. \A n \in DOMAIN cache'[a0][k0] :
            \/ n = name /\ cache'[a0][k0][n] = found
            \/ n \in DOMAIN cache[a0][k0] /\ cache'[a0][k0][n] = cache[a0][k0][n]
      BY <2>5, Zenon
    <3>3. \A n \in DOMAIN cache'[a0][k0] :
            cache'[a0][k0][n] \in resolvePattern(n, handlers[a0][k0])
      BY <3>1, <3>2, Zenon DEF CacheCoherent
    <3>4. \A a \in Apps, k \in Kinds :
            a # a0 \/ k # k0 => handlers'[a][k] = handlers[a][k] /\ cache'[a][k] = cache[a][k]
      BY <2>3, Zenon DEF OthersKept
    <3>5. handlers' = handlers
      BY <1>3
    <3> SUFFICES ASSUME NEW a \in Apps, NEW k \in Kinds, NEW n \in DOMAIN cache'[a][k]
                 PROVE  cache'[a][k][n] \in resolvePattern(n, handlers[a][k])
      BY <3>5, Zenon DEF CacheCoherent
    <3>6. CASE a = a0 /\ k = k0
      BY <3>3, <3>6, Zenon
    <3>7. CASE a # a0 \/ k # k0
      <4>1. cache'[a][k] = cache[a][k]
        BY <3>4, <3>7, Zenon
      <4> QED
        BY <4>1, Zenon DEF CacheCoherent
    <3> QED
      BY <3>6, <3>7, Zenon
  <2> QED
    BY <2>3, <2>4, <2>5
<1> QED
  BY <1>1, <1>2, <1>3, RegistryMoves, Zenon DEF ConfigInv

\* The apps start with the handlers registered so far and nothing cached.
LEMMA RegistryInit == ASSUME Init PROVE ConfigInv /\ RegistryInv /\ CacheCoherent
<1>1. cache = [a \in Apps |-> [k \in Kinds |-> NoCache]]
  BY Zenon DEF Init
<1>2. DOMAIN NoCache = {}
  BY DEF NoCache
<1>3. CacheCoherent
  BY <1>1, <1>2, Zenon DEF CacheCoherent
<1>4. handlers = Handlers
  BY Zenon DEF Init
<1>5. RegistryInv
  BY <1>1, <1>4, DispatchAssumption, Zenon DEF RegistryInv
<1> QED
  BY <1>3, <1>5, Zenon DEF Init, ConfigInv

\* A cached resolution of registry.go is one the handlers registered now give,
\* whatever is registered while messages are dispatched.
THEOREM CacheIsCoherent == Spec => []CacheCoherent
<1> DEFINE Inv == ConfigInv /\ RegistryInv /\ CacheCoherent
<1>1. Init => Inv
  BY RegistryInit
<1>2. Inv /\ [Next]_vars => Inv'
  <2>1. ASSUME Inv, [Next]_vars PROVE ConfigInv'
    BY <2>1, ConfigFixed, Zenon DEF ConfigInv
  <2> QED
    BY <2>1, RegistryStep
<1> QED
  BY <1>1, <1>2, PTL DEF Spec
-----------------------------------------------------------------------------
(* The topology.                                                           *)

\* Listeners with a durable queue, and the exchanges and keys of their queues.
DurableListeners == {l \in Listeners : l[2] # "notification"}
Direct(l) == l[2] \in {"command", "query"}
SourceExchange(l) == IF Direct(l) THEN DirectMessages ELSE DomainEvents
DLQExchange(l) == IF Direct(l) THEN DirectDLQExchange ELSE EventsDLQExchange(l[1])
DLQKey(l) == IF Direct(l) THEN queue(l) ELSE <<Hash>>
RetryExchange(l) == IF Direct(l) THEN DirectMessages ELSE EventsRetryExchange(l[1])

\* The DLQ suffix on a name of one part.
LEMMA AppendToOne == ASSUME NEW x, NEW y PROVE Append(<<x>>, y) = <<x, y>>
<1> DEFINE S == {x, y}
<1>1. /\ <<x>> \in Seq(S) /\ y \in S /\ Len(<<x>>) = 1
      /\ <<x, y>> \in Seq(S) /\ Len(<<x, y>>) = 2
  OBVIOUS
<1> HIDE DEF S
<1>2. Append(<<x>>, y) \in Seq(S) /\ Len(Append(<<x>>, y)) = 2
  BY <1>1, AppendShape
<1>3. \A i \in 1..2 : Append(<<x>>, y)[i] = <<x, y>>[i]
  BY <1>1, AppendShape
<1> QED
  BY <1>1, <1>2, <1>3, SameSeq, Zenon

\* The DLQ suffix on a name of two parts.
LEMMA AppendToPair == ASSUME NEW x, NEW y, NEW z PROVE Append(<<x, y>>, z) = <<x, y, z>>
<1> DEFINE S == {x, y, z}
<1>1. /\ <<x, y>> \in Seq(S) /\ z \in S /\ Len(<<x, y>>) = 2
      /\ <<x, y, z>> \in Seq(S) /\ Len(<<x, y, z>>) = 3
  OBVIOUS
<1> HIDE DEF S
<1>2. Append(<<x, y>>, z) \in Seq(S) /\ Len(Append(<<x, y>>, z)) = 3
  BY <1>1, AppendShape
<1>3. \A i \in 1..3 : Append(<<x, y>>, z)[i] = <<x, y, z>>[i]
  BY <1>1, AppendShape
<1> QED
  BY <1>1, <1>2, <1>3, SameSeq, Zenon

\* The names of an app's queues and of their DLQs.
LEMMA NamesOf ==
  ASSUME NEW a
  PROVE  /\ QueueOf(a, "event") = <<a, "subsEvents">>
         /\ QueueOf(a, "command") = <<a>>
         /\ QueueOf(a, "query") = <<a, "query">>
         /\ QueueOf(a, "notification") = <<a, "notification">>
         /\ DLQ(QueueOf(a, "event")) = <<a, "subsEvents", "DLQ">>
         /\ DLQ(QueueOf(a, "command")) = <<a, "DLQ">>
         /\ DLQ(QueueOf(a, "query")) = <<a, "query", "DLQ">>
         /\ DLQ(QueueOf(a, "notification")) = <<a, "notification", "DLQ">>
<1>1. /\ QueueOf(a, "event") = <<a, "subsEvents">>
      /\ QueueOf(a, "command") = <<a>>
      /\ QueueOf(a, "query") = <<a, "query">>
      /\ QueueOf(a, "notification") = <<a, "notification">>
  BY DEF QueueOf
<1>2. /\ Append(<<a, "subsEvents">>, "DLQ") = <<a, "subsEvents", "DLQ">>
      /\ Append(<<a>>, "DLQ") = <<a, "DLQ">>
      /\ Append(<<a, "query">>, "DLQ") = <<a, "query", "DLQ">>
      /\ Append(<<a, "notification">>, "DLQ") = <<a, "notification", "DLQ">>
  BY AppendToPair, AppendToOne, Zenon
<1> QED
  BY <1>1, <1>2, Zenon DEF DLQ

\* Queues of different listeners, their DLQs and the temporary queues differ.
LEMMA QueueNames ==
  ASSUME NEW l \in Listeners, NEW o \in Listeners
  PROVE  /\ queue(l) = queue(o) => l = o
         /\ DLQ(queue(l)) = DLQ(queue(o)) => l = o
         /\ queue(l) # DLQ(queue(o))
<1>1. PICK a \in Apps, k \in Kinds : l = <<a, k>>
  BY DEF Listeners
<1>2. PICK b \in Apps, j \in Kinds : o = <<b, j>>
  BY DEF Listeners
<1>3. queue(l) = QueueOf(a, k) /\ queue(o) = QueueOf(b, j)
  BY <1>1, <1>2 DEF queue
<1>4. QueueOf(a, k) = QueueOf(b, j) => a = b /\ k = j
  BY NamesOf DEF Kinds
<1>5. DLQ(QueueOf(a, k)) = DLQ(QueueOf(b, j)) => a = b /\ k = j
  BY NamesOf DEF Kinds
<1>6. QueueOf(a, k) # DLQ(QueueOf(b, j))
  BY NamesOf DEF Kinds
<1> QED
  BY <1>1, <1>2, <1>3, <1>4, <1>5, <1>6, Zenon

\* An app's temporary queues are none of the durable ones nor their DLQs.
LEMMA DurableNames ==
  ASSUME NEW l \in DurableListeners, NEW a \in Apps
  PROVE  queue(l) \notin TempQueues(a) /\ DLQ(queue(l)) \notin TempQueues(a)
<1>1. PICK b \in Apps, j \in Kinds : l = <<b, j>> /\ j # "notification"
  BY DEF DurableListeners, Listeners
<1>2. queue(l) = QueueOf(b, j)
  BY <1>1 DEF queue
<1>3. QueueOf(b, j) \notin TempQueues(a)
  BY <1>1, NamesOf DEF Kinds, TempQueues, ReplyQueue
<1>4. DLQ(QueueOf(b, j)) \notin TempQueues(a)
  BY <1>1, NamesOf DEF Kinds, TempQueues, ReplyQueue
<1> QED
  BY <1>2, <1>3, <1>4

\* What is declared for a durable queue before messages can reach it, and the
\* bindings they reach it by.
RetryDecls(l) ==
  {Queue(DLQ(queue(l)), RetryExchange(l)), Bind(DLQ(queue(l)), DLQExchange(l), DLQKey(l))}
  \cup IF Direct(l) THEN {} ELSE {Bind(queue(l), RetryExchange(l), <<Hash>>)}
Wiring(l) ==
  {Queue(queue(l), DeadLetterTo(DLQExchange(l)))} \cup IF withDLQRetry THEN RetryDecls(l) ELSE {}
SourceBinds(l) ==
  IF Direct(l) THEN {Bind(queue(l), DirectMessages, queue(l))}
  ELSE {Bind(queue(l), DomainEvents, key) : key \in Seq(Segments)}

\* Everything that may be declared.
ExchangeDecls ==
  {Exchange(x) : x \in {DomainEvents, DirectMessages, GlobalReply, DirectDLQExchange}
                      \cup {EventsDLQExchange(a) : a \in Apps}
                      \cup {EventsRetryExchange(a) : a \in Apps}}
TempDecls(a) ==
  {Queue(QueueOf(a, "notification"), Nothing), Queue(ReplyQueue(a), Nothing),
   Bind(ReplyQueue(a), GlobalReply, ReplyQueue(a))}
  \cup {Bind(QueueOf(a, "notification"), DomainEvents, key) : key \in Seq(Segments)}
TempPart == UNION {TempDecls(a) : a \in Apps}
DurablePart == UNION {Wiring(l) \cup SourceBinds(l) : l \in DurableListeners}
Declared == ExchangeDecls \cup TempPart \cup DurablePart

\* A queue that messages can reach is wired, in a set and at every point of a
\* sequence of declarations.
WiredFirst(B) == \A l \in DurableListeners : B \cap SourceBinds(l) # {} => Wiring(l) \subseteq B
Ordered(s) ==
  \A i \in DOMAIN s, l \in DurableListeners :
    s[i] \in SourceBinds(l) => \A w \in Wiring(l) : \E j \in 1..i : s[j] = w
Sane(s) == s \in Seq(Declared) /\ Ordered(s)

\* A declareTopology that stops anywhere leaves the queues wired.
LEMMA PrefixWired ==
  ASSUME NEW B, B \subseteq Declared, WiredFirst(B), NEW s, Sane(s), NEW n \in 0..Len(s)
  PROVE  LET C == B \cup {s[i] : i \in 1..n} IN C \subseteq Declared /\ WiredFirst(C)
<1> DEFINE C == B \cup {s[i] : i \in 1..n}
<1>1. \A i \in 1..n : i \in DOMAIN s /\ s[i] \in Declared /\ 1..i \subseteq 1..n
  BY DEF Sane
<1>2. C \subseteq Declared
  BY <1>1, Zenon
<1>3. WiredFirst(C)
  <2> SUFFICES ASSUME NEW l \in DurableListeners, NEW d \in SourceBinds(l), d \in C,
                      NEW w \in Wiring(l)
               PROVE  w \in C
    <3>1. \A l \in DurableListeners : \A d \in SourceBinds(l) :
            d \in C => Wiring(l) \subseteq C
      BY Zenon
    <3> HIDE DEF C
    <3> QED
      BY <3>1, Zenon DEF WiredFirst
  <2>1. CASE d \in B
    BY <2>1, Zenon DEF WiredFirst
  <2>2. CASE \E i \in 1..n : d = s[i]
    <3>1. PICK i \in 1..n : d = s[i]
      BY <2>2
    <3>2. i \in DOMAIN s /\ s[i] \in SourceBinds(l)
      BY <1>1, <3>1, Zenon
    <3>3. PICK j \in 1..i : s[j] = w
      BY <3>2, Zenon DEF Sane, Ordered
    <3>4. j \in 1..n
      BY <1>1, Zenon
    <3> QED
      BY <3>3, <3>4, Zenon
  <2> QED
    BY <2>1, <2>2, Zenon
<1> QED
  BY <1>2, <1>3, Zenon

\* One declaration after another.
LEMMA ConcatSane ==
  ASSUME NEW s, NEW t, Sane(s), t \in Seq(Declared),
         \A i \in DOMAIN t, l \in DurableListeners : t[i] \in SourceBinds(l) =>
           \A w \in Wiring(l) : w \in Range(s) \/ \E j \in 1..i : t[j] = w
  PROVE  Sane(s \o t)
<1>1. /\ s \in Seq(Declared) /\ Len(s) \in Nat /\ Len(t) \in Nat
      /\ DOMAIN s = 1..Len(s) /\ DOMAIN t = 1..Len(t)
  BY SeqShape, Zenon DEF Sane
<1>2. /\ s \o t \in Seq(Declared) /\ DOMAIN (s \o t) = 1..(Len(s) + Len(t))
      /\ \A i \in 1..Len(s) : (s \o t)[i] = s[i]
      /\ \A i \in 1..Len(t) : (s \o t)[Len(s) + i] = t[i]
  BY <1>1, ConcatShape, SeqShape
<1> DEFINE c == s \o t
<1> HIDE DEF c
<1> SUFFICES ASSUME NEW i \in DOMAIN c, NEW l \in DurableListeners, c[i] \in SourceBinds(l),
                    NEW w \in Wiring(l)
             PROVE  \E j \in 1..i : c[j] = w
  BY <1>2, Zenon DEF Sane, Ordered, c
<1>3. CASE i \in 1..Len(s)
  <2>1. PICK j \in 1..i : s[j] = w
    BY <1>1, <1>2, <1>3, Zenon DEF Sane, Ordered, c
  <2>2. j \in 1..Len(s)
    BY <1>1, <1>3, <2>1
  <2> QED
    BY <1>2, <2>1, <2>2, Zenon DEF c
<1>4. CASE \E h \in 1..Len(t) : i = Len(s) + h
  <2>1. PICK h \in 1..Len(t) : i = Len(s) + h
    BY <1>4
  <2>2. t[h] \in SourceBinds(l)
    BY <1>2, <2>1, Zenon DEF c
  <2>3. CASE w \in Range(s)
    <3>1. PICK j \in DOMAIN s : s[j] = w
      BY <2>3, Zenon DEF Range
    <3>2. j \in 1..i
      BY <1>1, <2>1, <3>1
    <3> QED
      BY <1>1, <1>2, <3>1, <3>2, Zenon DEF c
  <2>4. CASE \E j \in 1..h : t[j] = w
    <3>1. PICK j \in 1..h : t[j] = w
      BY <2>4
    <3>2. j \in 1..Len(t) /\ Len(s) + j \in 1..i
      BY <1>1, <2>1, <3>1
    <3> QED
      BY <1>2, <3>1, <3>2, Zenon DEF c
  <2> QED
    BY <1>1, <2>1, <2>2, <2>3, <2>4, Zenon
<1>5. i \in 1..Len(s) \/ \E h \in 1..Len(t) : i = Len(s) + h
  <2>1. i \in 1..(Len(s) + Len(t))
    BY <1>2, Zenon DEF c
  <2>2. CASE i > Len(s)
    <3>1. i - Len(s) \in 1..Len(t) /\ i = Len(s) + (i - Len(s))
      BY <1>1, <2>1, <2>2
    <3> QED
      BY <3>1, Zenon
  <2> QED
    BY <1>1, <2>1, <2>2
<1> QED
  BY <1>3, <1>4, <1>5, Zenon

\* A sequence of declarations none of which is a binding that feeds a durable
\* queue is in order.
LEMMA NoSourceSane ==
  ASSUME NEW s \in Seq(Declared),
         \A i \in DOMAIN s, l \in DurableListeners : s[i] \notin SourceBinds(l)
  PROVE  Sane(s)
BY Zenon DEF Sane, Ordered

\* Sequences that are in order can be put one behind the other.
LEMMA SaneConcat == ASSUME NEW s, NEW t, Sane(s), Sane(t) PROVE Sane(s \o t)
<1>1. \A i \in DOMAIN t, l \in DurableListeners : t[i] \in SourceBinds(l) =>
        \A w \in Wiring(l) : \E j \in 1..i : t[j] = w
  BY Zenon DEF Sane, Ordered
<1>2. t \in Seq(Declared)
  BY Zenon DEF Sane
<1> QED
  BY <1>1, <1>2, ConcatSane

\* What feeds a durable queue has its name and comes from its exchange.
LEMMA SourceShape ==
  ASSUME NEW l \in DurableListeners, NEW d \in SourceBinds(l)
  PROVE  /\ d.op = "bind" /\ d.name = queue(l) /\ d.from = SourceExchange(l)
         /\ Direct(l) => d.key = queue(l)
BY DEF SourceBinds, SourceExchange, Bind

\* The fields of the declarations.
LEMMA Fields ==
  ASSUME NEW q, NEW x, NEW key
  PROVE  /\ Exchange(x).op = "exchange" /\ Exchange(x).name = x
         /\ Queue(q, x).op = "queue" /\ Queue(q, x).name = q /\ Queue(q, x).dlx = x
         /\ Bind(q, x, key).op = "bind" /\ Bind(q, x, key).name = q
         /\ Bind(q, x, key).from = x /\ Bind(q, x, key).key = key
BY DEF Exchange, Queue, Bind

\* Exchanges, queues, DLQs and temporary queues feed no durable queue.
LEMMA NotSources ==
  ASSUME NEW l \in DurableListeners, NEW d \in SourceBinds(l)
  PROVE  /\ d \notin ExchangeDecls
         /\ \A a \in Apps : d \notin TempDecls(a)
         /\ \A o \in DurableListeners : d \notin Wiring(o)
<1>1. d.op = "bind" /\ d.name = queue(l) /\ d.from = SourceExchange(l)
  BY SourceShape
<1>2. d \notin ExchangeDecls
  BY <1>1 DEF ExchangeDecls, Exchange
<1>3. ASSUME NEW a \in Apps PROVE d \notin TempDecls(a)
  <2>1. queue(l) # QueueOf(a, "notification") /\ queue(l) # ReplyQueue(a)
    BY DurableNames, Zenon DEF TempQueues
  <2>2. \A x, y : d # Queue(x, y)
    BY <1>1, Fields
  <2>3. \A x, y : d # Bind(QueueOf(a, "notification"), x, y) /\ d # Bind(ReplyQueue(a), x, y)
    BY <1>1, <2>1, Fields
  <2> QED
    BY <2>2, <2>3, Zenon DEF TempDecls
<1>4. ASSUME NEW o \in DurableListeners PROVE d \notin Wiring(o)
  <2>1. queue(l) # DLQ(queue(o))
    BY QueueNames, Zenon DEF DurableListeners
  <2>2. \A x, y : d # Queue(x, y)
    BY <1>1, Fields
  <2>3. \A x, y : d # Bind(DLQ(queue(o)), x, y)
    BY <1>1, <2>1, Fields
  <2>4. ~Direct(o) => SourceExchange(l) # RetryExchange(o)
    BY DEF SourceExchange, RetryExchange, DirectMessages, DomainEvents, EventsRetryExchange
  <2>5. ~Direct(o) => \A x, y : d # Bind(x, RetryExchange(o), y)
    BY <1>1, <2>4, Fields
  <2> QED
    BY <2>2, <2>3, <2>5, Zenon DEF Wiring, RetryDecls
<1> QED
  BY <1>2, <1>3, <1>4

\* Two sequences one behind the other hold the elements of both.
LEMMA ConcatRange ==
  ASSUME NEW S, NEW s \in Seq(S), NEW t \in Seq(S)
  PROVE  s \o t \in Seq(S) /\ Range(s \o t) = Range(s) \cup Range(t)
<1>1. /\ Len(s) \in Nat /\ Len(t) \in Nat /\ s \o t \in Seq(S)
      /\ DOMAIN s = 1..Len(s) /\ DOMAIN t = 1..Len(t)
      /\ DOMAIN (s \o t) = 1..(Len(s) + Len(t))
      /\ \A i \in 1..(Len(s) + Len(t)) :
           (s \o t)[i] = IF i <= Len(s) THEN s[i] ELSE t[i - Len(s)]
  BY ConcatShape, SeqShape
<1> DEFINE c == s \o t
<1> HIDE DEF c
<1>2. ASSUME NEW i \in DOMAIN s PROVE s[i] \in Range(c)
  <2>1. i \in DOMAIN c /\ c[i] = s[i]
    BY <1>1 DEF c
  <2> QED
    BY <2>1, Zenon DEF Range
<1>3. ASSUME NEW i \in DOMAIN t PROVE t[i] \in Range(c)
  <2>1. Len(s) + i \in DOMAIN c /\ c[Len(s) + i] = t[i]
    BY <1>1 DEF c
  <2> QED
    BY <2>1, Zenon DEF Range
<1>4. ASSUME NEW i \in DOMAIN c PROVE c[i] \in Range(s) \cup Range(t)
  <2>1. CASE i <= Len(s)
    <3>1. i \in DOMAIN s /\ c[i] = s[i]
      BY <1>1, <2>1 DEF c
    <3> QED
      BY <3>1, Zenon DEF Range
  <2>2. CASE ~(i <= Len(s))
    <3>1. i - Len(s) \in DOMAIN t /\ c[i] = t[i - Len(s)]
      BY <1>1, <2>2 DEF c
    <3> QED
      BY <3>1, Zenon DEF Range
  <2> QED
    BY <2>1, <2>2, Zenon
<1>5. Range(c) = Range(s) \cup Range(t)
  <2>1. \A x \in Range(c) : x \in Range(s) \cup Range(t)
    BY <1>4, Zenon DEF Range
  <2>2. \A x \in Range(s) \cup Range(t) : x \in Range(c)
    BY <1>2, <1>3, Zenon DEF Range
  <2> QED
    BY <2>1, <2>2, Zenon
<1> QED
  BY <1>1, <1>5, Zenon DEF c

\* A durable queue, its retry topology and then its bindings.
LEMMA QueueSane ==
  ASSUME NEW l \in DurableListeners,
         NEW R \in Seq(Wiring(l) \cup ExchangeDecls), NEW B \in Seq(SourceBinds(l)),
         withDLQRetry => RetryDecls(l) \subseteq Range(R)
  PROVE  Sane(<<Queue(queue(l), DeadLetterTo(DLQExchange(l)))>> \o R \o B)
<1> DEFINE W == Wiring(l) \cup ExchangeDecls
           first == Queue(queue(l), DeadLetterTo(DLQExchange(l)))
           F == <<first>>
           P == F \o R
<1>1. W \subseteq Declared /\ SourceBinds(l) \subseteq Declared /\ first \in W
  <2>1. Wiring(l) \cup SourceBinds(l) \in {Wiring(o) \cup SourceBinds(o) : o \in DurableListeners}
    OBVIOUS
  <2>2. W \subseteq Declared /\ SourceBinds(l) \subseteq Declared
    <3>1. Wiring(l) \subseteq DurablePart /\ SourceBinds(l) \subseteq DurablePart
      BY <2>1, Zenon DEF DurablePart
    <3> QED
      BY <3>1, Zenon DEF Declared
  <2>3. first \in W
    BY Zenon DEF Wiring
  <2> QED
    BY <2>2, <2>3
<1>2. \A w \in Wiring(l) : w = first \/ w \in Range(R)
  BY Zenon DEF Wiring
<1>3. \A w \in W : \A o \in DurableListeners : w \notin SourceBinds(o)
  BY NotSources, Zenon
<1> HIDE DEF W, first
<1>4. R \in Seq(W)
  BY Zenon DEF W
<1>5. F \in Seq(W) /\ first \in Range(F)
  BY <1>1 DEF Range
<1> HIDE DEF F
<1>6. P \in Seq(W) /\ Range(P) = Range(F) \cup Range(R)
  BY <1>4, <1>5, ConcatRange
<1>7. Wiring(l) \subseteq Range(P)
  BY <1>2, <1>5, <1>6, Zenon
<1> HIDE DEF P
<1>8. Sane(P)
  <2>1. P \in Seq(Declared) /\ \A i \in DOMAIN P : P[i] \in W
    BY <1>1, <1>6
  <2> QED
    BY <1>3, <2>1, NoSourceSane
<1>9. B \in Seq(Declared) /\ \A i \in DOMAIN B : B[i] \in SourceBinds(l)
  BY <1>1
<1>10. \A i \in DOMAIN B, o \in DurableListeners : B[i] \in SourceBinds(o) => o = l
  <2> SUFFICES ASSUME NEW i \in DOMAIN B, NEW o \in DurableListeners, B[i] \in SourceBinds(o)
               PROVE  o = l
    BY Zenon
  <2>1. B[i].name = queue(l) /\ B[i].name = queue(o)
    BY <1>9, SourceShape
  <2> QED
    BY <2>1, QueueNames, Zenon DEF DurableListeners
<1>11. Sane(P \o B)
  BY <1>7, <1>8, <1>9, <1>10, ConcatSane
<1> QED
  BY <1>11, Zenon DEF P, F, first

\* The order in which a map of handlers is walked.
LEMMA WalkType ==
  ASSUME NEW S \in SUBSET Seq(Segments), NEW names \in Walks(S)
  PROVE  names \in Seq(Seq(Segments))
<1>1. PICK n \in 0..Cardinality(S) : names \in [1..n -> S]
  BY Zenon DEF Walks, Bijection, Injection
<1>2. n \in Nat
  OBVIOUS
<1>3. names \in [1..n -> Seq(Segments)]
  BY <1>1, Zenon
<1> QED
  BY <1>2, <1>3

\* The bindings of the names walked.
LEMMA BindsType ==
  ASSUME NEW q, NEW x, NEW names \in Seq(Seq(Segments))
  PROVE  [i \in DOMAIN names |-> Bind(q, x, names[i])]
           \in Seq({Bind(q, x, key) : key \in Seq(Segments)})
<1> DEFINE S == {Bind(q, x, key) : key \in Seq(Segments)}
<1>1. Len(names) \in Nat /\ DOMAIN names = 1..Len(names)
  BY SeqShape, Zenon
<1>2. \A i \in DOMAIN names : Bind(q, x, names[i]) \in S
  OBVIOUS
<1> HIDE DEF S
<1>3. [i \in DOMAIN names |-> Bind(q, x, names[i])] \in [1..Len(names) -> S]
  BY <1>1, <1>2, Zenon
<1> QED
  BY <1>1, <1>3 DEF S

\* Nothing declared is in order.
LEMMA EmptySane == Sane(<<>>)
BY DEF Sane, Ordered

\* The names and exchanges of the events listener of an app.
LEMMA EventsNames ==
  ASSUME NEW a \in Apps, NEW l, l = <<a, "event">>
  PROVE  /\ l \in DurableListeners /\ ~Direct(l) /\ queue(l) = QueueOf(a, "event")
         /\ DLQExchange(l) = EventsDLQExchange(a) /\ RetryExchange(l) = EventsRetryExchange(a)
         /\ DLQKey(l) = <<Hash>>
BY DEF DurableListeners, Listeners, Kinds, Direct, queue, DLQExchange, RetryExchange, DLQKey

\* DeclareEventsQueue, with the queue's retry topology, and its bindings.
LEMMA EventsSane ==
  ASSUME NEW a \in Apps, NEW names \in Seq(Seq(Segments))
  PROVE  Sane(declareEvents(a, names))
<1> DEFINE l == <<a, "event">>
           q == QueueOf(a, "event")
           R == IfRetry(DeclareEventsDLQRetry(a, q))
           B == [i \in DOMAIN names |-> Bind(q, DomainEvents, names[i])]
<1>1. /\ l \in DurableListeners /\ ~Direct(l) /\ queue(l) = q
      /\ DLQExchange(l) = EventsDLQExchange(a) /\ RetryExchange(l) = EventsRetryExchange(a)
      /\ DLQKey(l) = <<Hash>>
  BY EventsNames
<1> HIDE DEF l, q
<1>2. B \in Seq(SourceBinds(l))
  <2>1. SourceBinds(l) = {Bind(q, DomainEvents, key) : key \in Seq(Segments)}
    BY <1>1, Zenon DEF SourceBinds
  <2>2. B \in Seq({Bind(q, DomainEvents, key) : key \in Seq(Segments)})
    BY BindsType
  <2> QED
    BY <2>1, <2>2, Zenon
<1>3. /\ R \in Seq(Wiring(l) \cup ExchangeDecls)
      /\ withDLQRetry => RetryDecls(l) \subseteq Range(R)
  <2>1. CASE ~withDLQRetry
    <3>1. R = <<>>
      BY <2>1, Zenon DEF IfRetry
    <3> QED
      BY <2>1, <3>1
  <2>2. CASE withDLQRetry
    <3> DEFINE W == Wiring(l) \cup ExchangeDecls
               e1 == Exchange(EventsRetryExchange(a))
               e2 == Exchange(EventsDLQExchange(a))
               e3 == Queue(DLQ(q), EventsRetryExchange(a))
               e4 == Bind(DLQ(q), EventsDLQExchange(a), <<Hash>>)
               e5 == Bind(q, EventsRetryExchange(a), <<Hash>>)
    <3>1. R = <<e1, e2, e3, e4, e5>>
      BY <2>2, Zenon DEF IfRetry, DeclareEventsDLQRetry
    <3>2. RetryDecls(l) = {e3, e4, e5}
      BY <1>1 DEF RetryDecls
    <3>3. e1 \in ExchangeDecls /\ e2 \in ExchangeDecls
      BY Zenon DEF ExchangeDecls
    <3>4. {e1, e2, e3, e4, e5} \subseteq W
      BY <2>2, <3>2, <3>3, Zenon DEF Wiring
    <3> HIDE DEF W, e1, e2, e3, e4, e5, R
    <3>5. R \in Seq(W) /\ {e3, e4, e5} \subseteq Range(R)
      BY <3>1, <3>4 DEF Range
    <3> QED
      BY <3>2, <3>5, Zenon DEF W
  <2> QED
    BY <2>1, <2>2
<1> HIDE DEF R, B
<1>4. Sane(<<Queue(queue(l), DeadLetterTo(DLQExchange(l)))>> \o R \o B)
  BY <1>1, <1>2, <1>3, QueueSane, Zenon
<1> QED
  BY <1>1, <1>4, EmptySane, Zenon DEF declareEvents, R, B, q

\* DeclareCommandsQueue and DeclareQueriesQueue, with the retry topology, and
\* the one binding.
LEMMA DirectSane ==
  ASSUME NEW l \in DurableListeners, Direct(l)
  PROVE  Sane(<<Queue(queue(l), DeadLetterTo(DirectDLQExchange))>>
              \o IfRetry(DeclareDirectDLQRetry(queue(l), queue(l)))
              \o <<Bind(queue(l), DirectMessages, queue(l))>>)
<1> DEFINE q == queue(l)
           R == IfRetry(DeclareDirectDLQRetry(q, q))
           B == <<Bind(q, DirectMessages, q)>>
<1>1. /\ DLQExchange(l) = DirectDLQExchange /\ RetryExchange(l) = DirectMessages
      /\ DLQKey(l) = q
  BY Zenon DEF DLQExchange, RetryExchange, DLQKey
<1>2. B \in Seq(SourceBinds(l))
  <2>1. Bind(q, DirectMessages, q) \in SourceBinds(l)
    BY Zenon DEF SourceBinds
  <2> QED
    BY <2>1
<1> HIDE DEF q
<1>3. /\ R \in Seq(Wiring(l) \cup ExchangeDecls)
      /\ withDLQRetry => RetryDecls(l) \subseteq Range(R)
  <2>1. CASE ~withDLQRetry
    <3>1. R = <<>>
      BY <2>1, Zenon DEF IfRetry
    <3> QED
      BY <2>1, <3>1
  <2>2. CASE withDLQRetry
    <3> DEFINE W == Wiring(l) \cup ExchangeDecls
               e1 == Exchange(DirectDLQExchange)
               e2 == Queue(DLQ(q), DirectMessages)
               e3 == Bind(DLQ(q), DirectDLQExchange, q)
    <3>1. R = <<e1, e2, e3>>
      BY <2>2, Zenon DEF IfRetry, DeclareDirectDLQRetry
    <3>2. RetryDecls(l) = {e2, e3}
      BY <1>1 DEF RetryDecls, q
    <3>3. e1 \in ExchangeDecls
      BY Zenon DEF ExchangeDecls
    <3>4. {e1, e2, e3} \subseteq W
      BY <2>2, <3>2, <3>3, Zenon DEF Wiring
    <3> HIDE DEF W, e1, e2, e3, R
    <3>5. R \in Seq(W) /\ {e2, e3} \subseteq Range(R)
      BY <3>1, <3>4 DEF Range
    <3> QED
      BY <3>2, <3>5, Zenon DEF W
  <2> QED
    BY <2>1, <2>2
<1> HIDE DEF R, B
<1>4. Sane(<<Queue(queue(l), DeadLetterTo(DLQExchange(l)))>> \o R \o B)
  BY <1>2, <1>3, QueueSane, Zenon
<1> QED
  BY <1>1, <1>4, Zenon DEF R, B, q

\* The queues of commands and of queries.
LEMMA CommandsAndQueriesSane ==
  ASSUME NEW a \in Apps, NEW names
  PROVE  Sane(declareCommands(a, names)) /\ Sane(declareQueries(a, names))
<1> DEFINE c == <<a, "command">>
           q == <<a, "query">>
<1>1. /\ c \in DurableListeners /\ Direct(c) /\ queue(c) = QueueOf(a, "command")
      /\ q \in DurableListeners /\ Direct(q) /\ queue(q) = QueueOf(a, "query")
  BY DEF DurableListeners, Listeners, Kinds, Direct, queue
<1>2. QueueOf(a, "command") = <<a>>
  BY NamesOf
<1> HIDE DEF c, q
<1>3. Sane(declareCommands(a, names))
  BY <1>1, <1>2, DirectSane, EmptySane, Zenon DEF declareCommands
<1>4. Sane(declareQueries(a, names))
  BY <1>1, DirectSane, EmptySane, Zenon DEF declareQueries
<1> QED
  BY <1>3, <1>4

\* What is made of declarations that feed no durable queue is in order.
LEMMA TempSane ==
  ASSUME NEW a \in Apps, NEW s \in Seq(TempDecls(a) \cup ExchangeDecls)
  PROVE  Sane(s)
<1> DEFINE T == TempDecls(a) \cup ExchangeDecls
<1>1. T \subseteq Declared
  BY Zenon DEF Declared, TempPart
<1>2. \A d \in T : \A l \in DurableListeners : d \notin SourceBinds(l)
  BY NotSources, Zenon
<1> HIDE DEF T
<1>3. s \in Seq(T)
  BY Zenon DEF T
<1>4. s \in Seq(Declared) /\ \A i \in DOMAIN s : s[i] \in T
  BY <1>1, <1>3
<1> QED
  BY <1>2, <1>4, NoSourceSane, Zenon

\* The exchanges, the notification queue and the reply queue.
LEMMA OthersSane ==
  ASSUME NEW a \in Apps, NEW names \in Seq(Seq(Segments))
  PROVE  /\ Sane(DeclareExchanges) /\ Sane(declareReplies(a))
         /\ Sane(declareNotifications(a, names))
<1> DEFINE q == QueueOf(a, "notification")
           T == TempDecls(a) \cup ExchangeDecls
           B == [i \in DOMAIN names |-> Bind(q, DomainEvents, names[i])]
           S == {Bind(q, DomainEvents, key) : key \in Seq(Segments)}
<1>1. /\ Exchange(DomainEvents) \in T /\ Exchange(DirectMessages) \in T
      /\ Exchange(GlobalReply) \in T
  BY Zenon DEF ExchangeDecls
<1>2. /\ Queue(ReplyQueue(a), Nothing) \in T
      /\ Bind(ReplyQueue(a), GlobalReply, ReplyQueue(a)) \in T
      /\ Queue(q, Nothing) \in T
  BY Zenon DEF TempDecls
<1>3. S \subseteq T
  BY Zenon DEF TempDecls
<1>4. B \in Seq(S)
  BY BindsType
<1> HIDE DEF T, S, B, q
<1>5. DeclareExchanges \in Seq(T)
  BY <1>1 DEF DeclareExchanges
<1>6. declareReplies(a) \in Seq(T)
  BY <1>2 DEF declareReplies
<1>7. <<Queue(q, Nothing)>> \in Seq(T) /\ B \in Seq(T)
  BY <1>2, <1>3, <1>4
<1>8. <<Queue(q, Nothing)>> \o B \in Seq(T)
  BY <1>7, ConcatRange
<1>9. Sane(<<Queue(q, Nothing)>> \o B)
  BY <1>8, TempSane, Zenon DEF T
<1> QED
  BY <1>5, <1>6, <1>9, TempSane, EmptySane, Zenon DEF T, declareNotifications, q, B

\* declareTopology wires a durable queue before it binds it.
LEMMA TopologySane ==
  ASSUME RegistryInv, NEW a \in Apps, NEW ds \in declareTopology(a)
  PROVE  Sane(ds)
<1> DEFINE Order(e, c, q, n) ==
      DeclareExchanges \o declareEvents(a, e) \o declareCommands(a, c) \o declareQueries(a, q)
        \o declareNotifications(a, n) \o declareReplies(a)
<1>0. ds \in {Order(e, c, q, n) :
               e \in Walks(handlers[a]["event"]), c \in Walks(handlers[a]["command"]),
               q \in Walks(handlers[a]["query"]), n \in Walks(handlers[a]["notification"])}
  BY PTL DEF declareTopology
<1>1. PICK e \in Walks(handlers[a]["event"]), c \in Walks(handlers[a]["command"]),
           q \in Walks(handlers[a]["query"]), n \in Walks(handlers[a]["notification"]) :
        ds = Order(e, c, q, n)
  <2> HIDE DEF Order
  <2> QED
    BY <1>0, SMTT(20)
<1>2. \A k \in Kinds : handlers[a][k] \in SUBSET Seq(Segments)
  BY Zenon DEF RegistryInv
<1>3. "event" \in Kinds /\ "notification" \in Kinds
  BY DEF Kinds
<1>4. e \in Seq(Seq(Segments)) /\ n \in Seq(Seq(Segments))
  BY <1>2, <1>3, WalkType, Zenon
<1>5. Sane(DeclareExchanges) /\ Sane(declareNotifications(a, n)) /\ Sane(declareReplies(a))
  BY <1>4, OthersSane, Zenon
<1>6. Sane(declareEvents(a, e)) /\ Sane(declareCommands(a, c)) /\ Sane(declareQueries(a, q))
  BY <1>4, EventsSane, CommandsAndQueriesSane, Zenon
<1>7. Sane(DeclareExchanges \o declareEvents(a, e))
  BY <1>5, <1>6, SaneConcat, Zenon
<1>8. Sane(DeclareExchanges \o declareEvents(a, e) \o declareCommands(a, c))
  BY <1>6, <1>7, SaneConcat, Zenon
<1>9. Sane(DeclareExchanges \o declareEvents(a, e) \o declareCommands(a, c)
             \o declareQueries(a, q))
  BY <1>6, <1>8, SaneConcat, Zenon
<1>10. Sane(DeclareExchanges \o declareEvents(a, e) \o declareCommands(a, c)
              \o declareQueries(a, q) \o declareNotifications(a, n))
  BY <1>5, <1>9, SaneConcat, Zenon
<1> QED
  BY <1>1, <1>5, <1>10, SaneConcat, Zenon

\* A set of declarations that may be in the broker.
Whole(B) == B \subseteq Declared /\ WiredFirst(B)

\* The temporary queues of an app are no part of the wiring of another queue.
LEMMA WiringDurable ==
  ASSUME NEW l \in DurableListeners, NEW a \in Apps, NEW w \in Wiring(l)
  PROVE  w.name \notin TempQueues(a)
<1>1. w.name \in {queue(l), DLQ(queue(l))}
  BY Fields DEF Wiring, RetryDecls
<1> QED
  BY <1>1, DurableNames, Zenon

\* Deleting the temporary queues of an app leaves the others wired.
LEMMA FilterWhole ==
  ASSUME NEW B, Whole(B), NEW a \in Apps
  PROVE  Whole({d \in B : d.name \notin TempQueues(a)})
<1> DEFINE C == {d \in B : d.name \notin TempQueues(a)}
<1>1. C \subseteq Declared
  BY Zenon DEF Whole
<1>2. ASSUME NEW l \in DurableListeners, C \cap SourceBinds(l) # {} PROVE Wiring(l) \subseteq C
  <2>1. B \cap SourceBinds(l) # {}
    BY <1>2, Zenon
  <2>2. Wiring(l) \subseteq B
    BY <2>1, Zenon DEF Whole, WiredFirst
  <2> QED
    BY <2>2, WiringDurable, Zenon
<1> HIDE DEF C
<1>3. Whole(C)
  BY <1>1, <1>2, Zenon DEF Whole, WiredFirst
<1> QED
  BY <1>3, Zenon DEF C

\* A bring-up that fails leaves what was declared, but for the temporary queues.
FailsWith(a, declared) ==
  \/ broker' = declared /\ UNCHANGED ready
  \/ /\ broker' = {d \in declared : d.name \notin TempQueues(a)}
     /\ ready' = {c \in ready : c[2] \notin TempQueues(a)}

\* How a step changes the declarations, and with them the ready messages.
LEMMA BrokerMoves ==
  ASSUME RegistryInv, Whole(broker), [Next]_vars
  PROVE  \/ UNCHANGED broker
         \/ \E a \in Apps : \E B : Whole(B) /\ broker \subseteq B /\ FailsWith(a, B)
         \/ \E a \in Apps : Drop(a)
<1>1. ASSUME NEW a \in Apps, NEW B, Whole(B), broker \subseteq B, Fail(a, B)
      PROVE  \E b \in Apps : \E C : Whole(C) /\ broker \subseteq C /\ FailsWith(b, C)
  BY <1>1, Zenon DEF Fail, FailsWith
<1>2. ASSUME NEW a \in Apps, Declare(a)
      PROVE  \E b \in Apps : \E C : Whole(C) /\ broker \subseteq C /\ FailsWith(b, C)
  <2>1. PICK ds \in declareTopology(a) :
          \/ broker' = broker \cup Range(ds) /\ UNCHANGED ready
          \/ \E n \in 0..(Len(ds) - 1) : Fail(a, broker \cup {ds[i] : i \in 1..n})
    BY <1>2, Zenon DEF Declare
  <2>2. Sane(ds)
    BY TopologySane, Zenon
  <2>3. Len(ds) \in Nat /\ DOMAIN ds = 1..Len(ds)
    BY <2>2, SeqShape, Zenon DEF Sane
  <2>4. ASSUME NEW n \in 0..Len(ds) PROVE Whole(broker \cup {ds[i] : i \in 1..n})
    BY <2>2, PrefixWired, Zenon DEF Whole
  <2>5. CASE broker' = broker \cup Range(ds) /\ UNCHANGED ready
    <3>1. Len(ds) \in 0..Len(ds)
      BY <2>3
    <3>2. Range(ds) = {ds[i] : i \in 1..Len(ds)}
      BY <2>3, Zenon DEF Range
    <3>3. Whole(broker')
      BY <2>4, <2>5, <3>1, <3>2, Zenon
    <3> QED
      BY <2>5, <3>3, Zenon DEF FailsWith
  <2>6. CASE \E n \in 0..(Len(ds) - 1) : Fail(a, broker \cup {ds[i] : i \in 1..n})
    <3>1. PICK n \in 0..(Len(ds) - 1) : Fail(a, broker \cup {ds[i] : i \in 1..n})
      BY <2>6, Zenon
    <3>2. n \in 0..Len(ds)
      BY <2>3, <3>1
    <3>3. Whole(broker \cup {ds[i] : i \in 1..n})
      BY <2>4, <3>2, Zenon
    <3> QED
      BY <1>1, <3>1, <3>3, Zenon
  <2> QED
    BY <2>1, <2>5, <2>6, Zenon
<1>3. ASSUME NEW a \in Apps, startListeners(a)
      PROVE  \/ UNCHANGED broker
             \/ \E b \in Apps : \E C : Whole(C) /\ broker \subseteq C /\ FailsWith(b, C)
  BY <1>1, <1>3, Zenon DEF startListeners
<1>4. CASE \E a \in Apps : Start(a) \/ Declare(a) \/ startListeners(a) \/ Drop(a)
  BY <1>2, <1>3, <1>4, Zenon DEF Start
<1>5. CASE \E h \in scenario.late : Register(h[1], h[2], h[3])
  BY <1>5, Zenon DEF Register
<1>6. CASE \E l \in Listeners : dispatch(l) \/ resolve(l) \/ Handled(l) \/ Failed(l)
  BY <1>6, Zenon DEF dispatch, resolve, Handled, Failed
<1>7. CASE \E msg \in Messages : \/ \E isBroken \in BOOLEAN : Emit(msg, isBroken)
                                 \/ \E q \in Queues : Expire(msg, q)
                                 \/ \E l \in Listeners : Deliver(l, msg)
  BY <1>7, Zenon DEF Emit, Expire, Deliver
<1>8. CASE UNCHANGED vars
  BY <1>8, Zenon DEF vars
<1> QED
  BY <1>4, <1>5, <1>6, <1>7, <1>8, Zenon DEF Next

\* The declarations stay whole, and only temporary queues are deleted.
LEMMA TopologyStep ==
  ASSUME RegistryInv, Whole(broker), [Next]_vars
  PROVE  /\ Whole(broker)'
         /\ \A l \in DurableListeners :
              broker \cap SourceBinds(l) # {} => broker' \cap SourceBinds(l) # {}
<1>1. /\ Whole(broker')
      /\ \A d \in broker : d \in broker' \/ \E a \in Apps : d.name \in TempQueues(a)
  <2>1. CASE \E a \in Apps : \E B : Whole(B) /\ broker \subseteq B /\ FailsWith(a, B)
    <3>1. PICK a \in Apps : \E B : Whole(B) /\ broker \subseteq B /\ FailsWith(a, B)
      BY <2>1
    <3>2. PICK B : Whole(B) /\ broker \subseteq B /\ FailsWith(a, B)
      BY <3>1
    <3>3. Whole({d \in B : d.name \notin TempQueues(a)})
      BY <3>2, FilterWhole, Zenon
    <3>4. \A d \in broker : d \in broker' \/ d.name \in TempQueues(a)
      BY <3>2, Zenon DEF FailsWith
    <3>5. Whole(broker')
      BY <3>2, <3>3, Zenon DEF FailsWith
    <3> QED
      BY <3>4, <3>5, Zenon
  <2>2. CASE \E a \in Apps : Drop(a)
    <3>1. PICK a \in Apps : broker' = {d \in broker : d.name \notin TempQueues(a)}
      BY <2>2, Zenon DEF Drop
    <3>2. \A d \in broker : d \in broker' \/ d.name \in TempQueues(a)
      BY <3>1, Zenon
    <3>3. Whole(broker')
      BY <3>1, FilterWhole, Zenon
    <3> QED
      BY <3>2, <3>3, Zenon
  <2>3. CASE UNCHANGED broker
    BY <2>3, Zenon
  <2> QED
    BY <2>1, <2>2, <2>3, BrokerMoves, Zenon
<1>2. withDLQRetry' = withDLQRetry
  BY ConfigFixed
<1>3. Whole(broker)'
  <2>1. ASSUME NEW l PROVE Wiring(l)' = Wiring(l)
    BY <1>2, Zenon DEF Wiring, DeadLetterTo
  <2>2. Declared' = Declared
    BY <2>1, Zenon DEF Declared, DurablePart
  <2> QED
    BY <1>1, <2>1, <2>2, Zenon DEF Whole, WiredFirst
<1>4. ASSUME NEW l \in DurableListeners, NEW d \in broker, d \in SourceBinds(l)
      PROVE  d \in broker'
  <2>1. d.name = queue(l)
    BY <1>4, SourceShape, Zenon
  <2> QED
    BY <1>1, <2>1, DurableNames, Zenon
<1>5. ASSUME NEW l \in DurableListeners, broker \cap SourceBinds(l) # {}
      PROVE  broker' \cap SourceBinds(l) # {}
  BY <1>4, <1>5, Zenon
<1> QED
  BY <1>3, <1>5, Zenon
-----------------------------------------------------------------------------
(* Routing.                                                                *)

\* Where the publish of a message may have put it.
Home(msg, l) == ExchangeOf(msg) = SourceExchange(l) /\ (Direct(l) => KeyOf(msg) = queue(l))
Fed(l) == broker \cap SourceBinds(l) # {}

\* The exchanges of different purposes differ.
LEMMA ExchangeNames ==
  ASSUME NEW l \in DurableListeners, NEW o \in DurableListeners
  PROVE  /\ DLQExchange(l) \notin {DomainEvents, DirectMessages, GlobalReply, Nothing, RetryExchange(o)}
         /\ RetryExchange(l) \notin {DomainEvents, GlobalReply, DirectDLQExchange, Nothing}
         /\ Direct(l) <=> RetryExchange(l) = DirectMessages
         /\ Direct(l) <=> DLQExchange(l) = DirectDLQExchange
         /\ ~Direct(l) /\ DLQExchange(l) = DLQExchange(o) => l = o
         /\ ~Direct(l) /\ RetryExchange(l) = RetryExchange(o) => l = o
<1>1. PICK a \in Apps, k \in Kinds : l = <<a, k>> /\ k # "notification"
  BY DEF DurableListeners, Listeners
<1>2. PICK b \in Apps, j \in Kinds : o = <<b, j>> /\ j # "notification"
  BY DEF DurableListeners, Listeners
<1>3. /\ k \in {"event", "command", "query"} /\ (Direct(l) <=> k # "event")
      /\ j \in {"event", "command", "query"} /\ (Direct(o) <=> j # "event")
      /\ l[1] = a /\ o[1] = b
  BY <1>1, <1>2 DEF Kinds, Direct
<1>4. /\ DLQExchange(l) = IF k # "event" THEN <<"directMessages", "DLQ">> ELSE <<a, "domainEvents", "DLQ">>
      /\ DLQExchange(o) = IF j # "event" THEN <<"directMessages", "DLQ">> ELSE <<b, "domainEvents", "DLQ">>
      /\ RetryExchange(l) = IF k # "event" THEN <<"directMessages">> ELSE <<a, "domainEvents">>
      /\ RetryExchange(o) = IF j # "event" THEN <<"directMessages">> ELSE <<b, "domainEvents">>
  BY <1>3, Zenon DEF DLQExchange, RetryExchange, DirectDLQExchange, DirectMessages,
                     EventsDLQExchange, EventsRetryExchange
<1>5. DLQExchange(l) \notin {DomainEvents, DirectMessages, GlobalReply, Nothing, RetryExchange(o)}
  BY <1>4 DEF DomainEvents, DirectMessages, GlobalReply, Nothing
<1>6. RetryExchange(l) \notin {DomainEvents, GlobalReply, DirectDLQExchange, Nothing}
  BY <1>4 DEF DomainEvents, GlobalReply, DirectDLQExchange, Nothing
<1>7. /\ k # "event" <=> RetryExchange(l) = DirectMessages
      /\ k # "event" <=> DLQExchange(l) = DirectDLQExchange
  BY <1>4 DEF DirectMessages, DirectDLQExchange
<1>8. k = "event" /\ DLQExchange(l) = DLQExchange(o) => j = "event" /\ a = b
  BY <1>4
<1>9. k = "event" /\ RetryExchange(l) = RetryExchange(o) => j = "event" /\ a = b
  BY <1>4
<1> QED
  BY <1>1, <1>2, <1>3, <1>5, <1>6, <1>7, <1>8, <1>9, Zenon

\* The bindings that may be declared.
LEMMA BindKinds ==
  ASSUME NEW d \in Declared, d.op = "bind"
  PROVE  \/ \E a \in Apps : d.name = QueueOf(a, "notification") /\ d.from = DomainEvents
         \/ d.from = GlobalReply
         \/ \E l \in DurableListeners : d \in SourceBinds(l)
         \/ \E l \in DurableListeners : d = Bind(DLQ(queue(l)), DLQExchange(l), DLQKey(l))
         \/ \E l \in DurableListeners : ~Direct(l) /\ d = Bind(queue(l), RetryExchange(l), <<Hash>>)
<1>1. \A q, x : d # Queue(q, x) /\ d # Exchange(x)
  BY Fields
<1>2. CASE d \in ExchangeDecls
  BY <1>1, <1>2, Zenon DEF ExchangeDecls
<1>3. ASSUME NEW a \in Apps, d \in TempDecls(a)
      PROVE  (d.name = QueueOf(a, "notification") /\ d.from = DomainEvents) \/ d.from = GlobalReply
  <2>1. \/ d = Bind(ReplyQueue(a), GlobalReply, ReplyQueue(a))
        \/ \E key : d = Bind(QueueOf(a, "notification"), DomainEvents, key)
    BY <1>1, <1>3, Zenon DEF TempDecls
  <2> QED
    BY <2>1, Fields
<1>4. ASSUME NEW l \in DurableListeners, d \in Wiring(l)
      PROVE  \/ d = Bind(DLQ(queue(l)), DLQExchange(l), DLQKey(l))
             \/ ~Direct(l) /\ d = Bind(queue(l), RetryExchange(l), <<Hash>>)
  BY <1>1, <1>4, Zenon DEF Wiring, RetryDecls
<1> QED
  BY <1>2, <1>3, <1>4, Zenon DEF Declared, TempPart, DurablePart

\* The queues that may be declared with a dead-letter exchange.
LEMMA QueueKinds ==
  ASSUME NEW d \in Declared, d.op = "queue", d.dlx # Nothing
  PROVE  /\ withDLQRetry
         /\ \E l \in DurableListeners : \/ d = Queue(queue(l), DLQExchange(l))
                                       \/ d = Queue(DLQ(queue(l)), RetryExchange(l))
<1>1. /\ \A q, x, key : d # Bind(q, x, key) /\ d # Exchange(x)
      /\ \A q : d # Queue(q, Nothing)
  BY Fields
<1>2. d \notin ExchangeDecls /\ \A a \in Apps : d \notin TempDecls(a)
  BY <1>1, Zenon DEF ExchangeDecls, TempDecls
<1>3. \A l \in DurableListeners : d \notin SourceBinds(l)
  BY <1>1, Zenon DEF SourceBinds
<1>4. PICK l \in DurableListeners : d \in Wiring(l)
  BY <1>2, <1>3, Zenon DEF Declared, TempPart, DurablePart
<1> QED
  BY <1>1, <1>4, Zenon DEF Wiring, RetryDecls, DeadLetterTo

\* A hash takes any routing key.
LEMMA HashMatches == ASSUME NEW S, NEW key \in Seq(S) PROVE TopicMatches(key, <<Hash>>)
<1> DEFINE cut == [i \in 0..1 |-> IF i = 0 THEN 0 ELSE Len(key)]
<1>1. Len(key) \in Nat /\ Len(<<Hash>>) = 1 /\ DOMAIN <<Hash>> = {1} /\ <<Hash>>[1] = Hash
  OBVIOUS
<1>2. cut \in [0..1 -> 0..Len(key)] /\ cut[0] = 0 /\ cut[1] = Len(key)
  BY <1>1
<1> HIDE DEF cut
<1>3. cut[1 - 1] <= cut[1]
  BY <1>1, <1>2
<1> QED
  BY <1>1, <1>2, <1>3, Zenon DEF TopicMatches

\* The key of a message is a sequence of segments or of names.
LEMMA KeyMatchesHash == ASSUME NEW msg \in Messages PROVE TopicMatches(KeyOf(msg), <<Hash>>)
<1>1. /\ <<msg.to>> \in Seq({msg.to, "query"}) /\ <<msg.to, "query">> \in Seq({msg.to, "query"})
      /\ msg.name \in Seq(Literals)
  BY DispatchAssumption
<1>2. KeyOf(msg) \in {<<msg.to>>, <<msg.to, "query">>, msg.name}
  BY DEF KeyOf
<1> QED
  BY <1>1, <1>2, HashMatches, Zenon

\* The publish of a message puts it in the queues that may be its home.
LEMMA RoutedHome ==
  ASSUME Whole(broker), NEW msg \in Messages, NEW q \in Route(ExchangeOf(msg), KeyOf(msg))
  PROVE  \E l \in Listeners : /\ q = queue(l) /\ Home(msg, l)
                              /\ l \in DurableListeners => Fed(l)
<1>1. PICK d \in broker : /\ d.op = "bind" /\ d.from = ExchangeOf(msg) /\ q = d.name
                          /\ ExchangeOf(msg) = DirectMessages => d.key = KeyOf(msg)
  BY Zenon DEF Route
<1>2. d \in Declared /\ ExchangeOf(msg) \in {DomainEvents, DirectMessages}
  BY Zenon DEF Whole, ExchangeOf
<1>3. DomainEvents # DirectMessages /\ GlobalReply \notin {DomainEvents, DirectMessages}
  BY DEF DomainEvents, DirectMessages, GlobalReply
<1>4. CASE \E a \in Apps : d.name = QueueOf(a, "notification") /\ d.from = DomainEvents
  <2>1. PICK a \in Apps : d.name = QueueOf(a, "notification") /\ d.from = DomainEvents
    BY <1>4
  <2> DEFINE l == <<a, "notification">>
  <2>2. l \in Listeners /\ l \notin DurableListeners /\ ~Direct(l) /\ queue(l) = d.name
    BY <2>1 DEF Listeners, Kinds, DurableListeners, Direct, queue
  <2> QED
    BY <1>1, <2>1, <2>2, Zenon DEF Home, SourceExchange
<1>5. CASE \E l \in DurableListeners : d \in SourceBinds(l)
  <2>1. PICK l \in DurableListeners : d \in SourceBinds(l)
    BY <1>5
  <2>2. /\ d.name = queue(l) /\ d.from = SourceExchange(l) /\ l \in Listeners
        /\ Direct(l) => d.key = queue(l)
    BY <2>1, SourceShape, Zenon DEF DurableListeners
  <2>3. Fed(l)
    BY <2>1, Zenon DEF Fed
  <2> QED
    BY <1>1, <2>2, <2>3, Zenon DEF Home, SourceExchange
<1>6. \A l \in DurableListeners :
        d.from # DLQExchange(l) /\ (~Direct(l) => d.from # RetryExchange(l))
  BY <1>1, <1>2, ExchangeNames, ZenonT(30)
<1>7. \A l \in DurableListeners :
        /\ d # Bind(DLQ(queue(l)), DLQExchange(l), DLQKey(l))
        /\ ~Direct(l) => d # Bind(queue(l), RetryExchange(l), <<Hash>>)
  BY <1>6, Fields
<1> QED
  BY <1>1, <1>2, <1>3, <1>4, <1>5, <1>7, BindKinds, Zenon

\* What a queue that messages reach has with the retry topology.
LEMMA WiredParts ==
  ASSUME Whole(broker), withDLQRetry, NEW l \in DurableListeners, Fed(l)
  PROVE  /\ Queue(queue(l), DLQExchange(l)) \in broker
         /\ Queue(DLQ(queue(l)), RetryExchange(l)) \in broker
         /\ Bind(DLQ(queue(l)), DLQExchange(l), DLQKey(l)) \in broker
         /\ ~Direct(l) => Bind(queue(l), RetryExchange(l), <<Hash>>) \in broker
<1>1. Wiring(l) \subseteq broker
  BY Zenon DEF Whole, WiredFirst, Fed
<1> QED
  BY <1>1, Zenon DEF Wiring, RetryDecls, DeadLetterTo

\* A binding that a routing key takes.
LEMMA RouteBy ==
  ASSUME NEW q, NEW x, NEW key, NEW k, Bind(q, x, k) \in broker,
         IF x \in {DirectMessages, DirectDLQExchange} THEN k = key ELSE TopicMatches(key, k)
  PROVE  q \in Route(x, key)
<1>1. /\ Bind(q, x, k).op = "bind" /\ Bind(q, x, k).from = x /\ Bind(q, x, k).name = q
      /\ Bind(q, x, k).key = k
  BY Fields
<1> QED
  BY <1>1, Zenon DEF Route

\* A dead-letter exchange leads to the DLQ of the queue and to no other.
LEMMA RouteToDLQ ==
  ASSUME Whole(broker), withDLQRetry, NEW msg \in Messages, NEW l \in DurableListeners,
         Home(msg, l), Fed(l)
  PROVE  Route(DLQExchange(l), KeyOf(msg)) = {DLQ(queue(l))}
<1>1. DLQExchange(l) \in {DirectMessages, DirectDLQExchange} <=> Direct(l)
  BY ExchangeNames, Zenon
<1>2. IF DLQExchange(l) \in {DirectMessages, DirectDLQExchange}
      THEN DLQKey(l) = KeyOf(msg) ELSE TopicMatches(KeyOf(msg), DLQKey(l))
  BY <1>1, KeyMatchesHash, Zenon DEF DLQKey, Home
<1>3. DLQ(queue(l)) \in Route(DLQExchange(l), KeyOf(msg))
  BY <1>2, WiredParts, RouteBy, Zenon
<1>4. ASSUME NEW d \in broker, d.op = "bind", d.from = DLQExchange(l),
             Direct(l) => d.key = KeyOf(msg)
      PROVE  d.name = DLQ(queue(l))
  <2>1. d \in Declared
    BY Zenon DEF Whole
  <2>2. d.from \notin {DomainEvents, DirectMessages, GlobalReply}
        /\ \A o \in DurableListeners : d.from # RetryExchange(o)
    BY <1>4, ExchangeNames, Zenon
  <2>3. \A o \in DurableListeners : d \notin SourceBinds(o)
    BY <2>2, SourceShape, Zenon DEF SourceExchange
  <2>4. \A o \in DurableListeners : d # Bind(queue(o), RetryExchange(o), <<Hash>>)
    BY <2>2, Fields
  <2>5. PICK o \in DurableListeners : d = Bind(DLQ(queue(o)), DLQExchange(o), DLQKey(o))
    BY <1>4, <2>1, <2>2, <2>3, <2>4, BindKinds, Zenon
  <2>6. d.name = DLQ(queue(o)) /\ d.from = DLQExchange(o) /\ d.key = DLQKey(o)
    BY <2>5, Fields
  <2>7. CASE ~Direct(l)
    BY <1>4, <2>6, <2>7, ExchangeNames, Zenon
  <2>8. CASE Direct(l)
    <3>1. Direct(o)
      BY <1>4, <2>6, <2>8, ExchangeNames, Zenon
    <3>2. queue(o) = queue(l)
      BY <1>4, <2>6, <2>8, <3>1, Zenon DEF DLQKey, Home
    <3> QED
      BY <2>6, <3>2, Zenon
  <2> QED
    BY <2>7, <2>8
<1>5. \A q \in Route(DLQExchange(l), KeyOf(msg)) : q = DLQ(queue(l))
  BY <1>1, <1>4, Zenon DEF Route
<1> QED
  BY <1>3, <1>5, Zenon

\* The retry exchange leads back to the queue and to no other.
LEMMA RouteBack ==
  ASSUME Whole(broker), withDLQRetry, NEW msg \in Messages, NEW l \in DurableListeners,
         Home(msg, l), Fed(l)
  PROVE  Route(RetryExchange(l), KeyOf(msg)) = {queue(l)}
<1>1. RetryExchange(l) \in {DirectMessages, DirectDLQExchange} <=> Direct(l)
  BY ExchangeNames, Zenon
<1>2. queue(l) \in Route(RetryExchange(l), KeyOf(msg))
  <2>1. CASE Direct(l)
    <3>1. Bind(queue(l), DirectMessages, queue(l)) \in broker
      BY <2>1, Zenon DEF Fed, SourceBinds
    <3>2. RetryExchange(l) = DirectMessages /\ queue(l) = KeyOf(msg)
      BY <2>1, Zenon DEF RetryExchange, Home
    <3>3. queue(l) \in Route(DirectMessages, queue(l))
      BY <3>1, RouteBy, Zenon
    <3> QED
      BY <3>2, <3>3, Zenon
  <2>2. CASE ~Direct(l)
    <3>1. Bind(queue(l), RetryExchange(l), <<Hash>>) \in broker
      BY <2>2, WiredParts, Zenon
    <3>2. TopicMatches(KeyOf(msg), <<Hash>>)
      BY KeyMatchesHash
    <3>3. RetryExchange(l) \notin {DirectMessages, DirectDLQExchange}
      BY <1>1, <2>2, Zenon
    <3> QED
      BY <3>1, <3>2, <3>3, RouteBy, Zenon
  <2> QED
    BY <2>1, <2>2
<1>3. ASSUME NEW d \in broker, d.op = "bind", d.from = RetryExchange(l),
             Direct(l) => d.key = KeyOf(msg)
      PROVE  d.name = queue(l)
  <2>1. d \in Declared
    BY Zenon DEF Whole
  <2>2. d.from \notin {DomainEvents, GlobalReply} /\ \A o \in DurableListeners : d.from # DLQExchange(o)
    BY <1>3, ExchangeNames, Zenon
  <2>3. \A o \in DurableListeners : d # Bind(DLQ(queue(o)), DLQExchange(o), DLQKey(o))
    BY <2>2, Fields
  <2>4. \E o \in DurableListeners :
          \/ d \in SourceBinds(o)
          \/ ~Direct(o) /\ d = Bind(queue(o), RetryExchange(o), <<Hash>>)
    BY <1>3, <2>1, <2>2, <2>3, BindKinds, Zenon
  <2>5. ASSUME NEW o \in DurableListeners, d \in SourceBinds(o) PROVE d.name = queue(l)
    <3>1. d.name = queue(o) /\ d.from = SourceExchange(o) /\ (Direct(o) => d.key = queue(o))
      BY <2>5, SourceShape, Zenon
    <3>2. Direct(o) /\ d.from = DirectMessages
      BY <2>2, <3>1, Zenon DEF SourceExchange
    <3>3. Direct(l)
      BY <1>3, <3>2, ExchangeNames, Zenon
    <3> QED
      BY <1>3, <3>1, <3>2, <3>3, Zenon DEF Home
  <2>6. ASSUME NEW o \in DurableListeners, ~Direct(o),
               d = Bind(queue(o), RetryExchange(o), <<Hash>>)
        PROVE  d.name = queue(l)
    <3>1. d.name = queue(o) /\ d.from = RetryExchange(o)
      BY <2>6, Fields
    <3> QED
      BY <1>3, <2>6, <3>1, ExchangeNames, Zenon
  <2> QED
    BY <2>4, <2>5, <2>6, Zenon
<1>4. \A q \in Route(RetryExchange(l), KeyOf(msg)) : q = queue(l)
  BY <1>1, <1>3, Zenon DEF Route
<1> QED
  BY <1>2, <1>4, Zenon

\* Queue q has no dead-letter exchange but x.
OnlyDLX(q, x) ==
  \A d \in broker : d.op = "queue" /\ d.name = q /\ d.dlx # Nothing => d.dlx = x

\* Where a queue's dead-letter exchange leads is where its messages go.
LEMMA DeadLetterBy ==
  ASSUME NEW msg, NEW q, NEW x, NEW to, Route(x, KeyOf(msg)) = {to}, x # Nothing,
         Queue(q, x) \in broker, OnlyDLX(q, x)
  PROVE  DeadLetter(msg, q) = {<<msg, to>>}
<1> DEFINE D == {d \in broker : d.op = "queue" /\ d.name = q /\ d.dlx # Nothing}
           C(d) == {<<msg, t>> : t \in Route(d.dlx, KeyOf(msg))}
<1>1. Queue(q, x) \in D /\ Queue(q, x).dlx = x
  BY Fields
<1>2. \A d \in D : Route(d.dlx, KeyOf(msg)) = {to}
  BY Zenon DEF OnlyDLX
<1>3. \A d \in D : C(d) = {<<msg, to>>}
  BY <1>2, Zenon
<1>4. DeadLetter(msg, q) = UNION {C(d) : d \in D}
  BY Zenon DEF DeadLetter
<1> HIDE DEF C, D
<1> QED
  BY <1>1, <1>3, <1>4, Zenon

\* A message given up by a queue goes to the queue's DLQ, and back from there.
LEMMA DeadLetterRoundTrip ==
  ASSUME Whole(broker), withDLQRetry, NEW msg \in Messages, NEW l \in DurableListeners,
         Home(msg, l), Fed(l)
  PROVE  /\ DeadLetter(msg, queue(l)) = {<<msg, DLQ(queue(l))>>}
         /\ DeadLetter(msg, DLQ(queue(l))) = {<<msg, queue(l)>>}
<1>1. /\ Queue(queue(l), DLQExchange(l)) \in broker
      /\ Queue(DLQ(queue(l)), RetryExchange(l)) \in broker
  BY WiredParts, Zenon
<1>2. DLQExchange(l) # Nothing /\ RetryExchange(l) # Nothing
  BY ExchangeNames, Zenon
<1>3. ASSUME NEW d \in broker, d.op = "queue", d.dlx # Nothing
      PROVE  /\ d.name = queue(l) => d.dlx = DLQExchange(l)
             /\ d.name = DLQ(queue(l)) => d.dlx = RetryExchange(l)
  <2>1. d \in Declared
    BY Zenon DEF Whole
  <2>2. PICK o \in DurableListeners : \/ d = Queue(queue(o), DLQExchange(o))
                                     \/ d = Queue(DLQ(queue(o)), RetryExchange(o))
    BY <1>3, <2>1, QueueKinds, Zenon
  <2>3. \/ d.name = queue(o) /\ d.dlx = DLQExchange(o)
        \/ d.name = DLQ(queue(o)) /\ d.dlx = RetryExchange(o)
    BY <2>2, Fields
  <2>4. l \in Listeners /\ o \in Listeners
    BY Zenon DEF DurableListeners
  <2> QED
    BY <2>3, <2>4, QueueNames, Zenon
<1>4. DeadLetter(msg, queue(l)) = {<<msg, DLQ(queue(l))>>}
  <2>1. Route(DLQExchange(l), KeyOf(msg)) = {DLQ(queue(l))}
    BY RouteToDLQ
  <2>2. OnlyDLX(queue(l), DLQExchange(l))
    BY <1>3, Zenon DEF OnlyDLX
  <2> QED
    BY <1>1, <1>2, <2>1, <2>2, DeadLetterBy, Zenon
<1>5. DeadLetter(msg, DLQ(queue(l))) = {<<msg, queue(l)>>}
  <2>1. Route(RetryExchange(l), KeyOf(msg)) = {queue(l)}
    BY RouteBack
  <2>2. OnlyDLX(DLQ(queue(l)), RetryExchange(l))
    BY <1>3, Zenon DEF OnlyDLX
  <2> QED
    BY <1>1, <1>2, <2>1, <2>2, DeadLetterBy, Zenon
<1> QED
  BY <1>4, <1>5

\* Without the retry topology a message that is given up is gone.
LEMMA NoDeadLetter ==
  ASSUME Whole(broker), ~withDLQRetry, NEW msg, NEW q
  PROVE  DeadLetter(msg, q) = {}
<1>1. \A d \in broker : ~(d.op = "queue" /\ d.dlx # Nothing)
  BY QueueKinds, Zenon DEF Whole
<1> QED
  BY <1>1, Zenon DEF DeadLetter
-----------------------------------------------------------------------------
(* The life of a copy: a message in the queue of a listener.               *)

At(msg, l) == <<msg, queue(l)>>
InDLQ(msg, l) == <<msg, DLQ(queue(l))>>

IsRouted(msg, l) == At(msg, l) \in routed
IsReady(msg, l) == At(msg, l) \in ready
IsDead(msg, l) == InDLQ(msg, l) \in ready
IsHeld(msg, l) == hand[l].live /\ hand[l].m = msg
IsSettled(msg, l) == At(msg, l) \in settled
IsGivenUp(msg, l) == msg \in broken /\ ~withDLQRetry

\* A copy is in one place; in a durable queue it is in one until it is settled.
CopyOK(msg, l) ==
  /\ IsReady(msg, l) => IsRouted(msg, l) /\ ~IsSettled(msg, l) /\ ~IsDead(msg, l)
  /\ IsDead(msg, l) => /\ IsRouted(msg, l) /\ ~IsSettled(msg, l)
                       /\ l \in DurableListeners /\ withDLQRetry
  /\ IsHeld(msg, l) => /\ IsRouted(msg, l) /\ ~IsReady(msg, l) /\ ~IsDead(msg, l)
                       /\ IsSettled(msg, l) <=> l \notin DurableListeners
  /\ IsSettled(msg, l) => IsRouted(msg, l)
  /\ IsRouted(msg, l) => msg \in emitted /\ Home(msg, l) /\ (l \in DurableListeners => Fed(l))
  /\ IsRouted(msg, l) /\ l \in DurableListeners =>
       \/ IsSettled(msg, l) \/ IsReady(msg, l) \/ IsDead(msg, l) \/ IsHeld(msg, l)
       \/ IsGivenUp(msg, l)

SameRouted(msg, l) == IsRouted(msg, l)' <=> IsRouted(msg, l)
SameReady(msg, l) == IsReady(msg, l)' <=> IsReady(msg, l)
SameDead(msg, l) == IsDead(msg, l)' <=> IsDead(msg, l)
SameHeld(msg, l) == IsHeld(msg, l)' <=> IsHeld(msg, l)
SameSettled(msg, l) == IsSettled(msg, l)' <=> IsSettled(msg, l)

\* What may become of a copy in a step.
Stays(msg, l) ==
  /\ SameRouted(msg, l) /\ SameSettled(msg, l) /\ SameReady(msg, l) /\ SameDead(msg, l)
  /\ SameHeld(msg, l)
Published(msg, l) ==
  /\ msg \notin emitted /\ msg \in emitted' /\ SameSettled(msg, l) /\ SameDead(msg, l)
  /\ SameHeld(msg, l) /\ IsReady(msg, l)' /\ IsRouted(msg, l)'
  /\ Home(msg, l) /\ (l \in DurableListeners => Fed(l))
Returned(msg, l) ==
  /\ IsDead(msg, l) /\ ~IsDead(msg, l)' /\ IsReady(msg, l)'
  /\ SameRouted(msg, l) /\ SameSettled(msg, l) /\ SameHeld(msg, l)
Delivered(msg, l) ==
  /\ IsReady(msg, l) /\ ~IsReady(msg, l)' /\ IsHeld(msg, l)'
  /\ IF l \in DurableListeners THEN SameSettled(msg, l) ELSE IsSettled(msg, l)'
  /\ SameRouted(msg, l) /\ SameDead(msg, l)
Acked(msg, l) ==
  /\ IsHeld(msg, l) /\ ~IsHeld(msg, l)' /\ IsSettled(msg, l)'
  /\ SameRouted(msg, l) /\ SameReady(msg, l) /\ SameDead(msg, l)
Requeued(msg, l) ==
  /\ IsHeld(msg, l) /\ l \in DurableListeners /\ ~IsHeld(msg, l)' /\ IsReady(msg, l)'
  /\ SameRouted(msg, l) /\ SameSettled(msg, l) /\ SameDead(msg, l)
DeadLettered(msg, l) ==
  /\ IsHeld(msg, l) /\ l \in DurableListeners /\ withDLQRetry /\ ~IsHeld(msg, l)'
  /\ IsDead(msg, l)' /\ SameRouted(msg, l) /\ SameSettled(msg, l) /\ SameReady(msg, l)
GivenUp(msg, l) ==
  /\ IsHeld(msg, l) /\ ~IsHeld(msg, l)' /\ IsGivenUp(msg, l)
  /\ SameRouted(msg, l) /\ SameSettled(msg, l) /\ SameReady(msg, l) /\ SameDead(msg, l)
Dropped(msg, l) ==
  /\ l \notin DurableListeners
  /\ (IsHeld(msg, l)' => IsHeld(msg, l)) /\ (IsReady(msg, l)' => IsReady(msg, l))
  /\ SameRouted(msg, l) /\ SameSettled(msg, l) /\ SameDead(msg, l)

CopyStep(msg, l) ==
  \/ Stays(msg, l) \/ Published(msg, l) \/ Returned(msg, l) \/ Delivered(msg, l)
  \/ Acked(msg, l) \/ Requeued(msg, l) \/ DeadLettered(msg, l) \/ GivenUp(msg, l)
  \/ Dropped(msg, l)

\* What a step does not undo.
Context ==
  /\ withDLQRetry' = withDLQRetry /\ emitted \subseteq emitted'
  /\ \A msg \in emitted : msg \in broken' <=> msg \in broken
  /\ \A l \in DurableListeners : Fed(l) => Fed(l)'

\* In each of its steps a copy stays in one place.
LEMMA CopyKept ==
  ASSUME NEW msg, NEW l, CopyOK(msg, l), CopyStep(msg, l), Context
  PROVE  CopyOK(msg, l)'
<1>1. CASE Stays(msg, l)
  BY <1>1, Zenon DEF CopyOK, Context, Stays, SameRouted, SameReady, SameDead, SameHeld,
                    SameSettled, IsGivenUp
<1>2. CASE Published(msg, l)
  BY <1>2, Zenon DEF CopyOK, Context, Published, SameRouted, SameReady, SameDead, SameHeld,
                    SameSettled, IsGivenUp
<1>3. CASE Returned(msg, l)
  BY <1>3, Zenon DEF CopyOK, Context, Returned, SameRouted, SameReady, SameDead, SameHeld,
                    SameSettled, IsGivenUp
<1>4. CASE Delivered(msg, l)
  BY <1>4, Zenon DEF CopyOK, Context, Delivered, SameRouted, SameReady, SameDead, SameHeld,
                    SameSettled, IsGivenUp
<1>5. CASE Acked(msg, l)
  BY <1>5, Zenon DEF CopyOK, Context, Acked, SameRouted, SameReady, SameDead, SameHeld,
                    SameSettled, IsGivenUp
<1>6. CASE Requeued(msg, l)
  BY <1>6, Zenon DEF CopyOK, Context, Requeued, SameRouted, SameReady, SameDead, SameHeld,
                    SameSettled, IsGivenUp
<1>7. CASE DeadLettered(msg, l)
  BY <1>7, Zenon DEF CopyOK, Context, DeadLettered, SameRouted, SameReady, SameDead, SameHeld,
                    SameSettled, IsGivenUp
<1>8. CASE GivenUp(msg, l)
  BY <1>8, Zenon DEF CopyOK, Context, GivenUp, SameRouted, SameReady, SameDead, SameHeld,
                    SameSettled, IsGivenUp
<1>9. CASE Dropped(msg, l)
  BY <1>9, Zenon DEF CopyOK, Context, Dropped, SameRouted, SameReady, SameDead, SameHeld,
                    SameSettled, IsGivenUp
<1> QED
  BY <1>1, <1>2, <1>3, <1>4, <1>5, <1>6, <1>7, <1>8, <1>9, Zenon DEF CopyStep

CopyInv == \A msg \in Messages, l \in Listeners : CopyOK(msg, l)
CopiesStep == \A msg \in Messages, l \in Listeners : CopyStep(msg, l)

\* A delivery in hand is one of a message.
HandInv ==
  /\ hand \in [Listeners -> [m : Messages \cup {Nothing},
                            pc : {"idle", "dispatch", "resolve", "run"}, live : BOOLEAN]]
  /\ \A l \in Listeners : hand[l].live => hand[l].m \in Messages

\* Different copies are in different places.
LEMMA PlaceNames ==
  ASSUME NEW msg, NEW n, NEW l \in Listeners, NEW o \in Listeners
  PROVE  /\ At(msg, l) = At(n, o) => msg = n /\ l = o
         /\ InDLQ(msg, l) = InDLQ(n, o) => msg = n /\ l = o
         /\ At(msg, l) # InDLQ(n, o)
BY QueueNames, Zenon DEF At, InDLQ

\* Emit: the new message is published to its homes.
LEMMA EmitCopies ==
  ASSUME Whole(broker), CopyInv, NEW new \in Messages, NEW isBroken, Emit(new, isBroken)
  PROVE  CopiesStep
<1> DEFINE copies == {<<new, q>> : q \in Route(ExchangeOf(new), KeyOf(new))}
<1>1. /\ ready' = ready \cup copies /\ routed' = routed \cup copies
      /\ hand' = hand /\ settled' = settled /\ new \notin emitted /\ new \in emitted'
  BY Zenon DEF Emit
<1> SUFFICES ASSUME NEW msg \in Messages, NEW l \in Listeners PROVE CopyStep(msg, l)
  BY Zenon DEF CopiesStep
<1>2. SameHeld(msg, l) /\ SameSettled(msg, l)
  BY <1>1, Zenon DEF SameHeld, SameSettled, IsHeld, IsSettled
<1>3. InDLQ(msg, l) \notin copies
  <2> SUFFICES ASSUME DLQ(queue(l)) \in Route(ExchangeOf(new), KeyOf(new)) PROVE FALSE
    BY Zenon DEF InDLQ
  <2>1. PICK o \in Listeners : DLQ(queue(l)) = queue(o)
    BY RoutedHome, Zenon
  <2> QED
    BY <2>1, QueueNames, Zenon
<1>4. SameDead(msg, l)
  BY <1>1, <1>3, Zenon DEF SameDead, IsDead
<1>5. CASE At(msg, l) \notin copies
  <2>1. SameReady(msg, l) /\ SameRouted(msg, l)
    BY <1>1, <1>5, Zenon DEF SameReady, SameRouted, IsReady, IsRouted
  <2> QED
    BY <1>2, <1>4, <2>1, Zenon DEF CopyStep, Stays
<1>6. CASE At(msg, l) \in copies
  <2>1. msg = new /\ queue(l) \in Route(ExchangeOf(new), KeyOf(new))
    BY <1>6, Zenon DEF At
  <2>2. PICK o \in Listeners : queue(l) = queue(o) /\ Home(new, o) /\ (o \in DurableListeners => Fed(o))
    BY <2>1, RoutedHome, Zenon
  <2>3. l = o
    BY <2>2, QueueNames, Zenon
  <2>4. IsReady(msg, l)' /\ IsRouted(msg, l)'
    BY <1>1, <1>6, Zenon DEF IsReady, IsRouted
  <2> QED
    BY <1>1, <1>2, <1>4, <2>1, <2>2, <2>3, <2>4, Zenon DEF CopyStep, Published
<1> QED
  BY <1>5, <1>6, Zenon

\* Expire: a copy returns from the DLQ to its queue.
LEMMA ExpireCopies ==
  ASSUME Whole(broker), CopyInv, NEW n \in Messages, NEW q \in Queues, Expire(n, q)
  PROVE  CopiesStep
<1>1. PICK o \in Listeners : q = queue(o)
  <2>1. PICK a \in Apps, k \in Kinds : q = QueueOf(a, k)
    BY DEF Queues
  <2>2. <<a, k>> \in Listeners /\ queue(<<a, k>>) = q
    BY <2>1 DEF Listeners, queue
  <2> QED
    BY <2>2, Zenon
<1>2. IsDead(n, o) /\ CopyOK(n, o)
  BY <1>1, Zenon DEF Expire, IsDead, InDLQ, CopyInv
<1>3. DeadLetter(n, DLQ(queue(o))) = {At(n, o)}
  <2>1. withDLQRetry /\ o \in DurableListeners /\ Home(n, o) /\ Fed(o)
    BY <1>2, Zenon DEF CopyOK
  <2> QED
    BY <2>1, DeadLetterRoundTrip, Zenon DEF At
<1>4. /\ ready' = (ready \ {InDLQ(n, o)}) \cup {At(n, o)}
      /\ hand' = hand /\ settled' = settled /\ routed' = routed
  BY <1>1, <1>3, Zenon DEF Expire, InDLQ, logVars
<1> SUFFICES ASSUME NEW msg \in Messages, NEW l \in Listeners PROVE CopyStep(msg, l)
  BY Zenon DEF CopiesStep
<1>5. SameHeld(msg, l) /\ SameSettled(msg, l) /\ SameRouted(msg, l)
  BY <1>4, Zenon DEF SameHeld, SameSettled, SameRouted, IsHeld, IsSettled, IsRouted
<1>6. CASE msg = n /\ l = o
  <2>1. IsReady(msg, l)' /\ ~IsDead(msg, l)'
    BY <1>4, <1>6, PlaceNames, Zenon DEF IsReady, IsDead
  <2> QED
    BY <1>2, <1>5, <1>6, <2>1, Zenon DEF CopyStep, Returned
<1>7. CASE ~(msg = n /\ l = o)
  <2>1. At(msg, l) # At(n, o) /\ InDLQ(msg, l) # InDLQ(n, o)
    BY <1>7, PlaceNames
  <2>2. At(msg, l) # InDLQ(n, o) /\ InDLQ(msg, l) # At(n, o)
    BY PlaceNames, Zenon
  <2>3. SameReady(msg, l) /\ SameDead(msg, l)
    BY <1>4, <2>1, <2>2, Zenon DEF SameReady, SameDead, IsReady, IsDead
  <2> QED
    BY <1>5, <2>3, Zenon DEF CopyStep, Stays
<1> QED
  BY <1>6, <1>7, Zenon

\* Copies that a step does not name stay: the sets below change by the copy of n
\* in the queue of o only, and only that listener's hand changes.
OnlyCopy(n, o) ==
  /\ routed' = routed
  /\ \A c : c \notin {At(n, o), InDLQ(n, o)} => (c \in ready' <=> c \in ready)
  /\ \A c : c # At(n, o) => (c \in settled' <=> c \in settled)
  /\ \A l \in Listeners : l # o => hand'[l] = hand[l]

\* The others stay.
LEMMA OthersStay ==
  ASSUME NEW n \in Messages, NEW o \in Listeners, OnlyCopy(n, o), CopyStep(n, o),
         \A msg \in Messages : msg # n => SameHeld(msg, o)
  PROVE  CopiesStep
<1> SUFFICES ASSUME NEW msg \in Messages, NEW l \in Listeners, ~(msg = n /\ l = o)
             PROVE  Stays(msg, l)
  BY Zenon DEF CopiesStep, CopyStep
<1>1. At(msg, l) # At(n, o) /\ InDLQ(msg, l) # InDLQ(n, o)
  BY PlaceNames
<1>2. At(msg, l) # InDLQ(n, o) /\ InDLQ(msg, l) # At(n, o)
  BY PlaceNames, Zenon
<1>3. SameRouted(msg, l) /\ SameSettled(msg, l)
  BY <1>1, Zenon DEF OnlyCopy, SameRouted, SameSettled, IsRouted, IsSettled
<1>4. SameReady(msg, l) /\ SameDead(msg, l)
  BY <1>1, <1>2, Zenon DEF OnlyCopy, SameReady, SameDead, IsReady, IsDead
<1>5. SameHeld(msg, l)
  <2>1. CASE l # o
    BY <2>1, Zenon DEF OnlyCopy, SameHeld, IsHeld
  <2>2. CASE l = o
    BY <2>2, Zenon
  <2> QED
    BY <2>1, <2>2
<1> QED
  BY <1>3, <1>4, <1>5, Zenon DEF Stays

\* Deliver: a ready copy comes into the hand of the listener.
LEMMA DeliverCopies ==
  ASSUME CopyInv, HandInv, NEW n \in Messages, NEW o \in Listeners, Deliver(o, n)
  PROVE  CopiesStep
<1>1. /\ hand[o] = NoDelivery /\ At(n, o) \in ready /\ ready' = ready \ {At(n, o)}
      /\ hand' = [hand EXCEPT ![o] = [m |-> n, pc |-> "dispatch", live |-> TRUE]]
      /\ settled' = IF o[2] = "notification" THEN settled \cup {At(n, o)} ELSE settled
      /\ routed' = routed
  BY Zenon DEF Deliver, At, logVars
<1>2. /\ ~hand[o].live /\ hand'[o].live /\ hand'[o].m = n
      /\ \A l \in Listeners : l # o => hand'[l] = hand[l]
  BY <1>1 DEF HandInv, NoDelivery
<1>3. OnlyCopy(n, o)
  BY <1>1, <1>2, Zenon DEF OnlyCopy
<1>4. \A msg \in Messages : msg # n => SameHeld(msg, o)
  BY <1>2, Zenon DEF SameHeld, IsHeld
<1>5. CopyStep(n, o)
  <2>1. IsReady(n, o) /\ ~IsReady(n, o)' /\ IsHeld(n, o)'
    BY <1>1, <1>2, Zenon DEF IsReady, IsHeld
  <2>2. SameRouted(n, o) /\ SameDead(n, o)
    BY <1>1, PlaceNames, Zenon DEF SameRouted, SameDead, IsRouted, IsDead
  <2>3. IF o \in DurableListeners THEN SameSettled(n, o) ELSE IsSettled(n, o)'
    BY <1>1, Zenon DEF DurableListeners, SameSettled, IsSettled
  <2> QED
    BY <2>1, <2>2, <2>3, Zenon DEF CopyStep, Delivered
<1> QED
  BY <1>3, <1>4, <1>5, OthersStay, Zenon

\* Nothing happens to the copies.
LEMMA AllStay ==
  ASSUME UNCHANGED <<routed, ready, settled>>,
         \A l \in Listeners : /\ hand'[l].live <=> hand[l].live
                              /\ hand[l].live => hand'[l].m = hand[l].m
  PROVE  CopiesStep
<1> SUFFICES ASSUME NEW msg \in Messages, NEW l \in Listeners PROVE Stays(msg, l)
  BY Zenon DEF CopiesStep, CopyStep
<1>1. SameRouted(msg, l) /\ SameSettled(msg, l) /\ SameReady(msg, l) /\ SameDead(msg, l)
  BY Zenon DEF SameRouted, SameSettled, SameReady, SameDead, IsRouted, IsSettled, IsReady, IsDead
<1>2. SameHeld(msg, l)
  BY Zenon DEF SameHeld, IsHeld
<1> QED
  BY <1>1, <1>2, Zenon DEF Stays

\* The listener is done with a delivery.
LEMMA DoneHand ==
  ASSUME HandInv, NEW o \in Listeners, Done(o)
  PROVE  /\ ~hand'[o].live /\ \A l \in Listeners : l # o => hand'[l] = hand[l]
         /\ \A msg : ~IsHeld(msg, o)'
         /\ \A msg : msg # hand[o].m => SameHeld(msg, o)
<1>1. hand' = [hand EXCEPT ![o] = NoDelivery]
  BY Zenon DEF Done
<1>2. ~hand'[o].live /\ \A l \in Listeners : l # o => hand'[l] = hand[l]
  BY <1>1 DEF HandInv, NoDelivery
<1>3. \A msg : ~IsHeld(msg, o)'
  BY <1>2, Zenon DEF IsHeld
<1> QED
  BY <1>2, <1>3, Zenon DEF SameHeld, IsHeld

\* On a channel that is gone the end of a dispatch changes no copy.
LEMMA DeadChannelStays ==
  ASSUME HandInv, NEW o \in Listeners, Done(o), ~hand[o].live,
         UNCHANGED <<routed, ready, settled>>
  PROVE  CopiesStep
<1>1. \A l \in Listeners : /\ hand'[l].live <=> hand[l].live
                           /\ hand[l].live => hand'[l].m = hand[l].m
  BY DoneHand, Zenon
<1> QED
  BY <1>1, AllStay, Zenon

\* An ack settles the copy in hand.
LEMMA AckDone ==
  ASSUME HandInv, NEW o \in Listeners, Ack(o), Done(o), routed' = routed
  PROVE  CopiesStep
<1>1. PICK n : n = hand[o].m
  OBVIOUS
<1>2. CASE ~hand[o].live
  BY <1>2, DeadChannelStays, Zenon DEF Ack
<1>3. CASE hand[o].live
  <2>1. n \in Messages /\ settled' = settled \cup {At(n, o)} /\ ready' = ready
    BY <1>1, <1>3, Zenon DEF HandInv, Ack, copy, m, At
  <2>2. OnlyCopy(n, o)
    BY <2>1, DoneHand, Zenon DEF OnlyCopy
  <2>3. IsHeld(n, o) /\ ~IsHeld(n, o)' /\ IsSettled(n, o)'
    BY <1>1, <1>3, <2>1, DoneHand, Zenon DEF IsHeld, IsSettled
  <2>4. SameRouted(n, o) /\ SameReady(n, o) /\ SameDead(n, o)
    BY <2>1, Zenon DEF SameRouted, SameReady, SameDead, IsRouted, IsReady, IsDead
  <2>5. CopyStep(n, o)
    BY <2>3, <2>4, Zenon DEF CopyStep, Acked
  <2> QED
    BY <1>1, <2>1, <2>2, <2>5, DoneHand, OthersStay, Zenon
<1> QED
  BY <1>2, <1>3, ZenonT(30)

\* A nack puts the copy in hand back, or in the DLQ, or gives it up.
LEMMA NackDone ==
  ASSUME Whole(broker), CopyInv, HandInv, NEW o \in Listeners, NEW requeue \in BOOLEAN,
         Nack(o, requeue), Done(o), routed' = routed,
         requeue \/ withDLQRetry \/ hand[o].m \in broken
  PROVE  CopiesStep
<1>1. PICK n : n = hand[o].m
  OBVIOUS
<1>2. CASE ~hand[o].live
  BY <1>2, DeadChannelStays, Zenon DEF Nack
<1>3. ASSUME hand[o].live PROVE CopiesStep
  <2>1. n \in Messages /\ settled' = settled
    BY <1>1, <1>3, Zenon DEF HandInv, Nack
  <2>2. IsHeld(n, o) /\ ~IsHeld(n, o)' /\ SameRouted(n, o) /\ SameSettled(n, o)
    BY <1>1, <1>3, <2>1, DoneHand, Zenon DEF IsHeld, IsSettled, SameRouted, SameSettled, IsRouted
  <2>3. At(n, o) # InDLQ(n, o)
    BY PlaceNames, Zenon
  <2>4. CASE o \notin DurableListeners
    <3>1. ready' = ready
      BY <2>4, Zenon DEF Nack, DurableListeners
    <3>2. OnlyCopy(n, o)
      BY <2>1, <3>1, DoneHand, Zenon DEF OnlyCopy
    <3>3. CopyStep(n, o)
      BY <2>2, <2>4, <3>1, Zenon DEF CopyStep, Dropped, IsReady, SameDead, IsDead
    <3> QED
      BY <1>1, <2>1, <3>2, <3>3, DoneHand, OthersStay, Zenon
  <2>5. CASE o \in DurableListeners /\ requeue
    <3>1. ready' = ready \cup {At(n, o)}
      BY <1>1, <1>3, <2>5, Zenon DEF Nack, DurableListeners, At, copy, m
    <3>2. OnlyCopy(n, o)
      BY <2>1, <3>1, DoneHand, Zenon DEF OnlyCopy
    <3>3. CopyStep(n, o)
      BY <2>2, <2>3, <2>5, <3>1, ZenonT(30) DEF CopyStep, Requeued, IsReady, SameDead, IsDead
    <3> QED
      BY <1>1, <2>1, <3>2, <3>3, DoneHand, OthersStay, Zenon
  <2>6. CASE o \in DurableListeners /\ ~requeue /\ withDLQRetry
    <3>1. CopyOK(n, o)
      BY <2>1, Zenon DEF CopyInv
    <3>2. Home(n, o) /\ Fed(o)
      BY <2>2, <2>6, <3>1, Zenon DEF CopyOK
    <3>3. DeadLetter(n, queue(o)) = {InDLQ(n, o)}
      BY <2>1, <2>6, <3>2, DeadLetterRoundTrip, Zenon DEF InDLQ
    <3>4. ready' = ready \cup {InDLQ(n, o)}
      BY <1>1, <1>3, <2>6, <3>3, Zenon DEF Nack, DurableListeners, m
    <3>5. OnlyCopy(n, o)
      BY <2>1, <3>4, DoneHand, Zenon DEF OnlyCopy
    <3>6. CopyStep(n, o)
      BY <2>2, <2>3, <2>6, <3>4, ZenonT(30) DEF CopyStep, DeadLettered, IsDead, SameReady, IsReady
    <3> QED
      BY <1>1, <2>1, <3>5, <3>6, DoneHand, OthersStay, Zenon
  <2>7. CASE o \in DurableListeners /\ ~requeue /\ ~withDLQRetry
    <3>1. DeadLetter(n, queue(o)) = {}
      BY <2>7, NoDeadLetter, Zenon
    <3>2. ready' = ready
      BY <1>1, <1>3, <2>7, <3>1, Zenon DEF Nack, DurableListeners, m
    <3>3. OnlyCopy(n, o)
      BY <2>1, <3>2, DoneHand, Zenon DEF OnlyCopy
    <3>4. CopyStep(n, o)
      BY <1>1, <2>2, <2>7, <3>2, Zenon DEF CopyStep, GivenUp, IsGivenUp, SameReady, IsReady,
                                    SameDead, IsDead
    <3> QED
      BY <1>1, <2>1, <3>3, <3>4, DoneHand, OthersStay, Zenon
  <2> QED
    BY <2>4, <2>5, <2>6, <2>7, Zenon
<1> QED
  BY <1>2, <1>3

\* A dispatch goes on with the delivery in hand.
LEMMA GotoCopies ==
  ASSUME HandInv, NEW o \in Listeners, NEW pc, Goto(o, pc), UNCHANGED <<routed, ready, settled>>
  PROVE  CopiesStep
<1>1. \A l \in Listeners : hand'[l].live = hand[l].live /\ hand'[l].m = hand[l].m
  BY DEF Goto, HandInv
<1> QED
  BY <1>1, AllStay, Zenon

\* Found: the handler is called, or the copy is acked.
LEMMA FoundCopies ==
  ASSUME HandInv, NEW o \in Listeners, NEW pattern, Found(o, pattern), routed' = routed
  PROVE  CopiesStep
<1>1. CASE pattern = Nothing
  BY <1>1, AckDone, Zenon DEF Found, Discard
<1>2. CASE pattern # Nothing
  BY <1>2, GotoCopies, Zenon DEF Found
<1> QED
  BY <1>1, <1>2

\* The steps of a listener.
LEMMA ListenerCopies ==
  ASSUME Whole(broker), CopyInv, HandInv, withDLQRetry \in BOOLEAN, NEW o \in Listeners,
         dispatch(o) \/ resolve(o) \/ Handled(o) \/ Failed(o)
  PROVE  CopiesStep
<1>1. routed' = routed
  BY Zenon DEF dispatch, resolve, Handled, Failed, logVars
<1>2. CASE dispatch(o) /\ hand[o].m \in broken
  BY <1>1, <1>2, NackDone, Zenon DEF dispatch, m
<1>3. CASE dispatch(o) /\ hand[o].m \notin broken
  <2>1. \/ \E pattern : Found(o, pattern)
        \/ Goto(o, "resolve") /\ UNCHANGED <<ready, settled>>
    BY <1>3, Zenon DEF dispatch, m
  <2> QED
    BY <1>1, <2>1, FoundCopies, GotoCopies, Zenon
<1>4. CASE resolve(o)
  BY <1>1, <1>4, FoundCopies, Zenon DEF resolve
<1>5. CASE Handled(o)
  BY <1>1, <1>5, AckDone, Zenon DEF Handled
<1>6. CASE Failed(o)
  <2>1. Nack(o, ~withDLQRetry) /\ Done(o) /\ (~withDLQRetry) \in BOOLEAN
    BY <1>6, Zenon DEF Failed
  <2> QED
    BY <1>1, <2>1, NackDone, Zenon
<1> QED
  BY <1>2, <1>3, <1>4, <1>5, <1>6, Zenon

\* The temporary queues of an app are the queue of its notifications and that of
\* its replies.
LEMMA TempNames ==
  ASSUME NEW l \in Listeners, NEW a \in Apps
  PROVE  /\ DLQ(queue(l)) \notin TempQueues(a)
         /\ queue(l) \in TempQueues(a) => l \notin DurableListeners
<1>1. PICK b \in Apps, j \in Kinds : l = <<b, j>>
  BY DEF Listeners
<1>2. queue(l) = QueueOf(b, j)
  BY <1>1 DEF queue
<1>3. DLQ(QueueOf(b, j)) \notin TempQueues(a)
  BY ONLY j \in Kinds, NamesOf, SMTT(20) DEF Kinds, TempQueues, ReplyQueue
<1> QED
  BY <1>2, <1>3, DurableNames, Zenon

\* The queues of an app that are deleted with its connection.
Kept(a) == {c \in ready : c[2] \notin TempQueues(a)}

\* Only copies of notifications are deleted.
LEMMA KeptCopies ==
  ASSUME NEW msg, NEW l \in Listeners, NEW a \in Apps
  PROVE  /\ InDLQ(msg, l) \in Kept(a) <=> IsDead(msg, l)
         /\ At(msg, l) \in Kept(a) => IsReady(msg, l)
         /\ l \in DurableListeners => (At(msg, l) \in Kept(a) <=> IsReady(msg, l))
<1>1. At(msg, l)[2] = queue(l) /\ InDLQ(msg, l)[2] = DLQ(queue(l))
  BY DEF At, InDLQ
<1> QED
  BY <1>1, TempNames, Zenon DEF Kept, IsDead, IsReady

\* A bring-up that fails deletes copies of notifications at most.
LEMMA FailCopies ==
  ASSUME NEW a \in Apps, ready' = ready \/ ready' = Kept(a), UNCHANGED <<routed, settled, hand>>
  PROVE  CopiesStep
<1> SUFFICES ASSUME NEW msg \in Messages, NEW l \in Listeners PROVE CopyStep(msg, l)
  BY Zenon DEF CopiesStep
<1>1. SameHeld(msg, l) /\ SameSettled(msg, l) /\ SameRouted(msg, l)
  BY Zenon DEF SameHeld, SameSettled, SameRouted, IsHeld, IsSettled, IsRouted
<1>2. /\ SameDead(msg, l) /\ (IsReady(msg, l)' => IsReady(msg, l))
      /\ l \in DurableListeners => SameReady(msg, l)
  BY KeptCopies, Zenon DEF SameDead, IsDead, IsReady, SameReady
<1> QED
  BY <1>1, <1>2, Zenon DEF CopyStep, Stays, Dropped, SameHeld

\* A lost connection requeues the copies in hand, except those of notifications.
LEMMA DropCopies ==
  ASSUME HandInv, NEW a \in Apps, Drop(a)
  PROVE  CopiesStep
<1> DEFINE R == {<<hand[<<a, k>>].m, QueueOf(a, k)>> :
                   k \in {k \in Kinds \ {"notification"} : hand[<<a, k>>].live}}
<1>1. ready' = Kept(a) \cup R /\ routed' = routed /\ settled' = settled
  BY Zenon DEF Drop, Kept, logVars
<1>2. ASSUME NEW l \in Listeners
      PROVE  /\ hand'[l].m = hand[l].m
             /\ hand'[l].live <=> (l[1] # a /\ hand[l].live)
  BY DEF Drop, HandInv
<1>3. ASSUME NEW msg, NEW l \in Listeners
      PROVE  /\ At(msg, l) \in R <=> (l[1] = a /\ l \in DurableListeners /\ IsHeld(msg, l))
             /\ InDLQ(msg, l) \notin R
  <2>1. PICK b \in Apps, j \in Kinds : l = <<b, j>>
    BY DEF Listeners
  <2>2. /\ l[1] = b /\ l[2] = j /\ queue(l) = QueueOf(b, j)
        /\ (l \in DurableListeners <=> j # "notification")
    BY <2>1, ZenonT(30) DEF queue, DurableListeners
  <2>3. ASSUME NEW k \in Kinds
        PROVE  /\ QueueOf(b, j) = QueueOf(a, k) => b = a /\ j = k
               /\ DLQ(QueueOf(b, j)) # QueueOf(a, k)
    <3>1. <<a, k>> \in Listeners /\ queue(<<a, k>>) = QueueOf(a, k)
      BY DEF Listeners, queue
    <3> QED
      BY <2>1, <2>2, <3>1, QueueNames, ZenonT(30)
  <2>4. InDLQ(msg, l) \notin R
    BY <2>2, <2>3, Zenon DEF InDLQ
  <2>5. At(msg, l) \in R => b = a /\ j # "notification" /\ hand[l].live /\ hand[l].m = msg
    BY <2>1, <2>2, <2>3, Zenon DEF At
  <2>6. b = a /\ j # "notification" /\ hand[l].live /\ hand[l].m = msg => At(msg, l) \in R
    BY <2>1, <2>2, Zenon DEF At
  <2> QED
    BY <2>2, <2>4, <2>5, <2>6, Zenon DEF IsHeld
<1> HIDE DEF R
<1> SUFFICES ASSUME NEW msg \in Messages, NEW l \in Listeners PROVE CopyStep(msg, l)
  BY Zenon DEF CopiesStep
<1>4. SameSettled(msg, l) /\ SameRouted(msg, l)
  BY <1>1, Zenon DEF SameSettled, SameRouted, IsSettled, IsRouted
<1>5. SameDead(msg, l)
  BY <1>1, <1>3, KeptCopies, Zenon DEF SameDead, IsDead
<1>6. IsHeld(msg, l)' <=> (l[1] # a /\ IsHeld(msg, l))
  BY <1>2, Zenon DEF IsHeld
<1>7. CASE l \notin DurableListeners
  <2>1. IsReady(msg, l)' => IsReady(msg, l)
    BY <1>1, <1>3, <1>7, KeptCopies, Zenon DEF IsReady
  <2> QED
    BY <1>4, <1>5, <1>6, <1>7, <2>1, Zenon DEF CopyStep, Dropped
<1>8. CASE l \in DurableListeners /\ l[1] = a /\ IsHeld(msg, l)
  <2>1. IsReady(msg, l)'
    BY <1>1, <1>3, <1>8, Zenon DEF IsReady
  <2> QED
    BY <1>4, <1>5, <1>6, <1>8, <2>1, Zenon DEF CopyStep, Requeued
<1>9. CASE l \in DurableListeners /\ ~(l[1] = a /\ IsHeld(msg, l))
  <2>1. SameReady(msg, l)
    BY <1>1, <1>3, <1>9, KeptCopies, Zenon DEF SameReady, IsReady
  <2> QED
    BY <1>4, <1>5, <1>6, <1>9, <2>1, Zenon DEF CopyStep, Stays, SameHeld
<1> QED
  BY <1>7, <1>8, <1>9

\* The steps of an app.
LEMMA AppCopies ==
  ASSUME HandInv, NEW a \in Apps, Start(a) \/ Declare(a) \/ startListeners(a) \/ Drop(a)
  PROVE  CopiesStep
<1>1. CASE Drop(a)
  BY <1>1, DropCopies
<1>2. ASSUME NEW B, Fail(a, B) PROVE ready' = ready \/ ready' = Kept(a)
  BY <1>2, Zenon DEF Fail, Kept
<1>3. CASE Start(a) \/ Declare(a) \/ startListeners(a)
  <2>1. UNCHANGED <<routed, settled, hand>>
    BY <1>3, Zenon DEF Start, Declare, startListeners, logVars
  <2>2. ready' = ready \/ ready' = Kept(a)
    BY <1>2, <1>3, Zenon DEF Start, Declare, startListeners
  <2> QED
    BY <2>1, <2>2, FailCopies, Zenon
<1> QED
  BY <1>1, <1>3

\* Every step of the system moves every copy in one of these ways.
LEMMA EveryStepCopies ==
  ASSUME Whole(broker), CopyInv, HandInv, ConfigInv, [Next]_vars
  PROVE  CopiesStep
<1>1. CASE \E msg \in Messages : \/ \E isBroken \in BOOLEAN : Emit(msg, isBroken)
                                 \/ \E q \in Queues : Expire(msg, q)
                                 \/ \E l \in Listeners : Deliver(l, msg)
  BY <1>1, EmitCopies, ExpireCopies, DeliverCopies, Zenon
<1>2. CASE \E h \in scenario.late : Register(h[1], h[2], h[3])
  BY <1>2, AllStay, Zenon DEF Register, logVars
<1>3. CASE \E a \in Apps : Start(a) \/ Declare(a) \/ startListeners(a) \/ Drop(a)
  BY <1>3, AppCopies, Zenon
<1>4. CASE \E l \in Listeners : dispatch(l) \/ resolve(l) \/ Handled(l) \/ Failed(l)
  BY <1>4, ListenerCopies, Zenon DEF ConfigInv
<1>5. CASE UNCHANGED vars
  BY <1>5, AllStay, Zenon DEF vars, logVars
<1> QED
  BY <1>1, <1>2, <1>3, <1>4, <1>5, Zenon DEF Next

-----------------------------------------------------------------------------
(* No message is lost, and none strays.                                    *)

\* What was published stays so, and what carries it to its queues stays declared.
LEMMA ContextStep ==
  ASSUME RegistryInv, Whole(broker), [Next]_vars
  PROVE  Context
<1>1. withDLQRetry' = withDLQRetry
  BY ConfigFixed
<1>2. \A l \in DurableListeners : Fed(l) => Fed(l)'
  BY TopologyStep, Zenon DEF Fed
<1>3. emitted \subseteq emitted' /\ \A msg \in emitted : msg \in broken' <=> msg \in broken
  <2>1. CASE \E msg \in Messages, isBroken \in BOOLEAN : Emit(msg, isBroken)
    BY <2>1, Zenon DEF Emit
  <2>2. CASE UNCHANGED logVars
    BY <2>2, Zenon DEF logVars
  <2>3. ASSUME NEW h \in scenario.late, Register(h[1], h[2], h[3]) PROVE UNCHANGED logVars
    BY <2>3, Zenon DEF Register
  <2>4. ASSUME NEW a \in Apps, Start(a) \/ Declare(a) \/ startListeners(a) \/ Drop(a)
        PROVE  UNCHANGED logVars
    BY <2>4, Zenon DEF Start, Declare, startListeners, Drop
  <2>5. ASSUME NEW l \in Listeners, dispatch(l) \/ resolve(l) \/ Handled(l) \/ Failed(l)
        PROVE  UNCHANGED logVars
    BY <2>5, Zenon DEF dispatch, resolve, Handled, Failed
  <2>6. ASSUME NEW msg \in Messages,
               (\E q \in Queues : Expire(msg, q)) \/ (\E l \in Listeners : Deliver(l, msg))
        PROVE  UNCHANGED logVars
    BY <2>6, Zenon DEF Expire, Deliver
  <2>7. CASE UNCHANGED vars
    BY <2>2, <2>7, Zenon DEF vars
  <2> QED
    BY <2>1, <2>2, <2>3, <2>4, <2>5, <2>6, <2>7, Zenon DEF Next
<1> QED
  BY <1>1, <1>2, <1>3, Zenon DEF Context

Delivery == [m : Messages \cup {Nothing}, pc : {"idle", "dispatch", "resolve", "run"},
             live : BOOLEAN]

\* How a step changes the hands.
LEMMA HandMoves ==
  ASSUME [Next]_vars
  PROVE  \/ UNCHANGED hand
         \/ \E o \in Listeners : \/ \E msg \in Messages : Deliver(o, msg)
                                 \/ Done(o) \/ Goto(o, "resolve") \/ Goto(o, "run")
         \/ \E a \in Apps : Drop(a)
<1>1. ASSUME NEW l \in Listeners, NEW pattern, Found(l, pattern) PROVE Done(l) \/ Goto(l, "run")
  BY <1>1, Zenon DEF Found, Discard
<1>2. ASSUME NEW l \in Listeners, dispatch(l) \/ resolve(l) \/ Handled(l) \/ Failed(l)
      PROVE  Done(l) \/ Goto(l, "resolve") \/ Goto(l, "run")
  BY <1>1, <1>2, Zenon DEF dispatch, resolve, Handled, Failed
<1>3. ASSUME NEW a \in Apps, Start(a) \/ Declare(a) \/ startListeners(a) PROVE UNCHANGED hand
  BY <1>3, Zenon DEF Start, Declare, startListeners
<1>4. ASSUME NEW msg \in Messages, NEW q, NEW isBroken, Emit(msg, isBroken) \/ Expire(msg, q)
      PROVE  UNCHANGED hand
  BY <1>4, Zenon DEF Emit, Expire
<1>5. ASSUME NEW h \in scenario.late, Register(h[1], h[2], h[3]) PROVE UNCHANGED hand
  BY <1>5, Zenon DEF Register
<1>6. CASE UNCHANGED vars
  BY <1>6, Zenon DEF vars
<1> QED
  BY <1>2, <1>3, <1>4, <1>5, <1>6, Zenon DEF Next

\* What is in a hand is a message.
LEMMA HandStep ==
  ASSUME HandInv, [Next]_vars
  PROVE  HandInv'
<1>1. /\ hand \in [Listeners -> Delivery]
      /\ \A l \in Listeners : hand[l].live => hand[l].m \in Messages
  BY DEF HandInv, Delivery
<1> SUFFICES /\ hand' \in [Listeners -> Delivery]
             /\ \A l \in Listeners : hand'[l].live => hand'[l].m \in Messages
  BY DEF HandInv, Delivery
<1>2. CASE UNCHANGED hand
  BY <1>1, <1>2, Zenon
<1>3. ASSUME NEW o \in Listeners, NEW d \in Delivery, hand' = [hand EXCEPT ![o] = d],
             d.live => d.m \in Messages
      PROVE  /\ hand' \in [Listeners -> Delivery]
             /\ \A l \in Listeners : hand'[l].live => hand'[l].m \in Messages
  BY <1>1, <1>3, Zenon
<1>4. ASSUME NEW o \in Listeners, Done(o) PROVE
      \E d \in Delivery : hand' = [hand EXCEPT ![o] = d] /\ (d.live => d.m \in Messages)
  <2>1. NoDelivery \in Delivery /\ ~NoDelivery.live
    BY DEF NoDelivery, Delivery
  <2> QED
    BY <1>4, <2>1, Zenon DEF Done
<1>5. ASSUME NEW o \in Listeners, NEW msg \in Messages, Deliver(o, msg) PROVE
      \E d \in Delivery : hand' = [hand EXCEPT ![o] = d] /\ (d.live => d.m \in Messages)
  <2> DEFINE d == [m |-> msg, pc |-> "dispatch", live |-> TRUE]
  <2>1. d \in Delivery /\ d.m = msg
    BY DEF Delivery
  <2>2. hand' = [hand EXCEPT ![o] = d]
    BY <1>5, Zenon DEF Deliver
  <2> HIDE DEF d
  <2> QED
    BY <2>1, <2>2, Zenon
<1>6. ASSUME NEW o \in Listeners, NEW pc \in {"resolve", "run"}, Goto(o, pc) PROVE
      \E d \in Delivery : hand' = [hand EXCEPT ![o] = d] /\ (d.live => d.m \in Messages)
  <2> DEFINE d == [hand[o] EXCEPT !.pc = pc]
  <2>1. hand[o] \in Delivery
    BY <1>1, Zenon
  <2>2. d \in Delivery /\ d.live = hand[o].live /\ d.m = hand[o].m
    BY <2>1 DEF Delivery
  <2>3. hand' = [hand EXCEPT ![o] = d]
    BY <1>6 DEF Goto
  <2> HIDE DEF d
  <2> QED
    BY <1>1, <2>2, <2>3, Zenon
<1>7. ASSUME NEW a \in Apps, Drop(a)
      PROVE  /\ hand' \in [Listeners -> Delivery]
             /\ \A l \in Listeners : hand'[l].live => hand'[l].m \in Messages
  <2> DEFINE gone(l) == [hand[l] EXCEPT !.live = FALSE]
  <2>1. hand' = [l \in Listeners |-> IF l[1] = a THEN gone(l) ELSE hand[l]]
    BY <1>7, Zenon DEF Drop
  <2>2. ASSUME NEW l \in Listeners PROVE gone(l) \in Delivery /\ ~gone(l).live /\ hand[l] \in Delivery
    <3>1. hand[l] \in Delivery
      BY <1>1, Zenon
    <3> QED
      BY <3>1, Zenon DEF Delivery
  <2> HIDE DEF gone
  <2> QED
    BY <1>1, <2>1, <2>2, Zenon
<1> QED
  BY <1>2, <1>3, <1>4, <1>5, <1>6, <1>7, HandMoves, Zenon

\* Every copy is in the queue of a listener or in the DLQ of one.
Placed(c) == \E msg \in Messages, l \in Listeners : c = At(msg, l)
ShapeInv ==
  /\ \A c \in routed : Placed(c)
  /\ \A c \in ready : Placed(c) \/ \E msg \in Messages, l \in Listeners : c = InDLQ(msg, l)

\* What is dead-lettered arrives in such a queue.
LEMMA DeadLetterPlaces ==
  ASSUME Whole(broker), NEW msg \in Messages, NEW q, NEW c \in DeadLetter(msg, q)
  PROVE  \E l \in Listeners : c = At(msg, l) \/ c = InDLQ(msg, l)
<1>1. PICK d \in broker : /\ d.op = "queue" /\ d.dlx # Nothing
                          /\ \E to \in Route(d.dlx, KeyOf(msg)) : c = <<msg, to>>
  BY Zenon DEF DeadLetter
<1>2. PICK to \in Route(d.dlx, KeyOf(msg)) : c = <<msg, to>>
  BY <1>1
<1>3. d.dlx # GlobalReply
  <2>1. PICK o \in DurableListeners : \/ d = Queue(queue(o), DLQExchange(o))
                                     \/ d = Queue(DLQ(queue(o)), RetryExchange(o))
    BY <1>1, QueueKinds, Zenon DEF Whole
  <2>2. d.dlx = DLQExchange(o) \/ d.dlx = RetryExchange(o)
    <3>1. ASSUME d = Queue(queue(o), DLQExchange(o)) PROVE d.dlx = DLQExchange(o)
      BY ONLY <3>1, ZenonT(30) DEF Queue
    <3>2. ASSUME d = Queue(DLQ(queue(o)), RetryExchange(o)) PROVE d.dlx = RetryExchange(o)
      BY ONLY <3>2, ZenonT(30) DEF Queue
    <3> QED
      BY <2>1, <3>1, <3>2, Zenon
  <2> QED
    BY <2>2, ExchangeNames, Zenon
<1>4. PICK b \in broker : b.op = "bind" /\ b.from = d.dlx /\ b.name = to
  BY <1>2, Zenon DEF Route
<1>5. \E l \in Listeners : to = queue(l) \/ to = DLQ(queue(l))
  <2>1. ASSUME NEW a \in Apps, b.name = QueueOf(a, "notification")
        PROVE  \E l \in Listeners : to = queue(l)
    <3>1. <<a, "notification">> \in Listeners /\ queue(<<a, "notification">>) = b.name
      BY <2>1 DEF Listeners, Kinds, queue
    <3> QED
      BY <1>4, <3>1, Zenon
  <2>2. ASSUME NEW l \in DurableListeners, b \in SourceBinds(l) PROVE to = queue(l)
    BY <1>4, <2>2, SourceShape, ZenonT(30)
  <2>3. ASSUME NEW l \in DurableListeners,
               \/ b = Bind(DLQ(queue(l)), DLQExchange(l), DLQKey(l))
               \/ b = Bind(queue(l), RetryExchange(l), <<Hash>>)
        PROVE  to = queue(l) \/ to = DLQ(queue(l))
    <3>1. ASSUME b = Bind(DLQ(queue(l)), DLQExchange(l), DLQKey(l)) PROVE b.name = DLQ(queue(l))
      BY ONLY <3>1, ZenonT(30) DEF Bind
    <3>2. ASSUME b = Bind(queue(l), RetryExchange(l), <<Hash>>) PROVE b.name = queue(l)
      BY ONLY <3>2, ZenonT(30) DEF Bind
    <3> QED
      BY <1>4, <2>3, <3>1, <3>2, Zenon
  <2>4. b \in Declared /\ DurableListeners \subseteq Listeners
    BY Zenon DEF Whole, DurableListeners
  <2> QED
    BY <1>3, <1>4, <2>1, <2>2, <2>3, <2>4, BindKinds, Zenon
<1> QED
  BY <1>2, <1>5, Zenon DEF At, InDLQ

\* How a step adds copies: a publish, a dead-lettering, or a requeue of what is in
\* a hand.
LEMMA CopyMoves ==
  ASSUME [Next]_vars
  PROVE  \/ \E msg \in Messages, isBroken \in BOOLEAN : Emit(msg, isBroken)
         \/ /\ UNCHANGED routed
            /\ \A c \in ready' : \/ c \in ready
                                 \/ \E msg \in Messages : \E q : c \in DeadLetter(msg, q)
                                 \/ \E l \in Listeners : hand[l].live /\ c = copy(l)
                                 \/ \E l \in Listeners : hand[l].live /\ c \in DeadLetter(m(l), queue(l))
<1> DEFINE Adds == \A c \in ready' : \/ c \in ready
                                     \/ \E msg \in Messages : \E q : c \in DeadLetter(msg, q)
                                     \/ \E l \in Listeners : hand[l].live /\ c = copy(l)
                                     \/ \E l \in Listeners : hand[l].live /\ c \in DeadLetter(m(l), queue(l))
<1>1. ASSUME NEW msg \in Messages, NEW q, Expire(msg, q) PROVE Adds /\ UNCHANGED routed
  BY <1>1, Zenon DEF Expire, logVars
<1>2. ASSUME NEW msg \in Messages, NEW l, Deliver(l, msg) PROVE Adds /\ UNCHANGED routed
  BY <1>2, Zenon DEF Deliver, logVars
<1>3. ASSUME NEW h \in scenario.late, Register(h[1], h[2], h[3]) PROVE Adds /\ UNCHANGED routed
  BY <1>3, Zenon DEF Register, logVars
<1>4. ASSUME NEW a \in Apps, Start(a) \/ Declare(a) \/ startListeners(a)
      PROVE  Adds /\ UNCHANGED routed
  <2>1. ASSUME NEW B, Fail(a, B) PROVE Adds
    BY <2>1, Zenon DEF Fail
  <2> QED
    BY <1>4, <2>1, Zenon DEF Start, Declare, startListeners, logVars
<1>5. ASSUME NEW a \in Apps, Drop(a) PROVE Adds /\ UNCHANGED routed
  <2>1. ASSUME NEW k \in Kinds
        PROVE  <<a, k>> \in Listeners /\ copy(<<a, k>>) = <<hand[<<a, k>>].m, QueueOf(a, k)>>
    BY DEF Listeners, copy, m, queue
  <2> QED
    BY <1>5, <2>1, Zenon DEF Drop, logVars
<1>6. ASSUME NEW l \in Listeners, dispatch(l) \/ resolve(l) \/ Handled(l) \/ Failed(l)
      PROVE  Adds /\ UNCHANGED routed
  <2>1. ASSUME NEW requeue, Nack(l, requeue) PROVE Adds
    BY <2>1, Zenon DEF Nack
  <2>2. ASSUME NEW pattern, Found(l, pattern) PROVE UNCHANGED ready
    BY <2>2, Zenon DEF Found, Discard, Ack
  <2>3. UNCHANGED ready \/ \E requeue : Nack(l, requeue)
    BY <1>6, <2>2, Zenon DEF dispatch, resolve, Handled, Failed, Ack
  <2>4. UNCHANGED routed
    BY <1>6, Zenon DEF dispatch, resolve, Handled, Failed, logVars
  <2> QED
    BY <2>1, <2>3, <2>4, Zenon
<1>7. ASSUME UNCHANGED vars PROVE Adds /\ UNCHANGED routed
  BY <1>7, Zenon DEF vars, logVars
<1> HIDE DEF Adds
<1>8. \/ \E msg \in Messages, isBroken \in BOOLEAN : Emit(msg, isBroken)
      \/ Adds /\ UNCHANGED routed
  BY <1>1, <1>2, <1>3, <1>4, <1>5, <1>6, <1>7, ZenonT(30) DEF Next
<1> QED
  BY <1>8, Zenon DEF Adds

\* No step puts a copy anywhere else.
LEMMA ShapeStep ==
  ASSUME Whole(broker), HandInv, ShapeInv, [Next]_vars
  PROVE  ShapeInv'
<1> DEFINE Dead(c) == \E msg \in Messages, l \in Listeners : c = InDLQ(msg, l)
<1>1. CASE \E msg \in Messages, isBroken \in BOOLEAN : Emit(msg, isBroken)
  <2>1. PICK new \in Messages, isBroken \in BOOLEAN : Emit(new, isBroken)
    BY <1>1
  <2>2. ASSUME NEW q \in Route(ExchangeOf(new), KeyOf(new)) PROVE Placed(<<new, q>>)
    BY RoutedHome, Zenon DEF Placed, At
  <2>3. /\ \A c \in ready' : c \in ready \/ Placed(c)
        /\ \A c \in routed' : c \in routed \/ Placed(c)
    BY <2>1, <2>2, Zenon DEF Emit
  <2> QED
    BY <2>3, Zenon DEF ShapeInv, Placed, At, InDLQ
<1>2. ASSUME UNCHANGED routed,
             \A c \in ready' : \/ c \in ready
                               \/ \E msg \in Messages : \E q : c \in DeadLetter(msg, q)
                               \/ \E l \in Listeners : hand[l].live /\ c = copy(l)
                               \/ \E l \in Listeners : hand[l].live /\ c \in DeadLetter(m(l), queue(l))
      PROVE  ShapeInv'
  <2>1. ASSUME NEW l \in Listeners, hand[l].live PROVE m(l) \in Messages /\ Placed(copy(l))
    BY <2>1, Zenon DEF HandInv, Placed, copy, m, At
  <2>2. ASSUME NEW msg \in Messages, NEW q, NEW c \in DeadLetter(msg, q) PROVE Placed(c) \/ Dead(c)
    <3>1. PICK l \in Listeners : c = At(msg, l) \/ c = InDLQ(msg, l)
      BY DeadLetterPlaces
    <3> QED
      BY <3>1, Zenon DEF Placed
  <2> HIDE DEF Dead
  <2>3. \A c \in ready' : c \in ready \/ Placed(c) \/ Dead(c)
    BY <1>2, <2>1, <2>2, Zenon
  <2> QED
    BY <1>2, <2>3, Zenon DEF ShapeInv, Placed, Dead, At, InDLQ
<1> QED
  BY <1>1, <1>2, CopyMoves, Zenon

\* The inductive invariant: the registries are coherent, what routes a message to
\* a durable queue was declared after what takes it to the DLQ and back, and every
\* copy of a message is in one place of its own.
IInv ==
  /\ ConfigInv /\ RegistryInv /\ CacheCoherent /\ Whole(broker)
  /\ HandInv /\ ShapeInv /\ CopyInv

\* Nothing is declared or published at first.
LEMMA IInvInit == Init => IInv
<1> SUFFICES ASSUME Init PROVE IInv
  OBVIOUS
<1>1. ConfigInv /\ RegistryInv /\ CacheCoherent
  BY RegistryInit, Zenon DEF ConfigInv, Init
<1>2. broker = {} /\ ready = {} /\ routed = {} /\ settled = {} /\ hand = [l \in Listeners |-> NoDelivery]
  BY Zenon DEF Init
<1>3. Whole(broker) /\ ShapeInv
  BY <1>2, Zenon DEF Whole, WiredFirst, ShapeInv
<1>4. HandInv
  BY <1>2 DEF HandInv, NoDelivery
<1>5. \A l \in Listeners : ~hand[l].live
  BY <1>2 DEF NoDelivery
<1>6. CopyInv
  BY <1>2, <1>5, Zenon DEF CopyInv, CopyOK, IsReady, IsDead, IsHeld, IsSettled, IsRouted
<1> QED
  BY <1>1, <1>3, <1>4, <1>6, Zenon DEF IInv

\* Every step keeps it.
LEMMA IInvStep == IInv /\ [Next]_vars => IInv'
<1> SUFFICES ASSUME IInv, [Next]_vars PROVE IInv'
  OBVIOUS
<1>1. ConfigInv /\ RegistryInv /\ CacheCoherent /\ Whole(broker) /\ HandInv /\ ShapeInv /\ CopyInv
  BY Zenon DEF IInv
<1>2. ConfigInv'
  BY <1>1, ConfigFixed, Zenon DEF ConfigInv
<1>3. RegistryInv' /\ CacheCoherent'
  BY <1>1, RegistryStep, Zenon
<1>4. Whole(broker)'
  BY <1>1, TopologyStep, Zenon
<1>5. HandInv' /\ ShapeInv'
  BY <1>1, HandStep, ShapeStep, Zenon
<1>6. CopyInv'
  <2>1. CopiesStep /\ Context
    BY <1>1, EveryStepCopies, ContextStep, Zenon
  <2>2. ASSUME NEW msg \in Messages, NEW l \in Listeners PROVE CopyOK(msg, l)'
    <3>1. CopyOK(msg, l) /\ CopyStep(msg, l)
      BY <1>1, <2>1, Zenon DEF CopyInv, CopiesStep
    <3> QED
      BY <2>1, <3>1, CopyKept, Zenon
  <2>3. Messages' = Messages /\ Listeners' = Listeners
    BY Zenon DEF Messages, Listeners
  <2> QED
    BY <2>2, <2>3, Zenon DEF CopyInv
<1> QED
  BY <1>2, <1>3, <1>4, <1>5, <1>6, Zenon DEF IInv

\* It implies that a copy in a durable queue is kept until it is settled.
LEMMA IInvKeeps ==
  ASSUME IInv, NEW c \in routed, Durable(c), ~(c[1] \in broken /\ ~withDLQRetry)
  PROVE  c \in settled \/ Waiting(c) \/ InHand(c)
<1>1. PICK msg \in Messages, l \in Listeners : c = At(msg, l)
  BY Zenon DEF IInv, ShapeInv, Placed
<1>2. c[1] = msg /\ c[2] = queue(l) /\ CopyOK(msg, l)
  BY <1>1 DEF At, IInv, CopyInv
<1>3. l \in DurableListeners
  <2>1. PICK a \in Apps, k \in Kinds : l = <<a, k>>
    BY DEF Listeners
  <2>2. queue(l) = QueueOf(a, k) /\ (k # "notification" => l \in DurableListeners)
    BY <2>1 DEF queue, DurableListeners, Listeners
  <2> QED
    BY <1>2, <2>1, <2>2, Zenon DEF Durable
<1>4. IsSettled(msg, l) \/ IsReady(msg, l) \/ IsDead(msg, l) \/ IsHeld(msg, l)
  BY <1>1, <1>2, <1>3, Zenon DEF CopyOK, IsRouted, IsGivenUp
<1>5. InDLQ(msg, l) = <<c[1], DLQ(c[2])>>
  BY <1>2, Zenon DEF InDLQ
<1>6. IsHeld(msg, l) => hand[l].live /\ copy(l) = c
  BY <1>1, Zenon DEF IsHeld, copy, m, At
<1> QED
  BY <1>1, <1>4, <1>5, <1>6, Zenon DEF IsSettled, IsReady, IsDead, Waiting, InHand

\* It implies that no copy strays.
LEMMA IInvNoStrayCopy == IInv => NoStrayCopy
<1> SUFFICES ASSUME IInv PROVE NoStrayCopy
  OBVIOUS
<1>1. \A msg \in Messages, l \in Listeners : CopyOK(msg, l)
  BY Zenon DEF IInv, CopyInv
<1>2. ASSUME NEW msg, NEW l
      PROVE  /\ At(msg, l)[1] = msg /\ At(msg, l)[2] = queue(l)
             /\ InDLQ(msg, l)[1] = msg /\ InDLQ(msg, l)[2] = DLQ(queue(l))
             /\ InDLQ(msg, l) = <<At(msg, l)[1], DLQ(At(msg, l)[2])>>
  BY DEF At, InDLQ
<1>3. ASSUME NEW c \in ready
      PROVE  \E home \in routed \ settled : c[1] = home[1] /\ c[2] \in {home[2], DLQ(home[2])}
  <2>1. PICK msg \in Messages, l \in Listeners : c = At(msg, l) \/ c = InDLQ(msg, l)
    BY Zenon DEF IInv, ShapeInv, Placed
  <2>2. At(msg, l) \in routed \ settled
    BY <1>1, <2>1, Zenon DEF CopyOK, IsReady, IsDead, IsRouted, IsSettled
  <2>3. c[1] = At(msg, l)[1] /\ c[2] \in {At(msg, l)[2], DLQ(At(msg, l)[2])}
    BY <2>1 DEF At, InDLQ
  <2> QED
    BY <2>2, <2>3, Zenon
<1>4. ASSUME NEW c \in routed PROVE ~(c \in ready /\ <<c[1], DLQ(c[2])>> \in ready)
  <2>1. PICK msg \in Messages, l \in Listeners : c = At(msg, l)
    BY Zenon DEF IInv, ShapeInv, Placed
  <2> QED
    BY <1>1, <1>2, <2>1, ZenonT(30) DEF CopyOK, IsReady, IsDead
<1>5. ASSUME NEW l \in Listeners, hand[l].live, l[2] # "notification"
      PROVE  ~Waiting(copy(l)) /\ copy(l) \notin settled
  <2>1. hand[l].m \in Messages /\ copy(l) = At(hand[l].m, l) /\ l \in DurableListeners
    BY <1>5, Zenon DEF IInv, HandInv, copy, m, At, DurableListeners
  <2>2. IsHeld(hand[l].m, l) /\ CopyOK(hand[l].m, l)
    BY <1>1, <1>5, <2>1, Zenon DEF IsHeld
  <2>3. ~IsReady(hand[l].m, l) /\ ~IsDead(hand[l].m, l) /\ ~IsSettled(hand[l].m, l)
    BY <2>1, <2>2, Zenon DEF CopyOK
  <2>4. InDLQ(hand[l].m, l) = <<copy(l)[1], DLQ(copy(l)[2])>>
    BY <2>1 DEF At, InDLQ
  <2> QED
    BY <2>1, <2>3, <2>4, Zenon DEF IsReady, IsDead, IsSettled, Waiting
<1> QED
  BY <1>3, <1>4, <1>5, Zenon DEF NoStrayCopy

\* The state of every reachable instance has every copy in its one place.
LEMMA Invariant == Spec => []IInv
BY IInvInit, IInvStep, PTL DEF Spec

\* The retry topology of topology.go brings a message back to the queue in which
\* it failed and to no other, and a copy is never in two places nor back after it
\* was settled: the DLQs that apps share an exchange for do not mix.
THEOREM RetriesStayHome == Spec => []NoStrayCopy
BY Invariant, IInvNoStrayCopy, PTL
=============================================================================
