------------------------------ MODULE Dispatch ------------------------------
(***************************************************************************)
(* Messages between apps over RabbitMQ: the topology each app declares     *)
(* (internal/rabbit/topology.go, application.go), the registry its         *)
(* listeners look handlers up in, and the delivery contract of dispatch.go *)
(* and of the four listeners.  The broker's routing, dead-lettering and    *)
(* expiry are external, modelled from the arguments the code declares.     *)
(* The reply queue is declared here; replies are in RequestReply.          *)
(***************************************************************************)
EXTENDS Registry, Functions

CONSTANTS
  Scenarios,    \* [apps, traffic, late]: the apps that run, the messages that may be
                \* published, each a record [kind, name, to], and registrations
                \* <<a, k, name>> that may come at any time
  Handlers,     \* handlers[a][k] before the first Start
  MaxFailures,  \* bound: handler errors and panics
  MaxFaults     \* bound: failing bring-ups and lost connections

VARIABLES
  withDLQRetry, \* Config.WithDLQRetry, the same in every app
  scenario,     \* the one of Scenarios that happens
  bringUp,      \* bringUp[a]: where Start or the restore is
  isReady,      \* isReady[a]: Start closed its ready channel
  listeners,    \* listeners[a]: the kinds that have a listener
  consuming,    \* consuming[a]: the kinds whose listener has a consumer
  broker,       \* the declarations the broker has
  ready,        \* <<m, q>>: message m is ready in queue q
  hand,         \* hand[l]: the delivery listener l is dispatching
  emitted, broken, routed, settled, discarded,  \* what became of the messages
  failures, faults                              \* bounded counters

registryVars == <<handlers, cache>>
config == <<withDLQRetry, scenario>>
appVars == <<bringUp, isReady, listeners, consuming>>
logVars == <<emitted, broken, routed>>
counters == <<failures, faults>>
vars == <<registryVars, config, appVars, broker, ready, hand, logVars,
          settled, discarded, counters>>

Messages == UNION {s.traffic : s \in Scenarios}
Listeners == Apps \X Kinds

\* Messages and registrations are of the four kinds; a name has one segment at
\* least, and an app has finitely many handlers.
ASSUME DispatchAssumption ==
  /\ \A s \in Scenarios : s.late \subseteq Apps \X Kinds \X Seq(Segments)
  /\ \A msg \in Messages : msg.kind \in Kinds /\ msg.name \in Seq(Literals) \ {Nothing}
  /\ Handlers \in [Apps -> [Kinds -> SUBSET Seq(Segments)]]
  /\ \A a \in Apps, k \in Kinds : IsFiniteSet(Handlers[a][k])

NoDelivery == [m |-> Nothing, pc |-> "idle", live |-> FALSE]
-----------------------------------------------------------------------------
(* Names and declarations of topology.go.                                  *)

DomainEvents == <<"domainEvents">>
DirectMessages == <<"directMessages">>
GlobalReply == <<"globalReply">>
EventsDLQExchange(a) == <<a, "domainEvents", "DLQ">>
EventsRetryExchange(a) == <<a, "domainEvents">>
DirectDLQExchange == <<"directMessages", "DLQ">>
QueueOf(a, k) == CASE k = "event" -> <<a, "subsEvents">>
                   [] k = "command" -> <<a>>
                   [] k = "query" -> <<a, "query">>
                   [] k = "notification" -> <<a, "notification">>
ReplyQueue(a) == <<a, "replies">>
DLQ(q) == Append(q, "DLQ")

Exchange(x) == [op |-> "exchange", name |-> x]
Queue(q, dlx) == [op |-> "queue", name |-> q, dlx |-> dlx]
Bind(q, x, key) == [op |-> "bind", name |-> q, from |-> x, key |-> key]

DeclareExchanges == <<Exchange(DomainEvents), Exchange(DirectMessages), Exchange(GlobalReply)>>

\* x-dead-letter-exchange, set only with the retry topology.
DeadLetterTo(x) == IF withDLQRetry THEN x ELSE Nothing

\* Mutant: the retry goes back through the exchange every app listens to.
DeclareEventsDLQRetryShared(a, q) ==
  <<Exchange(EventsRetryExchange(a)), Exchange(EventsDLQExchange(a)),
    Queue(DLQ(q), DomainEvents),
    Bind(DLQ(q), EventsDLQExchange(a), <<Hash>>), Bind(q, EventsRetryExchange(a), <<Hash>>)>>

DeclareEventsDLQRetry(a, q) ==
  <<Exchange(EventsRetryExchange(a)), Exchange(EventsDLQExchange(a)),
    Queue(DLQ(q), EventsRetryExchange(a)),
    Bind(DLQ(q), EventsDLQExchange(a), <<Hash>>), Bind(q, EventsRetryExchange(a), <<Hash>>)>>

DeclareDirectDLQRetry(q, key) ==
  <<Exchange(DirectDLQExchange), Queue(DLQ(q), DirectMessages),
    Bind(DLQ(q), DirectDLQExchange, key)>>

IfRetry(declarations) == IF withDLQRetry THEN declarations ELSE <<>>

declareEvents(a, names) ==
  LET q == QueueOf(a, "event") IN
  IF names = <<>> THEN <<>>
  ELSE <<Queue(q, DeadLetterTo(EventsDLQExchange(a)))>>
       \o IfRetry(DeclareEventsDLQRetry(a, q))
       \o [i \in DOMAIN names |-> Bind(q, DomainEvents, names[i])]

declareCommands(a, names) ==
  LET q == QueueOf(a, "command") IN
  IF names = <<>> THEN <<>>
  ELSE <<Queue(q, DeadLetterTo(DirectDLQExchange))>>
       \o IfRetry(DeclareDirectDLQRetry(q, <<a>>))
       \o <<Bind(q, DirectMessages, <<a>>)>>

\* Mutant: the queue of failed queries is bound with the key of the commands.
declareQueriesWrongKey(a, names) ==
  LET q == QueueOf(a, "query") IN
  IF names = <<>> THEN <<>>
  ELSE <<Queue(q, DeadLetterTo(DirectDLQExchange))>>
       \o IfRetry(DeclareDirectDLQRetry(q, <<a>>))
       \o <<Bind(q, DirectMessages, q)>>

declareQueries(a, names) ==
  LET q == QueueOf(a, "query") IN
  IF names = <<>> THEN <<>>
  ELSE <<Queue(q, DeadLetterTo(DirectDLQExchange))>>
       \o IfRetry(DeclareDirectDLQRetry(q, q))
       \o <<Bind(q, DirectMessages, q)>>

\* The temporary queue has a name only if there is a notification listener.
declareNotifications(a, names) ==
  LET q == QueueOf(a, "notification") IN
  IF "notification" \notin listeners[a] THEN <<>>
  ELSE <<Queue(q, Nothing)>> \o [i \in DOMAIN names |-> Bind(q, DomainEvents, names[i])]

declareReplies(a) ==
  <<Queue(ReplyQueue(a), Nothing), Bind(ReplyQueue(a), GlobalReply, ReplyQueue(a))>>

\* A walk of a map visits each key once, in any order.
Walks(keys) == UNION {Bijection(1..n, keys) : n \in 0..Cardinality(keys)}

\* The declarations of declareTopology, in order: one sequence for each walk of
\* the maps of names.
declareTopology(a) ==
  {DeclareExchanges \o declareEvents(a, e) \o declareCommands(a, c) \o declareQueries(a, q)
     \o declareNotifications(a, n) \o declareReplies(a) :
       e \in Walks(handlers[a]["event"]), c \in Walks(handlers[a]["command"]),
       q \in Walks(handlers[a]["query"]), n \in Walks(handlers[a]["notification"])}
-----------------------------------------------------------------------------
(* The broker, external.                                                   *)

Route(x, key) ==
  {d.name : d \in {d \in broker : d.op = "bind" /\ d.from = x
                      /\ IF x \in {DirectMessages, DirectDLQExchange} THEN d.key = key
                         ELSE TopicMatches(key, d.key)}}

\* The exchange and the routing key of eventbus.go and gateway.go.
ExchangeOf(m) == IF m.kind \in {"event", "notification"} THEN DomainEvents ELSE DirectMessages
KeyOf(m) == CASE m.kind = "command" -> <<m.to>>
              [] m.kind = "query" -> <<m.to, "query">>
              [] OTHER -> m.name

\* A message is published once; the body of a broken one is no envelope, and at
\* most one is broken.  The broker drops what no binding takes.
Emit(m, isBroken) ==
  /\ m \in scenario.traffic \ emitted
  /\ isBroken => broken = {}
  /\ emitted' = emitted \cup {m}
  /\ broken' = IF isBroken THEN broken \cup {m} ELSE broken
  /\ LET copies == {<<m, q>> : q \in Route(ExchangeOf(m), KeyOf(m))} IN
       /\ ready' = ready \cup copies
       /\ routed' = routed \cup copies
  /\ UNCHANGED <<registryVars, config, appVars, broker, hand, settled, discarded, counters>>

\* The copies of m after queue q gave it up: it keeps its routing key.
DeadLetter(m, q) ==
  UNION {{<<m, to>> : to \in Route(d.dlx, KeyOf(m))} :
           d \in {d \in broker : d.op = "queue" /\ d.name = q /\ d.dlx # Nothing}}

\* x-message-ttl, which only the DLQ queues have.
Expire(m, q) ==
  /\ <<m, DLQ(q)>> \in ready
  /\ ready' = (ready \ {<<m, DLQ(q)>>}) \cup DeadLetter(m, DLQ(q))
  /\ UNCHANGED <<registryVars, config, appVars, broker, hand, logVars, settled,
                 discarded, counters>>
-----------------------------------------------------------------------------
(* The life of an app: Start, bringUpConsumers, reconnects.                *)

Register(a, k, name) ==
  /\ <<a, k, name>> \in scenario.late
  /\ Listen(a, k, name)
  /\ UNCHANGED <<config, appVars, broker, ready, hand, logVars, settled, discarded, counters>>

\* The listeners are the ones of the kinds that have a handler by now.
Start(a) ==
  /\ a \in scenario.apps /\ bringUp[a] = "off"
  /\ listeners' = [listeners EXCEPT ![a] = {k \in Kinds : handlers[a][k] # {}}]
  /\ bringUp' = [bringUp EXCEPT ![a] = "declare"]
  /\ UNCHANGED <<registryVars, config, isReady, consuming, broker, ready, hand, logVars,
                 settled, discarded, counters>>

TempQueues(a) == {QueueOf(a, "notification"), ReplyQueue(a)}

\* bringUpConsumers failed with these declarations made.  After a reconnect
\* restoreWithBackoff tries again; the first Start closes the connection, which
\* deletes the temporary queues, and returns the error.
Fail(a, declared) ==
  /\ faults < MaxFaults
  /\ faults' = faults + 1
  /\ IF isReady[a]
     THEN /\ bringUp' = [bringUp EXCEPT ![a] = "declare"]
          /\ broker' = declared
          /\ UNCHANGED ready
     ELSE /\ bringUp' = [bringUp EXCEPT ![a] = "off"]
          /\ broker' = {d \in declared : d.name \notin TempQueues(a)}
          /\ ready' = {c \in ready : c[2] \notin TempQueues(a)}

\* declareTopology makes all of its declarations, or those before the one that
\* fails.
Declare(a) ==
  /\ bringUp[a] = "declare"
  /\ \E ds \in declareTopology(a) :
       \/ /\ broker' = broker \cup Range(ds)
          /\ bringUp' = [bringUp EXCEPT ![a] = "start"]
          /\ UNCHANGED <<ready, faults>>
       \/ \E n \in 0..(Len(ds) - 1) : Fail(a, broker \cup {ds[i] : i \in 1..n})
  /\ UNCHANGED <<registryVars, config, isReady, listeners, consuming, hand, logVars,
                 settled, discarded, failures>>

\* startListeners tries every listener, so any subset may have started when it
\* reports an error.
startListeners(a) ==
  /\ bringUp[a] = "start"
  /\ \/ /\ consuming' = [consuming EXCEPT ![a] = listeners[a]]
        /\ bringUp' = [bringUp EXCEPT ![a] = "up"]
        /\ isReady' = [isReady EXCEPT ![a] = TRUE]
        /\ UNCHANGED <<broker, ready, faults>>
     \/ /\ Fail(a, broker)
        /\ \E ks \in SUBSET listeners[a] :
             consuming' = [consuming EXCEPT ![a] = IF isReady[a] THEN @ \cup ks ELSE {}]
        /\ UNCHANGED isReady
  /\ UNCHANGED <<registryVars, config, listeners, hand, logVars, settled, discarded,
                 failures>>

\* The connection of an app breaks: the broker requeues what its listeners hold
\* and deletes its temporary queues, and the restore begins.  A dispatch goes on
\* with a delivery whose channel is gone.
Drop(a) ==
  /\ isReady[a] /\ faults < MaxFaults
  /\ faults' = faults + 1
  /\ bringUp' = [bringUp EXCEPT ![a] = "declare"]
  /\ consuming' = [consuming EXCEPT ![a] = {}]
  /\ broker' = {d \in broker : d.name \notin TempQueues(a)}
  /\ ready' = {c \in ready : c[2] \notin TempQueues(a)} \cup
              {<<hand[<<a, k>>].m, QueueOf(a, k)>> :
                 k \in {k \in Kinds \ {"notification"} : hand[<<a, k>>].live}}
  /\ hand' = [l \in Listeners |-> IF l[1] = a THEN [hand[l] EXCEPT !.live = FALSE] ELSE hand[l]]
  /\ UNCHANGED <<registryVars, config, isReady, listeners, logVars, settled, discarded,
                 failures>>
-----------------------------------------------------------------------------
(* Dispatch of a delivery: dispatchEnvelope and the listeners.             *)

m(l) == hand[l].m
queue(l) == QueueOf(l[1], l[2])
copy(l) == <<m(l), queue(l)>>
Done(l) == hand' = [hand EXCEPT ![l] = NoDelivery]
Goto(l, pc) == hand' = [hand EXCEPT ![l].pc = pc]

\* Notifications are consumed with auto-ack, so their delivery settles them.
Deliver(l, msg) ==
  /\ l[2] \in consuming[l[1]] /\ hand[l] = NoDelivery
  /\ <<msg, queue(l)>> \in ready
  /\ ready' = ready \ {<<msg, queue(l)>>}
  /\ hand' = [hand EXCEPT ![l] = [m |-> msg, pc |-> "dispatch", live |-> TRUE]]
  /\ settled' = IF l[2] = "notification" THEN settled \cup {<<msg, queue(l)>>} ELSE settled
  /\ UNCHANGED <<registryVars, config, appVars, broker, logVars, discarded, counters>>

\* On a channel that is gone neither has an effect: the broker requeued the copy.
Ack(l) ==
  /\ settled' = IF hand[l].live THEN settled \cup {copy(l)} ELSE settled
  /\ UNCHANGED ready

Nack(l, requeue) ==
  /\ ready' = IF ~hand[l].live \/ l[2] = "notification" THEN ready
              ELSE ready \cup IF requeue THEN {copy(l)} ELSE DeadLetter(m(l), queue(l))
  /\ UNCHANGED settled

\* A nil handler acks; the copy is gone without having been handled.
Discard(l) ==
  /\ Ack(l) /\ Done(l)
  /\ discarded' = IF hand[l].live THEN discarded \cup {copy(l)} ELSE discarded

Found(l, pattern) ==
  IF pattern = Nothing THEN Discard(l)
  ELSE Goto(l, "run") /\ UNCHANGED <<ready, settled, discarded>>

\* The envelope is decoded and its handler looked up under the read lock.
dispatch(l) ==
  /\ hand[l].pc = "dispatch"
  /\ IF m(l) \in broken THEN Nack(l, FALSE) /\ Done(l) /\ UNCHANGED discarded
     ELSE IF l[2] = "query" THEN Found(l, QueryHandler(l[1], m(l).name))
     ELSE LET found == Lookup(l[1], l[2], m(l).name) IN
          IF found = {} THEN Goto(l, "resolve") /\ UNCHANGED <<ready, settled, discarded>>
          ELSE \E pattern \in found : Found(l, pattern)
  /\ UNCHANGED <<registryVars, config, appVars, broker, logVars, counters>>

\* The rest of the lookup, under the write lock.
resolve(l) ==
  /\ hand[l].pc = "resolve"
  /\ \E pattern \in LookupLocked(l[1], l[2], m(l).name) :
       /\ CacheResolution(l[1], l[2], m(l).name, pattern)
       /\ Found(l, pattern)
  /\ UNCHANGED <<handlers, config, appVars, broker, logVars, counters>>

\* The handler returned no error, or it is a query's handler, whose errors are
\* answered; a reply that cannot be sent is only logged.
Handled(l) ==
  /\ hand[l].pc = "run"
  /\ Ack(l) /\ Done(l)
  /\ UNCHANGED <<registryVars, config, appVars, broker, logVars, discarded, counters>>

\* Mutant: the negation is forgotten.
FailedNotNegated(l) ==
  /\ hand[l].pc = "run" /\ failures < MaxFailures
  /\ failures' = failures + 1
  /\ Nack(l, withDLQRetry) /\ Done(l)
  /\ UNCHANGED <<registryVars, config, appVars, broker, logVars, discarded, faults>>

\* The handler panicked, or the handler of an event or a command returned an
\* error: requeueOnFailure is the negation of WithDLQRetry.
Failed(l) ==
  /\ hand[l].pc = "run" /\ failures < MaxFailures
  /\ failures' = failures + 1
  /\ Nack(l, ~withDLQRetry) /\ Done(l)
  /\ UNCHANGED <<registryVars, config, appVars, broker, logVars, discarded, faults>>
-----------------------------------------------------------------------------
Init ==
  /\ handlers = Handlers
  /\ cache = [a \in Apps |-> [k \in Kinds |-> NoCache]]
  /\ withDLQRetry \in BOOLEAN
  /\ scenario \in Scenarios
  /\ bringUp = [a \in Apps |-> "off"]
  /\ isReady = [a \in Apps |-> FALSE]
  /\ listeners = [a \in Apps |-> {}]
  /\ consuming = [a \in Apps |-> {}]
  /\ broker = {} /\ ready = {}
  /\ hand = [l \in Listeners |-> NoDelivery]
  /\ emitted = {} /\ broken = {} /\ routed = {} /\ settled = {} /\ discarded = {}
  /\ failures = 0 /\ faults = 0

Queues == {QueueOf(a, k) : a \in Apps, k \in Kinds}

Next ==
  \/ \E msg \in Messages, isBroken \in BOOLEAN : Emit(msg, isBroken)
  \/ \E msg \in Messages, q \in Queues : Expire(msg, q)
  \/ \E l \in Listeners, msg \in Messages : Deliver(l, msg)
  \/ \E h \in scenario.late : Register(h[1], h[2], h[3])
  \/ \E a \in Apps : Start(a) \/ Declare(a) \/ startListeners(a) \/ Drop(a)
  \/ \E l \in Listeners : dispatch(l) \/ resolve(l) \/ Handled(l) \/ Failed(l)

Spec == Init /\ [][Next]_vars

\* Apps are started and their restores go on; handlers return; the broker
\* expires what is in a DLQ and serves its queues in order, so that a copy is
\* not passed over for ever by others that come back again and again.
FairSpec ==
  /\ Spec
  /\ \A a \in Apps : WF_vars(Start(a) \/ Declare(a) \/ startListeners(a))
  /\ \A l \in Listeners : WF_vars(dispatch(l) \/ resolve(l) \/ Handled(l))
  /\ \A msg \in Messages : /\ WF_vars(\E q \in Queues : Expire(msg, q))
                           /\ SF_vars(\E l \in Listeners : Deliver(l, msg))
-----------------------------------------------------------------------------
\* Every variable keeps its type.
DispatchTypeOK ==
  /\ \A a \in Apps, k \in Kinds :
       /\ handlers[a][k] \subseteq Seq(Segments)
       /\ DOMAIN cache[a][k] \subseteq {msg.name : msg \in Messages}
  /\ bringUp \in [Apps -> {"off", "declare", "start", "up"}]
  /\ isReady \in [Apps -> BOOLEAN]
  /\ listeners \in [Apps -> SUBSET Kinds]
  /\ \A a \in Apps : consuming[a] \subseteq listeners[a]
  /\ ready \subseteq Messages \X (Queues \cup {DLQ(q) : q \in Queues})
  /\ \A l \in Listeners : hand[l].pc \in {"idle", "dispatch", "resolve", "run"}
  /\ broken \subseteq emitted /\ emitted \subseteq scenario.traffic
  /\ discarded \subseteq settled

\* matchSegments, which splits and backtracks, accepts exactly the names that the
\* broker routes through a binding with the pattern: for every pattern and name
\* of up to three segments, and for the bindings that are declared.
MatcherAgrees ==
  /\ ShortAgree
  /\ \A d \in broker : d.op = "bind" /\ d.from = DomainEvents =>
       AgreeOn({d.key}, {msg.name : msg \in emitted})

\* Patterns of stars and literals resolve to one winner, whatever the order in
\* which the map of handlers is walked, and never to a pattern that another of them
\* narrows: for every three candidates of up to three segments, and for the handlers
\* that are registered.  (A hash can shift the literals of two candidates against
\* each other; then the map's order decides.)
StarsResolveAlike ==
  /\ ShortOneWinner
  /\ \A a \in Apps, k \in Kinds, msg \in emitted :
       OneWinner(msg.name, {p \in StarsOnly(handlers[a][k]) : Matches(msg.name, p)})

Durable(c) == \A a \in Apps : c[2] # QueueOf(a, "notification")
Served(c) == \E l \in Listeners : c[2] = queue(l) /\ l[2] \in listeners[l[1]] \ {"notification"}
InHand(c) == \E l \in Listeners : hand[l].live /\ copy(l) = c
Waiting(c) == c \in ready \/ <<c[1], DLQ(c[2])>> \in ready

\* A handler of the app whose queue holds the copy was registered for its name
\* before the first Start; a query's by its exact name.
HasHandler(c) ==
  \E l \in Listeners : /\ c[2] = queue(l)
                       /\ IF l[2] = "query" THEN c[1].name \in Handlers[l[1]]["query"]
                          ELSE \E p \in Handlers[l[1]][l[2]] : TopicMatches(c[1].name, p)

\* No message is lost: a copy the broker routed to a durable queue is ready in
\* it or in its DLQ, in the hand of a listener whose channel is open, or
\* settled, through failing handlers, lost connections and bring-ups that stop
\* half way.  There are two exceptions: a body that is no envelope where there is
\* no DLQ to send it to, and a command or a query without a handler.  That one is
\* acked and so dropped, with WithDLQRetry too (docs/commands.md speaks of a nack);
\* it never happens to a name with a handler, whatever is registered meanwhile.
NoLoss ==
  \A c \in routed :
    Durable(c) /\ ~(c[1] \in broken /\ ~withDLQRetry) =>
      \/ Waiting(c) \/ InHand(c)
      \/ c \in settled /\ (c \in discarded => ~HasHandler(c))

\* A retry brings a message back to the queue it failed in and to no other: a
\* copy is only ever in the queue that the publish routed it to or in that
\* queue's DLQ, never in two places, and never again once it is settled.
NoStrayCopy ==
  /\ \A c \in ready : \E home \in routed \ settled : c[1] = home[1] /\ c[2] \in {home[2], DLQ(home[2])}
  /\ \A c \in routed : ~(c \in ready /\ <<c[1], DLQ(c[2])>> \in ready)
  /\ \A l \in Listeners : hand[l].live /\ l[2] # "notification" =>
       ~Waiting(copy(l)) /\ copy(l) \notin settled

\* A binding stands for a handler: what the topic bindings made at bring-up let
\* into an events or notification queue is never dropped for want of a handler,
\* whatever is registered between the bring-up and the dispatch.
RoutedHasHandler ==
  \A c \in discarded : c[1].kind \in {"command", "query"}

\* Every message that can be decoded and whose queue has a listener is settled
\* in the end, though handlers fail, connections drop and another message that
\* cannot be decoded circulates for ever.
EventuallySettled ==
  <>[](\A c \in routed : Served(c) /\ c[1] \notin broken => c \in settled)
=============================================================================
