# Verification of reactive-commons-go

`reactive-commons-go` gives Go services domain events, commands, queries and
notifications over RabbitMQ and Kafka. This directory models the parts of it in
which goroutines, reconnects, broker failures and shutdowns interleave, checks
them with TLC on small instances, and proves with TLAPS, for every instance, the
safety of each part, that the publisher implements the abstract promise of a
confirmed send, that the connection on a socket that may wedge implements the
connection alone, and that the wildcard matcher routes as the broker does.

## The system

RabbitMQ side (`internal/rabbit`):

| part | state | operations | talks to |
|------|-------|------------|----------|
| connection (`connection.go`) | `conn`, `stopped`, health, hooks | `DialContext`, `Dial`, `watchClose`, `reconnectLoop`, `Close` | runs the reconnect hooks of publisher and application |
| publisher (`sender.go`) | `ch`, `gen`, `nextTag`, `pending`, `publishSem`, `rebuildMu` | `SendWithConfirm`, `SendNoConfirm`, `Reconnect`, `rebuild`, `watchChannel`, `dispatchConfirm`, `retryRebuild` | connection (hook, `IsOpen`) |
| supervised consumer (`consumer.go`) | `stop`, `done`, `runGen`, health | `start`, `supervise` with self-heal | connection, application WaitGroup |
| application (`application.go`, `health.go`) | `restoreGen`, `shuttingDown`, two WaitGroups | `Start`, hooks, `restoreWithBackoff`, shutdown, `Health` | everything above |
| listeners and dispatch (`dispatch.go`, `*listener.go`) | none of their own | ack, nack, requeue, reply per handler outcome | consumer, registry, gateway |
| request/reply (`gateway.go`, `replyrouter.go`) | map of correlation ids | `RequestReply`, `Route`, `AwaitReply`, `Reply` | publisher, reply listener |
| topology (`topology.go`) | exchanges, queues, bindings at the broker | declarations, dead-letter retry | application, self-heal |
| registry and matcher (`registry.go`, `keymatcher.go`) | handler maps | registration, lookup by most specific pattern | listeners |
| event bus (`eventbus.go`) | none | `Emit`, `EmitNotification` | publisher |
| socket (`socket.go`) | base deadline and its version | `Write`, `SetDeadline` | connection, through amqp091 |

Kafka side (`internal/kafka`): application (startup, topic verification,
shutdown), event and command listeners over `consumerLoop` with retries and a
dead-letter topic, query, notification and reply listeners, gateway, event bus,
producer, registry, topology, observability.

What is hard here: confirms matched to callers by a counter that must agree with
the broker's; three goroutines (reconnect hook, channel watcher, retry loop) that
may each rebuild the publisher channel or leave it to another; restores that
supersede each other and race self-heals; waits that are bounded by timers while
handlers hang; `WaitGroup` rules across a shutdown; `Close` racing a dial or a
wedged write; a topology shared by apps through which failed messages must find
their way back; a cache of handler lookups filled while handlers are registered;
a reply reader that must be in place before the first request; offsets committed
out of step with what was handled. The hazards are listed one by one,
with the line where each bites, in `PROJECT.json`.

## Modules

### Sender (`sender.go`, and the hook registration of `application.go`)

One action per critical section of `s.mu`, or per call into the AMQP library.
`pending` is the set of calls with an entry in `s.pending`; `tag`, `resultCh`,
`ret` are the local variables of the calls. Goroutines are named by what they
serve: a channel for its watcher (which becomes the retry loop), a connection for
the hook that runs after it was dialled. The broker side (`seq`, `pos`, `verdict`)
counts publishes per channel and acks or nacks them in order. `desync` is a
history variable: the channels on which the sender's and the broker's count have
parted (a `SendNoConfirm`, or a `Reconnect` that met a live channel).
A context can end at any moment.

`ConfirmedSend` is what a caller may rely on, without channels, tags, generations
and goroutines: the broker gets a message at most once, a verdict that is returned
is that of the call's own message, "closed" is returned only for a message the
broker received, "unavailable" only for one it did not. `SenderRefines` maps
`Sender` to it (the broker has received what has a delivery tag; a call is
disturbed when its channel is in `desync`) and states `KeepsPromise`.

### Consumer (`consumer.go`, hook, restore and shutdown of `application.go`)

One listener. A generation names a call of `start` together with its supervisor,
`stop` and `done`. Restore 0 is the bring-up inside `Start`; restore `r` is the
goroutine of the `r`-th reconnect. Deferred calls run in Go's order (`SupReleases`,
`SupExits`). The two 30 s timers (`supersedeWait` and the shutdown deadline) can
only outlast handlers and calls to the broker (`LongSteps`), not a goroutine that
is merely waiting to be scheduled. The other listeners of the application appear
as a reason for an attempt to fail.

### Connection (`connection.go`), Socket (`socket.go`), SocketConnection

In `Connection`, goroutine 0 is the `Dial` that `DialContext` starts, goroutine `k`
the watcher of connection `k`, which becomes the reconnect loop. `mpc` is `Start`'s
own thread through `DialContext` and `Close`, one action per lock section. Backoff
delays are not modelled; a dial may fail any number of times.

`Socket` is one `writeDeadlineConn`: the two critical sections of `Write` with the
arming and the blocking write between them, and the two halves of `SetDeadline`,
which applies the deadline after the unlock. A deadline is the number of ticks left
of it. Time passes only while nothing but a blocked write is in progress, and never
past a deadline somebody waits for.

`SocketConnection` puts the one on top of the other. There is at most one connection
at a time (`OneConnection`), so one socket is enough. amqp091 stands between them
and is external: it clears the handshake deadline, sends heartbeats and publishes
under its send lock, shuts a connection down when a write times out, and
`CloseDeadline` needs the same lock for the close frame. Two closers of the same
connection share one close handshake. Every step of `Connection` is kept
(`Joint`); closing an open connection takes the close handshake.

### Dispatch, Registry, KeyMatcher (`topology.go`, `dispatch.go`, listeners, `registry.go`, `keymatcher.go`)

`KeyMatcher` has the matcher, the specificity order and the resolution of a name among
patterns as recursive functions on sequences of segments, and RabbitMQ's rule for
topic bindings (`TopicMatches`, by cutting the key) as the reference definition. The
candidates come from a Go map, so `resolvePattern` is the set of results over all
orders. `Registry` adds registration and the lookup in two lock sections, with the
cache that registrations empty.

`Dispatch` composes them with the topology of several apps. `broker` is the set of
declarations made so far, each with the arguments the code passes; routing,
dead-lettering and expiry read them from there. `Declare` makes the declarations in
the code's order, all of them or those before the one that fails; then `Start` closes
the connection, or `restoreWithBackoff` tries again. A delivery goes through decode,
lookup (`dispatch`, then `resolve` under the write lock) and handler to ack, nack or
discard. A lost connection requeues what listeners hold, while their dispatch goes on
with a dead channel. `WithDLQRetry` is on or off. `routed`, `settled` and `discarded`
are history variables. A scenario of `MCDispatch` is the apps that run, the traffic
and the registrations that may come late.

### KafkaApp, KafkaQueries (`internal/kafka`)

`KafkaQueries` is request/reply: the calls, the router, the query listener, and the
reply reader, which kafka-go positions per partition on its own while `awaitPrimed`
polls one fetch counter shared by all partitions. A publish that returned an error may
have reached the topic all the same; its reply then finds no entry. `KafkaApp`
composes it with the life of the application: registration, `Start` with dial, four
snapshots, topic verification or creation, readers, gateway, `markStarted`, one
goroutine per listener, `Ready`; its failures and its second call; and the shutdown
that waits for the goroutines up to a deadline and then closes readers and producer.

### KafkaListener (`eventlistener.go`, `commandlistener.go`, `loop.go`, `dlq.go`)

One partition. `committed` is the group offset and `next` the position of the
reader. A message is good, bad (undecodable) or unknown (a command without
handler). Broker calls fail up to `MaxFaults` times, and may fail or succeed once
the context is done, because kafka-go selects between the two. `left` is a history
variable: messages given up without a commit by this process. `retryBackoff` doubles
in a signed integer of `DurationBits` bits, as `time.Duration` does in 64.

### RequestReply (`gateway.go`, `replyrouter.go`, the query and reply listeners)

A call is one `RequestReply` with its correlation id. Its query waits in the
durable query queue of the target, where a nack, a dead-letter TTL or a lost
channel brings it back; a server is one consumer of that queue. When a server's
channel dies the query is redelivered while the first handler goes on and still
answers, so a call can get several answers. The reply queue belongs to the caller's
instance and disappears with its consumer. `Route` is two steps, the lookup of the
channel and the send that never blocks, because the caller may return between them.
`produced` (what handlers returned) and `lost` (calls one of whose messages was
dropped) are history variables. Publishing is reduced to what `Sender` promises:
without an error the broker has the message, with one it may have it.

## Runs

| run | constants | states | what it shows |
|-----|-----------|--------|---------------|
| `sender_confirms` | 2 sends, 1 notification, 2 channels, 1 fault | 786 109 | tags are distinct and in step with the slot; no lost waiter; nil means acked while tags are undisturbed; the promise of `ConfirmedSend` is kept |
| `sender_recovery` | 1 send, 4 channels, 2 connections, 1 fault | 160 652 | no channel leak, recovery always owned; sends return, publishing comes back |
| `consumer` | 4 starts, 1 reconnect, 2 faults | 213 309 | one consumer per queue, honest health, WaitGroup rules, complete drain; consuming comes back although handlers hang; shutdown drains and ends stopped |
| `connection` | 4 connections, timeouts of 2, 3 and 1 ticks | 45 843 | one connection and watcher, no zombie, honest health, bounded writes; recovery, release, and a `Close` that returns however wedged the socket is |
| `rabbit_dispatch` | 2 apps, 4 scenarios, with and without `WithDLQRetry`, 1 failure, 1 fault | 24 111 | the matcher agrees with the broker; patterns of stars have one winner that no other narrows; the cache is coherent; no message is lost or strays; what a binding lets in has a handler; every message is settled in the end |
| `request_reply` | 2 calls, 2 consumers, 1 fault, with and without `ReplyTimeout` and a missing handler | 518 700 | an answer is the call's own, no router entry leaks; calls with a deadline return, others hang only when a message was lost |
| `kafka_listener` | 3 messages, limits 1, 2 and 6, 2 faults, 1 crash, 4-bit delays | 345 054 | the committed offset passes only settled or given-up messages; DLQ only when exhausted; no message blocks unless its handler hangs; the delay is exact although the doubling overflows |
| `kafka_app` | 1 call, 1 partition, an event and a query handler, 2 clusters, 1 fault | 108 464 | no reply is missed; `Ready` means served; a failed `Start` leaves nothing; nothing is closed under a listener before the deadline; `Start` returns, replies arrive |
| `sender_notify_desync` | 2 sends, 1 notification | violation | `SendOrError` fails: see below |
| `consumer_restore_race` | 4 starts, 2 reconnects, 1 fault | violation | `ConsumerRecovers` fails: see below |
| `kafka_dlq_loss` | 2 messages, 1 fault | violation | `AtLeastOnce` fails: see below |
| `kafka_missed_reply` | 1 call, 2 partitions | violation | `NoMissedReply` fails: see below |

Each module has a type invariant (`TypeOK`; `JointTypeOK`, `DispatchTypeOK`,
`AppTypeOK` where modules are composed, `QueryTypeOK` in `RequestReply`) that
documents its state. All but `DispatchTypeOK` and `AppTypeOK` are proved, and those
two hold in the instances above; they are not among the properties of the runs, since
what they say is no news about the code. `KafkaListener` and `RequestReply` name their
specifications `ListenerSpec` and `QuerySpec`, because a module of proofs extends each
of them together with another component.

Why the bounds are enough to be interesting. Two sends are what it takes to give one
call the confirm of another. A reconnect with several channels has hook, watcher and
retry loop compete for one generation. One reconnect and two faults give restores,
starts and self-heals that supersede each other; two reconnects with two restores side
by side are in `consumer_restore_race`, and what must hold however many there are is
proved. The same goes for several sends across a reconnect: `sender_confirms` has one
connection, and `ConfirmedMeansAcked` and `KeepsPromise` are proved for any number.
Faults are bounded because liveness is about what happens once the broker stops
failing. `MaxStarts` and `Channels` are large enough not to block a step that the
faults and drops call for. Channel names carry no meaning, so the next one is fixed
(`FreshChannel`); calls are symmetric in the safety runs. Two query consumers and one
fault are what it takes to have one query answered twice; idle consumers are
interchangeable, so one stands for all (`IdleServer`). Two apps are what it takes for
a retry to reach the wrong one; the scenarios are an event two apps receive and, with
one app, since no other would take part, a notification while an event pattern is
registered late, two commands of which one gets its handler late, and a query. The
clusters of `kafka_app` are an empty one on which topics are created and one on which
they are not and the topic of the queries is missing, so that `Start` succeeds or
fails with what is registered. kafka-go's fetches are counted up to the number of
partitions, the most that `awaitPrimed` waits for. The matcher is checked for all
patterns and names of up to three segments, and the resolution for every three of them
as candidates: a hash with something on either side, and every first difference, fit
in three. The timeouts of the sockets are three different numbers in which a deadline
of amqp091 is once earlier and once later than that of a write.

### Fairness

Weak fairness for goroutines that can step, for sleeps and for calls that return;
strong fairness where the code selects among several ready cases again and again
(a supervisor offered `stop`, `ctx.Done` or a close beside deliveries: Go's
`select` picks at random) and where a broker is dialled again and again. Never
assumed: that a context ends, that a connection drops or (outside `Connection`,
where it is dialled until it answers) comes back, that a
handler returns, or that a socket takes the bytes of a write (except on the last
connection of the instance, which stays up because nothing could replace it). Where
handlers must return, the property says so (`HandlersReturn` in `Consumer`; in
`KafkaListener`, whose handlers are called synchronously with a context they may
ignore, `PartitionDrains` excepts a handler that never returns); in `RequestReply`,
whose liveness is that of the answer, they return, and a context ends only if it has
a deadline. In `Dispatch` they return too, and the broker serves a queue in order, so
that no copy is passed over for ever (strong fairness of `Deliver`); one condition
is shared by the steps of a bring-up, of a delivery and of the copies of a message,
which assumes less than one for each. In `KafkaApp`
the readers go on fetching, and an idle listener that is cancelled ends; a busy one
need not; the steps of one goroutine, of a listener or of a caller, share a condition,
since no two of them are ever enabled together and it takes each once. In
`SocketConnection` time goes on (strong fairness of `Tick`, since short local steps
interrupt it), and the send lock of amqp091, a Go mutex, starves nobody.
In `Consumer` several goroutines share one condition; those
steps happen finitely often, so it is as strong as one condition each and far
cheaper to check.

### What the violation runs show

- `sender_notify_desync`: `SendNoConfirm` publishes on the channel in confirm mode
  without taking a tag. The broker counts it. Every later confirm goes to the next
  call, and a nacked send can return nil. `ConfirmedMeansAcked` is the part that
  remains true.
- `consumer_restore_race`: an older restore past its generation check supersedes
  the consumer its successor started, fails to open its own and gives up.
- `kafka_dlq_loss`: after a failed dead-letter publish the loop goes on, and the
  commit of the next message passes the failed one.
- `kafka_missed_reply`: `awaitPrimed` compares the fetches of all partitions
  together with the number of partitions. Two fetches of one partition prime the
  listener while the other has no offset yet; a reply there is before the offset the
  reader then starts from, and the call times out.

Other exceptions the passing properties name, seen in traces of stronger
versions:

- `Reconnect` sets `nextTag` to 0 before it opens a channel. If another rebuild
  has already installed one on the new connection, counts part as above (part of
  `desync`).
- Hooks are registered at the end of startup. A reconnect before that is followed
  by no rebuild and no restore (`"skipped"` in `PublisherRecovers` and `Steady`).
- A failed `start` leaves a `done` channel nobody closes, so the next one waits
  the whole 30 s.
- A self-heal during shutdown does not look at the context: with a handler that
  never returns, health can read running after `Start` returned (`HandlersReturn`
  in `DrainCompletes`).
- `SetDeadline` replaces the deadline of a write that is in flight. When amqp091
  clears the handshake deadline under a heartbeat, that one write has no bound
  (`overlapped` in `WriteBounded`); the deadline `Close` sets still ends it
  (`CloseReturns`). When a whole `SetDeadline` falls between the first critical
  section of `Write` and the arming, the write keeps its own deadline instead.
- With a `#` in a pattern the specificity order is neither antisymmetric nor
  transitive, and the order of a Go map picks the handler (`StarsResolveAlike` speaks
  of stars only).
- `docs/domain-events.md` and the comment of `MostSpecific` say that fewer wildcards
  win. The code lets the first position decide where one candidate has a literal and
  the other a star, so that `a.*.*` wins over `*.b.c`. `StarsResolveAlike` takes no
  side: it says what code and docs agree on, that the winner is never a pattern whose
  literals another candidate has too, with more of them.
- A command or a query without a handler is acked and so dropped, with
  `WithDLQRetry` too, although `docs/commands.md` speaks of a nack and the DLQ. It is
  the second exception of `NoLoss`, which says that it never happens to a name with a
  handler; events and notifications never meet it at all (`RoutedHasHandler`).
- A body that is no envelope is nacked without requeue: lost without a DLQ
  (`NoLoss`), and with one in circulation for ever (`EventuallySettled`).
- A handler registered after `Start` is bound at the next reconnect or self-heal
  only, and a kind registered first after `Start` never gets a listener (`Served`);
  `docs/getting-started.md` promises new bindings "at runtime".
- A handler registered while `KafkaApp.Start` runs, between its snapshot and
  `markStarted`, is accepted and never served (`early` in `ReadyMeansServing`). A
  comment in `registry.go` has the snapshots taken after `markStarted`.
- A message given up by a shutdown during backoff can be passed by the commit of
  the next one (`left` in `CommittedIsSettled`).

## Proofs

| module | component | proves |
|--------|-----------|--------|
| `SenderLayerProofs` | `Sender`, `SenderInv` | `TypeOK`, and the first two layers of the invariant |
| `SenderProofs` | `Sender`, `SenderRefines` | the third layer; `NoLostWaiter`, `TagDiscipline`, `ConfirmFromOwnChannel`, `NoChannelLeak`, `RecoveryOwned`, `ConfirmedMeansAcked`, `SendOrError` without notifications and reconnects, the refinement `KeepsPromise` |
| `ApplicationProofs` | `Consumer`, `ConsumerInv`, `RequestReply` | `TypeOK`, `OneConsumer`, `HealthTracksNewest`, `NoAddAfterWait`, `DrainIsComplete`; `QueryTypeOK`, `AnswerIsOwn`, `EntriesMatchCalls` |
| `ConnectionProofs` | `Connection`, `Socket`, `SocketConnection` | `JointTypeOK`, `OneConnection`, `HealthHonest`, `WriteBounded`, the refinement `JointSpec => Spec` |
| `DispatchProofs` | `Dispatch`, `Registry` | `CacheCoherent`, `NoStrayCopy` |
| `KeyMatcherProofs` | `KeyMatcher` | the matcher is the routing rule; candidates of stars have one winner |
| `HandlerProofs` | `Dispatch`, `Registry`, `KeyMatcher` | `NoLoss`, `RoutedHasHandler`, `MatcherAgrees`, `StarsResolveAlike` |
| `KafkaProofs` | `KafkaListener`, `KafkaApp`, `KafkaQueries` | `TypeOK`, `CommittedIsSettled`, `DLQOnlyWhenExhausted`; `ReadyMeansServing`, `FailedStartIsClean`, `ClosedAfterDrain`, and `NoMissedReply` for one partition |

Each theorem holds for every value of the constants that satisfies the assumption of
its component: `SenderAssumption` (disjoint sets, a first connection, a null value
outside them), `ConsumerAssumption` and `ConnectionAssumption` (bounds are natural
numbers), `SocketAssumption` (timeouts are positive, since otherwise no wrapper is
installed), `KafkaListenerAssumption` (bounds; any integer as a retry limit, where the
configuration admits positive ones), `RequestReplyAssumption` (a null value that is no
call), `DispatchAssumption` (messages have a name of literals, each kind has finitely
many handlers), `QueriesAssumption` and `AppAssumption` (finitely many partitions and
handlers). Hardly any invariant of the runs is inductive alone. Each proof has one
step per action, and lemmas that say what a kind of step leaves alone.

**Publisher.** `IInv` has three layers, each inductive relative to the earlier ones.

1. `GoroutineInv`: `rebuildMu` is a lock and `gen` moves only under it; a
   generation names one channel; a channel is untouched (`Fresh`) until it is
   installed and unwatched until its rebuild ends. `NoChannelLeak` and
   `RecoveryOwned` follow step by step.
2. `WaiterInv`: where a call stands determines whether it is in `pending` and what
   its result channel holds. A drain answers whoever was registered; a confirm
   taken out of `pending` is in the hands of the watcher.
3. `AlignInv`: on an undisturbed channel `nextTag` equals the broker's count, plus
   one while the slot holder has yet to publish. Hence the tag of a waiting call is
   its delivery tag, and the verdict it gets is its own (`EntryIsOwn`).

The refinement rests on `IInv`: that a returned verdict is the call's own is
`EntryIsOwn`, and that "closed" and "unavailable" tell the truth is `WaiterInv`.

**Consumer.** `ConsumerInv` states the invariant, again in layers.

1. `GenInv`: generations above `runGen` do not exist yet, the stopped ones are
   below it, a closed `done` means exited, a channel is held only by its own
   goroutine (`ChannelInv`), and an older generation that is alive beside one past
   its wait was overtaken by a timed-out start between them (`HandoverInv`).
   `OneConsumer` is not inductive, because a generation without a channel may open
   one; `HandoverInv` is, because passing the wait is the only step that can
   break it, and that step finds the previous generation exited or records itself.
2. `HealthTracksNewest`, which needs of layer 1 that the newest generation is never
   stopped.
3. `ShutdownInv`: a start under way belongs to a restore that is counted in
   `restoreWg`, what supervises is counted in `shutdownWg` (`WorkInv`), and each
   reconnect has a restore of its own (`DropInv`). Hence the end of the first `Wait`
   leaves no start, and the end of the second no supervisor.

**Request/reply.** `QueryInv`: a server that is not idle has a delivery and only then
a lease (`JobInv`); whatever is on its way back, at the server, in the reply queue, in
`Route`, in the channel of a call or returned, was produced for that call
(`OwnAnswers`). `EntriesMatchCalls` is inductive beside it.

**Connection.** The right to dial is a token: one goroutine at most has it, and it is
handed from the `Dial` to the watcher of the connection it stored (`Token`). `Handover`
says what a goroutine knows at each position of the variable `conn` it holds,
`OnlyLastOpen` that no connection but the last is open; `OneConnection` follows.
`WatchedWhenConnected` and `ShutdownInv` give `HealthHonest`. Below it, `WriteInv`
follows the deadline of a write from its first critical section to its return, and
`PhaseInv` what amqp091 uses the socket for. `JointInv` is their conjunction.
For `SocketImplementsConnection`, each step of the composition is one of `Connection`
or leaves its variables alone.

**Dispatch.** `IInv` says: the registries have their maps (`RegistryInv`) and the cache
is coherent; the declarations made are among those the code ever makes and, because
`Declare` stops at the first that fails, whatever routes a message into a durable queue
was declared after the DLQ and the retry exchange that take it back (`Whole`,
`WiredFirst`); a delivery in hand is one of a message (`HandInv`); every copy is in
the queue or the DLQ of a listener (`ShapeInv`); and a message routed to a durable
queue is in one of queue, DLQ, a live hand and `settled`, unless it was given up, and
in no two of them (`CopyInv`). `NoStrayCopy` is read off `CopyInv`, and so is `NoLoss`
but for what was dropped; that a retry finds the queue it came from, and no other, is
`WiredFirst` and the names of the exchanges.

**Matcher.** `matchSegments` recurs over the pattern and tries every split of the key.
`MatcherIsRouting` shows it equal to the cuts of `TopicMatches` for names of any
length. The recursion is shown to have a solution and only one, by taking the shortest
pattern on which two could differ (`WFMin` of `WellFoundedInduction`, which takes a set
and no operator); a cut of a pattern is then the cut of its tail shifted by what its
head took. For candidates of stars and literals, `StarsHaveOneWinner` shows that
`compare` is decided at the first difference, that the candidate with the literal there
beats the other, and that the fold of `MostSpecific` keeps a candidate all others lose
to, in whatever order they come.

**Handlers.** `NamesInv`, on top of the `IInv` of `DispatchProofs`: every topic binding
at the broker stands for a handler of the app it feeds, since handlers are never taken
back (`StandInv`), so whatever the broker routed into an events or
notification queue matches a handler registered now (`WantedInv`), by
`MatcherIsRouting`; the lookup then has a candidate, the fold returns one of the
candidates, and the cache holds only what a lookup would return (`CacheCoherent`).
So nothing is discarded there (`RoutedHasHandler`). In the same way `DropInv` says
that nothing is discarded anywhere for which a handler was registered before the first
`Start`, which is the rest of `NoLoss`.

**Kafka.** `ListenerInv`: the message being processed is the last one fetched
(`PositionInv`), everything fetched is settled, given up or being processed
(`SettledInv`), and the attempts are those of this message (`AttemptInv`). `LifeInv`:
the resources follow the position of `Start`, the goroutines counted are those that
run, and the snapshots taken so far have the handlers registered before. For one
partition, `FirstInv` says that no query and no reply exist before the reply reader is
anchored, because the shared fetch counter is then the counter of that partition.

TLC checked the invariant of `Consumer` with two reconnects (1.7 million states)
before it was proved.

Only model-checked:

- all liveness: TLAPS does not reason about fairness here;
- `BackoffIsExact`: the provers know nothing of `^`, in which the wrap of a signed
  integer is expressed;
- `DispatchTypeOK` and `AppTypeOK`, of which the proofs use only parts.

## Not modelled

- A rebalance of a Kafka consumer group while a message is being handled: it is
  kafka-go's, and the code has no step for it. So is one of the reply reader's group,
  after which `LastOffset` would be resolved again without priming.
- `SendCommand`, `Emit` and `EmitNotification` of Kafka: they encode a message and
  publish it once, without state. Those of RabbitMQ appear as exchange and key.
- `Health()` of the RabbitMQ application: it reads the states that `Connection` and
  `Consumer` keep, and aggregates them without changing any.
- A wildcard inside a longer segment (`ab*`), which the matcher takes for a literal
  and `HasWildcard` for a pattern.
- A `WriteTimeout` that is not positive: no socket wrapper is installed.

Left out because there is no state in them: codecs, CloudEvents and headers
(encoding), configuration and builders (defaults and delegation), observability
and name generation, and the example programs.
