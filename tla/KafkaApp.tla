------------------------------ MODULE KafkaApp ------------------------------
(***************************************************************************)
(* The life of a Kafka app (internal/kafka/application.go): Start with its *)
(* snapshots of the registry (registry.go) and its topics (topology.go),   *)
(* the goroutine of every listener, and the shutdown, composed with the    *)
(* request/reply of KafkaQueries.                                          *)
(***************************************************************************)
EXTENDS KafkaQueries

CONSTANTS
  Names,         \* <<kind, name>>: handlers the program may register
  Clusters,      \* <<allowAutoCreateTopics, topics that exist before Start>>
  MaxFaults      \* bound: calls to the brokers that fail

ASSUME AppAssumption ==
  /\ IsFiniteSet(Names) /\ MaxFaults \in Nat
  /\ \A h \in Names : h[1] \in {"event", "notification", "command", "query"}

VARIABLES
  allowAutoCreateTopics, replyEnabled,   \* the configuration
  handlers,      \* the registry
  started,       \* the registry is closed
  early,         \* the handlers that were there when Start was called
  pc,            \* where Start is
  snapshot,      \* the handlers Start has seen
  topics,        \* the topics of the cluster
  primeNum,      \* partitions the reply listener waits for
  producer,      \* "none", "open" or "closed"
  gateway,       \* the real bus and gateway have replaced the stubs
  reader,        \* reader[l]: "none", "open" or "closed"
  run,           \* run[l]: where the goroutine of the listener is
  wg,            \* the wait group
  ctxDone, drainTimedOut,
  faults         \* bounded counter

config == <<allowAutoCreateTopics, replyEnabled>>
registryVars == <<handlers, started>>
startVars == <<pc, early, snapshot, topics, primeNum, producer, gateway>>
loopVars == <<reader, run, wg>>
endVars == <<ctxDone, drainTimedOut>>
vars == <<queryVars, config, registryVars, startVars, loopVars, endVars, faults>>

KindOrder == <<"event", "notification", "command", "query", "reply">>

\* One listener per event and notification, one for all commands, one for all
\* queries, one for the replies.
Shared(kind) == <<kind, "all">>
ListenerOf(h) == IF h[1] \in {"event", "notification"} THEN h ELSE Shared(h[1])
Listeners == {ListenerOf(h) : h \in Names} \cup {Shared("reply")}
QueryL == Shared("query")
ReplyL == Shared("reply")

\* The listeners Start makes, from what it has seen.
Wanted == {ListenerOf(h) : h \in snapshot} \cup (IF replyEnabled THEN {ReplyL} ELSE {})

\* Mutant: the dead-letter topics of the events are forgotten.
collectTopicsToVerifyNoDLQ == {<<l, "topic">> : l \in Wanted}

\* A topic per listener, and a dead-letter topic where failures are retried.
collectTopicsToVerify ==
  {<<l, "topic">> : l \in Wanted} \cup
  {<<l, "DLQ">> : l \in {l \in Wanted : l[1] \in {"event", "command"}}}

Goto(step) == pc' = step
-----------------------------------------------------------------------------
(* The registry.                                                           *)

\* ListenEvent, ListenNotification, ListenCommand and ServeQuery; an error
\* changes nothing.
Listen(h) ==
  /\ ~started /\ h \notin handlers
  /\ handlers' = handlers \cup {h}
  /\ UNCHANGED <<queryVars, config, started, startVars, loopVars, endVars, faults>>
-----------------------------------------------------------------------------
(* Start.                                                                  *)

\* Start may be called again after it returned an error.
Start ==
  /\ pc \in {"idle", "failed"} /\ ~ctxDone
  /\ Goto("dial")
  /\ early' = handlers /\ snapshot' = {}
  /\ UNCHANGED <<queryVars, config, registryVars, topics, primeNum, producer, gateway, loopVars,
                 endVars, faults>>

\* A broker cannot be reached, or the context ended.
CallFails ==
  \/ faults < MaxFaults /\ faults' = faults + 1
  \/ ctxDone /\ UNCHANGED faults

verifyDial ==
  /\ pc = "dial"
  /\ \/ Goto("event") /\ producer' = "open" /\ UNCHANGED faults
     \/ CallFails /\ Goto("failed") /\ UNCHANGED producer
  /\ UNCHANGED <<queryVars, config, registryVars, early, snapshot, topics, primeNum, gateway,
                 loopVars, endVars>>

\* The four snapshots, each under the lock of the registry.
Snapshot(i) ==
  /\ i \in 1..4 /\ pc = KindOrder[i]
  /\ snapshot' = snapshot \cup {h \in handlers : h[1] = KindOrder[i]}
  /\ Goto(IF i = 4 THEN "topics" ELSE KindOrder[i + 1])
  /\ UNCHANGED <<queryVars, config, registryVars, early, topics, primeNum, producer, gateway,
                 loopVars, endVars, faults>>

\* Mutant: the producer stays open when the topics cannot be verified.
AbandonStartOpen == Goto("failed") /\ UNCHANGED producer

AbandonStart == Goto("failed") /\ producer' = "closed"

\* Missing topics are created, all or some of them, if the configuration allows.
\* On an error Start closes the producer.
verifyTopics ==
  /\ pc = "topics"
  /\ LET missing == collectTopicsToVerify \ topics IN
     \/ /\ missing = {} \/ allowAutoCreateTopics
        /\ topics' = topics \cup missing
        /\ Goto("open") /\ UNCHANGED <<producer, faults>>
     \/ /\ missing # {} /\ ~allowAutoCreateTopics
        /\ AbandonStart /\ UNCHANGED <<topics, faults>>
     \/ /\ CallFails
        /\ \E made \in SUBSET missing :
             topics' = IF allowAutoCreateTopics THEN topics \cup made ELSE topics
        /\ AbandonStart
  /\ UNCHANGED <<queryVars, config, registryVars, early, snapshot, primeNum, gateway, loopVars,
                 endVars>>

\* replyTopicPartitions falls back to one partition; every reader is opened.
OpenListeners ==
  /\ pc = "open"
  /\ \/ primeNum' = Cardinality(Partitions) /\ UNCHANGED faults
     \/ CallFails /\ primeNum' = 1
  /\ reader' = [l \in Listeners |-> IF l \in Wanted THEN "open" ELSE "none"]
  /\ Goto("publish")
  /\ UNCHANGED <<queryVars, config, registryVars, early, snapshot, topics, producer, gateway, run,
                 wg, endVars>>

PublishGateway ==
  /\ pc = "publish"
  /\ gateway' = TRUE /\ Goto("mark")
  /\ UNCHANGED <<queryVars, config, registryVars, early, snapshot, topics, primeNum, producer,
                 loopVars, endVars, faults>>

markStarted ==
  /\ pc = "mark"
  /\ started' = TRUE /\ Goto("spawn")
  /\ UNCHANGED <<queryVars, config, handlers, early, snapshot, topics, primeNum, producer,
                 gateway, loopVars, endVars, faults>>

Unspawned == {l \in Wanted : run[l] = "none"}

\* Listeners are taken in the order of their kinds.
NotAfter == UNION {{<<KindOrder[i], KindOrder[j]>> : j \in i..5} : i \in 1..5}
FirstOf(S) == {l \in S : \A k \in S : <<l[1], k[1]>> \in NotAfter}

\* Mutant: the goroutine is not added to the wait group.
spawnUncounted(l) ==
  /\ pc = "spawn" /\ l \in FirstOf(Unspawned)
  /\ run' = [run EXCEPT ![l] = "spawned"]
  /\ UNCHANGED wg
  /\ UNCHANGED <<queryVars, config, registryVars, startVars, reader, endVars, faults>>

spawn(l) ==
  /\ pc = "spawn" /\ l \in FirstOf(Unspawned)
  /\ run' = [run EXCEPT ![l] = "spawned"]
  /\ wg' = wg + 1
  /\ UNCHANGED <<queryVars, config, registryVars, startVars, reader, endVars, faults>>

CloseReady ==
  /\ pc = "spawn" /\ Unspawned = {}
  /\ Goto("ready")
  /\ UNCHANGED <<queryVars, config, registryVars, early, snapshot, topics, primeNum, producer,
                 gateway, loopVars, endVars, faults>>
-----------------------------------------------------------------------------
(* The goroutines of the listeners.                                        *)

AppUnchanged == UNCHANGED <<config, registryVars, startVars, endVars, faults>>
Move(l, from, to) == run[l] = from /\ run' = [run EXCEPT ![l] = to] /\ UNCHANGED <<reader, wg>>

Begins(l) ==
  /\ Move(l, "spawned", IF l = ReplyL THEN "priming" ELSE "idle")
  /\ AppUnchanged /\ UNCHANGED queryVars

\* Only a cancelled context ends the loop.
LoopEnds(l) ==
  /\ run[l] = "idle" /\ ctxDone
  /\ run' = [run EXCEPT ![l] = "done"]
  /\ wg' = wg - 1
  /\ AppUnchanged /\ UNCHANGED <<queryVars, reader>>

\* A message of an event, notification or command listener; what becomes of it is
\* in KafkaListener.
Handle(l) ==
  /\ l \notin {QueryL, ReplyL} /\ reader[l] = "open"
  /\ Move(l, "idle", "busy")
  /\ AppUnchanged /\ UNCHANGED queryVars

Handled(l) ==
  /\ l \notin {QueryL, ReplyL}
  /\ Move(l, "busy", "idle")
  /\ AppUnchanged /\ UNCHANGED queryVars

QueryArrives(c) ==
  /\ reader[QueryL] = "open" /\ Move(QueryL, "idle", "busy")
  /\ FetchQuery(c) /\ AppUnchanged

QueryAnswered(p) ==
  /\ producer = "open" /\ Move(QueryL, "busy", "idle")
  /\ Replies(p) /\ AppUnchanged

QueryUnanswered ==
  /\ Move(QueryL, "busy", "idle")
  /\ RepliesNothing /\ AppUnchanged

\* kafka-go's own goroutines.
ReplyReader(p) ==
  /\ reader[ReplyL] = "open"
  /\ Anchor(p) \/ FetchCycle(p)
  /\ AppUnchanged /\ UNCHANGED loopVars

awaitPrimed ==
  /\ PollsPrimed(primeNum)
  /\ Move(ReplyL, "priming", IF primed' THEN "idle" ELSE "priming")
  /\ AppUnchanged

PrimingCancelled ==
  /\ ctxDone /\ Move(ReplyL, "priming", "idle")
  /\ AppUnchanged /\ UNCHANGED queryVars

ReplyArrives(p) ==
  /\ reader[ReplyL] = "open" /\ run[ReplyL] = "idle"
  /\ RouteReply(p)
  /\ AppUnchanged /\ UNCHANGED loopVars
-----------------------------------------------------------------------------
(* Callers.                                                                *)

CallBegins(c) == gateway /\ RequestReply(c, replyEnabled) /\ AppUnchanged /\ UNCHANGED loopVars
CallPublishes(c) == producer = "open" /\ Publishes(c) /\ AppUnchanged /\ UNCHANGED loopVars
CallFailsToPublish(c) == PublishFails(c) /\ AppUnchanged /\ UNCHANGED loopVars
CallAnswered(c) == Answered(c) /\ AppUnchanged /\ UNCHANGED loopVars
CallTimesOut(c) == TimesOut(c) /\ AppUnchanged /\ UNCHANGED loopVars
-----------------------------------------------------------------------------
(* Shutdown.                                                               *)

CtxCancelled ==
  /\ ~ctxDone /\ ctxDone' = TRUE
  /\ UNCHANGED <<queryVars, config, registryVars, startVars, loopVars, drainTimedOut, faults>>

ShutdownStep ==
  UNCHANGED <<queryVars, config, registryVars, early, snapshot, topics, primeNum, gateway, run, wg,
              ctxDone, faults>>

shutdown ==
  /\ pc = "ready" /\ ctxDone /\ Goto("drain")
  /\ UNCHANGED <<producer, reader, drainTimedOut>> /\ ShutdownStep

Drained ==
  /\ pc = "drain" /\ wg = 0 /\ Goto("close")
  /\ UNCHANGED <<producer, reader, drainTimedOut>> /\ ShutdownStep

\* Mutant: the drain is not bounded.
DrainNeverTimesOut ==
  /\ FALSE /\ Goto("close") /\ drainTimedOut' = TRUE
  /\ UNCHANGED <<producer, reader>> /\ ShutdownStep

DrainTimesOut ==
  /\ pc = "drain" /\ wg # 0 /\ Goto("close") /\ drainTimedOut' = TRUE
  /\ UNCHANGED <<producer, reader>> /\ ShutdownStep

OpenReaders == {l \in Listeners : reader[l] = "open"}

CloseReader(l) ==
  /\ pc = "close" /\ l \in FirstOf(OpenReaders)
  /\ reader' = [reader EXCEPT ![l] = "closed"]
  /\ UNCHANGED <<pc, producer, drainTimedOut>> /\ ShutdownStep

CloseProducer ==
  /\ pc = "close" /\ OpenReaders = {}
  /\ producer' = "closed" /\ Goto("returned")
  /\ UNCHANGED <<reader, drainTimedOut>> /\ ShutdownStep
-----------------------------------------------------------------------------
Init ==
  /\ QueriesInit
  /\ \E cluster \in Clusters : allowAutoCreateTopics = cluster[1] /\ topics = cluster[2]
  /\ replyEnabled \in BOOLEAN
  /\ handlers = {} /\ started = FALSE /\ early = {} /\ snapshot = {}
  /\ pc = "idle" /\ primeNum = 1
  /\ producer = "none" /\ gateway = FALSE
  /\ reader = [l \in Listeners |-> "none"] /\ run = [l \in Listeners |-> "none"] /\ wg = 0
  /\ ctxDone = FALSE /\ drainTimedOut = FALSE /\ faults = 0

StartSteps ==
  \/ verifyDial \/ \E i \in 1..4 : Snapshot(i)
  \/ verifyTopics \/ OpenListeners \/ PublishGateway \/ markStarted
  \/ \E l \in Listeners : spawn(l)
  \/ CloseReady \/ shutdown \/ Drained \/ DrainTimesOut
  \/ \E l \in Listeners : CloseReader(l)
  \/ CloseProducer

Next ==
  \/ \E h \in Names : Listen(h)
  \/ Start \/ StartSteps \/ CtxCancelled
  \/ \E l \in Listeners : Begins(l) \/ LoopEnds(l) \/ Handle(l) \/ Handled(l)
  \/ \E c \in Calls : \/ QueryArrives(c) \/ CallBegins(c) \/ CallPublishes(c)
                      \/ CallFailsToPublish(c) \/ CallAnswered(c) \/ CallTimesOut(c)
  \/ \E p \in Partitions : QueryAnswered(p) \/ ReplyReader(p) \/ ReplyArrives(p)
  \/ QueryUnanswered \/ awaitPrimed \/ PrimingCancelled

Spec == Init /\ [][Next]_vars

\* Start goes on, goroutines run, kafka-go fetches and a caller takes its reply.
\* Nothing makes a handler return, a program cancel its context or a caller give up.
FairSpec ==
  /\ Spec
  /\ WF_vars(StartSteps) /\ WF_vars(awaitPrimed) /\ WF_vars(PrimingCancelled)
  /\ \A l \in Listeners : WF_vars(Begins(l) \/ LoopEnds(l))
  /\ \A p \in Partitions : WF_vars(ReplyReader(p)) /\ WF_vars(ReplyArrives(p))
  /\ \A c \in Calls : WF_vars(CallPublishes(c) \/ CallAnswered(c))
-----------------------------------------------------------------------------
\* Every variable keeps its type.
AppTypeOK ==
  /\ QueriesTypeOK
  /\ handlers \subseteq Names /\ snapshot \subseteq handlers /\ early \subseteq handlers
  /\ primeNum \in 1..Cardinality(Partitions)
  /\ producer \in {"none", "open", "closed"} /\ gateway \in BOOLEAN
  /\ reader \in [Listeners -> {"none", "open", "closed"}]
  /\ run \in [Listeners -> {"none", "spawned", "priming", "idle", "busy", "done"}]
  /\ wg \in 0..Cardinality(Listeners)
  /\ faults \in 0..MaxFaults

Running(l) == run[l] \notin {"none", "done"}

\* Once Ready is closed, every handler that was registered before Start was called
\* is served: its listener exists and reads an open reader, and its topic and, for
\* events and commands, its dead-letter topic exist; the registry is closed.  A
\* handler registered while Start runs may be accepted and never served.
ReadyMeansServing ==
  pc = "ready" => /\ started /\ gateway
                  /\ \A h \in early : LET l == ListenerOf(h) IN
                       /\ reader[l] = "open" /\ run[l] # "none"
                       /\ <<l, "topic">> \in topics
                       /\ h[1] \in {"event", "command"} => <<l, "DLQ">> \in topics

\* A Start that returned an error has left nothing behind: no open producer, no
\* reader, no goroutine, and a registry that still takes handlers.
FailedStartIsClean ==
  pc = "failed" => /\ producer # "open" /\ OpenReaders = {} /\ wg = 0
                   /\ ~gateway /\ ~started

\* Readers and the producer are closed under a running listener only if the drain
\* timed out, and the producer, which replies and dead letters go through, only
\* after every reader.
ClosedAfterDrain ==
  /\ (producer = "closed" \/ \E l \in Listeners : reader[l] = "closed") /\ ~drainTimedOut =>
       \A l \in Listeners : ~Running(l)
  /\ gateway /\ producer = "closed" => OpenReaders = {}

\* Start returns after its context is cancelled, even if a handler never does.
StartReturns == <>[](ctxDone => pc \in {"idle", "failed", "returned"})

\* A call does not wait for ever for a reply that is in the reply topic while the
\* app runs: the reader primes, the reply is read and routed.
ReplyIsDelivered ==
  <>[](\A c \in Calls : call[c] = "waiting" /\ ~ctxDone =>
         \A p \in Partitions, i \in 1..Cardinality(Calls) :
           i \in DOMAIN log[p] => log[p][i] # c)
=============================================================================
