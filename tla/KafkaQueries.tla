---------------------------- MODULE KafkaQueries ----------------------------
(***************************************************************************)
(* Request/reply of one instance over Kafka: RequestReply of               *)
(* internal/kafka/gateway.go, the reply router, the reply listener with    *)
(* the priming of its reader (replylistener.go) and the query listener     *)
(* that answers (querylistener.go).  Every action is one step of a         *)
(* goroutine that KafkaApp starts and stops.                               *)
(***************************************************************************)
EXTENDS Integers, Sequences, FiniteSets

CONSTANTS
  Calls,        \* calls of RequestReply
  Partitions    \* partitions of the reply topic

VARIABLES
  log,        \* log[p]: the replies in partition p, each the call it answers
  anchor,     \* anchor[p]: the offset the reader started from, or NoOffset
  pos,        \* pos[p]: the offset the reader has reached
  fetches,    \* Stats().Fetches: fetches of all partitions since the last Stats()
  primed,     \* replyListener.primed is closed
  call,       \* call[c]: where the call is
  router,     \* router[c]: the reply channel of the call
  queries,    \* queries published and not yet fetched
  query       \* the query the listener is handling, or NoCall

queryVars == <<log, anchor, pos, fetches, primed, call, router, queries, query>>

NoOffset == -1
NoCall == "none"

ASSUME QueriesAssumption ==
  IsFiniteSet(Partitions) /\ Partitions # {} /\ NoCall \notin Calls
-----------------------------------------------------------------------------
(* The reply reader.  kafka-go fetches from each partition on its own from *)
(* the moment the reader is open; Stats() returns the counters and resets  *)
(* them.  External, but for the poll.                                      *)

\* The group has no committed offset: LastOffset is the end of the partition.
Anchor(p) ==
  /\ anchor[p] = NoOffset
  /\ anchor' = [anchor EXCEPT ![p] = Len(log[p])]
  /\ pos' = [pos EXCEPT ![p] = Len(log[p])]
  /\ UNCHANGED <<log, fetches, primed, call, router, queries, query>>

\* One fetch cycle, empty or not.  Counted up to the number of partitions, and as
\* long as awaitPrimed may still read the counter.
FetchCycle(p) ==
  /\ anchor[p] # NoOffset /\ ~primed /\ fetches < Cardinality(Partitions)
  /\ fetches' = fetches + 1
  /\ UNCHANGED <<log, anchor, pos, primed, call, router, queries, query>>

\* Mutant: priming does not wait for a fetch.
PollsPrimedAtOnce(primeNum) ==
  /\ ~primed
  /\ primed' = TRUE
  /\ fetches' = 0
  /\ UNCHANGED <<log, anchor, pos, call, router, queries, query>>

\* One round of awaitPrimed.
PollsPrimed(primeNum) ==
  /\ ~primed
  /\ primed' = (fetches >= primeNum)
  /\ fetches' = 0
  /\ UNCHANGED <<log, anchor, pos, call, router, queries, query>>

\* ReadMessage and route: a reply nobody waits for is dropped, and so is a second
\* one, since the channel holds one.
RouteReply(p) ==
  /\ anchor[p] # NoOffset /\ pos[p] < Len(log[p])
  /\ pos' = [pos EXCEPT ![p] = @ + 1]
  /\ LET c == log[p][pos[p] + 1] IN
       router' = IF router[c] = "empty" THEN [router EXCEPT ![c] = "full"] ELSE router
  /\ UNCHANGED <<log, anchor, fetches, primed, call, queries, query>>
-----------------------------------------------------------------------------
(* RequestReply.                                                           *)

\* The call waits for the reply consumer, unless there is none to wait for.
RequestReply(c, replyEnabled) ==
  /\ call[c] = "idle"
  /\ call' = [call EXCEPT ![c] = IF replyEnabled THEN "unready" ELSE "failed"]
  /\ UNCHANGED <<log, anchor, pos, fetches, primed, router, queries, query>>

\* Mutant: the reply channel is not registered when the query goes out.
PublishesUnregistered(c) ==
  /\ call[c] = "unready" /\ primed
  /\ queries' = queries \cup {c}
  /\ call' = [call EXCEPT ![c] = "waiting"]
  /\ UNCHANGED <<log, anchor, pos, fetches, primed, router, query>>

\* awaitReplyReady returns, the reply channel is registered, the query published.
Publishes(c) ==
  /\ call[c] = "unready" /\ primed
  /\ router' = [router EXCEPT ![c] = "empty"]
  /\ queries' = queries \cup {c}
  /\ call' = [call EXCEPT ![c] = "waiting"]
  /\ UNCHANGED <<log, anchor, pos, fetches, primed, query>>

\* The envelope is too large or the publish fails: registered and deregistered.  A
\* publish that returned an error may still have reached the topic.
PublishFails(c) ==
  /\ call[c] = "unready" /\ primed
  /\ call' = [call EXCEPT ![c] = "failed"]
  /\ queries' \in {queries, queries \cup {c}}
  /\ UNCHANGED <<log, anchor, pos, fetches, primed, router, query>>

\* AwaitReply, and the deferred Deregister.
Answered(c) ==
  /\ call[c] = "waiting" /\ router[c] = "full"
  /\ call' = [call EXCEPT ![c] = "answered"]
  /\ router' = [router EXCEPT ![c] = "none"]
  /\ UNCHANGED <<log, anchor, pos, fetches, primed, queries, query>>

\* The caller's context ends the wait for the reply consumer or for the reply.
TimesOut(c) ==
  /\ call[c] \in {"unready", "waiting"}
  /\ call' = [call EXCEPT ![c] = "timedout"]
  /\ router' = [router EXCEPT ![c] = "none"]
  /\ UNCHANGED <<log, anchor, pos, fetches, primed, queries, query>>
-----------------------------------------------------------------------------
(* The query listener: processMessage.                                     *)

FetchQuery(c) ==
  /\ query = NoCall /\ c \in queries
  /\ query' = c
  /\ queries' = queries \ {c}
  /\ UNCHANGED <<log, anchor, pos, fetches, primed, call, router>>

\* The answer of the handler, its error, its panic or the decode error goes to the
\* partition the correlation id hashes to; then the query is committed.
Replies(p) ==
  /\ query # NoCall
  /\ log' = [log EXCEPT ![p] = Append(@, query)]
  /\ query' = NoCall
  /\ UNCHANGED <<anchor, pos, fetches, primed, call, router, queries>>

\* No handler, or the reply cannot be published: committed without an answer.
RepliesNothing ==
  /\ query # NoCall
  /\ query' = NoCall
  /\ UNCHANGED <<log, anchor, pos, fetches, primed, call, router, queries>>
-----------------------------------------------------------------------------
QueriesInit ==
  /\ log = [p \in Partitions |-> <<>>]
  /\ anchor = [p \in Partitions |-> NoOffset]
  /\ pos = [p \in Partitions |-> NoOffset]
  /\ fetches = 0 /\ primed = FALSE
  /\ call = [c \in Calls |-> "idle"]
  /\ router = [c \in Calls |-> "none"]
  /\ queries = {} /\ query = NoCall

\* Every variable keeps its type.
QueriesTypeOK ==
  /\ log \in [Partitions -> Seq(Calls)]
  /\ \A p \in Partitions : anchor[p] \in NoOffset..Len(log[p]) /\ pos[p] \in anchor[p]..Len(log[p])
  /\ fetches \in 0..Cardinality(Partitions) /\ primed \in BOOLEAN
  /\ call \in [Calls -> {"idle", "unready", "waiting", "answered", "failed", "timedout"}]
  /\ router \in [Calls -> {"none", "empty", "full"}]
  /\ queries \subseteq Calls /\ query \in Calls \cup {NoCall}

\* A reply produced in response to a query of this instance is never missed: it
\* lies behind the offset from which the reply reader started its partition, since
\* the query was published only after the priming of the reader.
NoMissedReply ==
  \A p \in Partitions : \A i \in DOMAIN log[p] : anchor[p] # NoOffset /\ anchor[p] < i
=============================================================================
