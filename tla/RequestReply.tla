---------------------------- MODULE RequestReply ----------------------------
(***************************************************************************)
(* Queries over RabbitMQ.  A call is one RequestReply of                   *)
(* internal/rabbit/gateway.go with its own correlation id.  Its query goes *)
(* to the durable query queue of the target, its answer comes back through *)
(* the temporary reply queue of the caller's instance, the reply listener  *)
(* and the reply router.                                                   *)
(*                                                                         *)
(* A server is one consumer of the query queue; it dispatches one delivery *)
(* at a time.  When its channel dies the broker redelivers what it has not *)
(* acked, but the handler that is running goes on and still replies.       *)
(* Publishing is SendWithConfirm: without an error the broker has the      *)
(* message, with one it may have it.                                       *)
(***************************************************************************)
EXTENDS Naturals, Sequences

CONSTANTS Calls, Servers,
          CallerDeadline,   \* calls whose context has a deadline of its own
          Registries,       \* sets of calls whose resource the target may serve
          WithDLQRetry,     \* configuration of the target
          None,             \* no call
          MaxQueryFaults    \* failures of the broker and of handlers

ASSUME RequestReplyAssumption ==
  /\ CallerDeadline \subseteq Calls /\ Registries \subseteq SUBSET Calls /\ None \notin Calls
  /\ WithDLQRetry \in BOOLEAN /\ MaxQueryFaults \in Nat

VARIABLES
  served,               \* calls whose resource the target has a handler for
  ReplyTimeout,         \* configuration of the caller: is it positive
  cpc, ret, buf,        \* per call: position, result, content of its channel
  channels,             \* ReplyRouter.channels: calls that have an entry
  query,                \* per call: its message at the broker
  replies, replyQueue,  \* the reply queue, and whether it exists
  routing,              \* Route between Load and the send
  job,                  \* per server: the delivery being dispatched
  queryFaults,
  produced,             \* history: what handlers returned, as <<call, answer>>
  lost                  \* history: calls one of whose messages was lost

inputVars == <<served, ReplyTimeout>>
callVars == <<cpc, ret, channels>>
replyVars == <<replies, replyQueue, routing, buf>>
serverVars == <<job, produced>>
queryVars == <<inputVars, callVars, query, replyVars, serverVars, queryFaults, lost>>

Answers == {"value", "error"}
Errors == {"notSent", "ErrQueryTimeout"}
Idle == [call |-> None, pc |-> "idle", answer |-> "none", leased |-> FALSE]
Jobs == [call : Calls \cup {None}, pc : {"idle", "handler", "reply", "ack"},
         answer : Answers \cup {"none"}, leased : BOOLEAN]
Payloads == [call : Calls, answer : Answers]
Routings == [call : Calls, answer : Answers, found : BOOLEAN]

\* Every variable keeps its type.
QueryTypeOK ==
  /\ served \in Registries /\ ReplyTimeout \in BOOLEAN
  /\ cpc \in [Calls -> {"idle", "send", "await", "done"}]
  /\ ret \in [Calls -> Answers \cup Errors \cup {"none"}]
  /\ buf \in [Calls -> Answers \cup {"none"}]
  /\ channels \subseteq Calls
  /\ query \in [Calls -> {"none", "queued", "unacked", "dlq", "settled", "unroutable"}]
  /\ replies \in Seq(Payloads) /\ replyQueue \in BOOLEAN
  /\ routing \in Routings \cup {None}
  /\ job \in [Servers -> Jobs]
  /\ queryFaults \in 0..MaxQueryFaults
  /\ produced \subseteq Calls \X Answers /\ lost \subseteq Calls

\* Start has declared the reply queue and opened its consumer.
QueryInit ==
  /\ served \in Registries /\ ReplyTimeout \in BOOLEAN
  /\ cpc = [c \in Calls |-> "idle"] /\ ret = [c \in Calls |-> "none"]
  /\ buf = [c \in Calls |-> "none"] /\ channels = {}
  /\ query = [c \in Calls |-> "none"]
  /\ replies = <<>> /\ replyQueue = TRUE /\ routing = None
  /\ job = [s \in Servers |-> Idle]
  /\ queryFaults = 0 /\ produced = {} /\ lost = {}

Fault == queryFaults < MaxQueryFaults /\ queryFaults' = queryFaults + 1
-----------------------------------------------------------------------------
(* The caller: RequestReply.                                               *)
callFrame == <<inputVars, replyQueue, replies, routing, serverVars, queryFaults>>

\* Mutant: the entry is removed only when the query was answered.
ReturnWithDeregisterAnswered(c, r) ==
  /\ cpc' = [cpc EXCEPT ![c] = "done"] /\ ret' = [ret EXCEPT ![c] = r]
  /\ channels' = IF r \in Answers THEN channels \ {c} ELSE channels
  /\ buf' = [buf EXCEPT ![c] = "none"]

\* Every return runs the deferred Deregister; the channel is garbage then.
ReturnWith(c, r) ==
  /\ cpc' = [cpc EXCEPT ![c] = "done"] /\ ret' = [ret EXCEPT ![c] = r]
  /\ channels' = channels \ {c} /\ buf' = [buf EXCEPT ![c] = "none"]

\* A fresh correlation id is registered with a channel of capacity one; then
\* the query is marshalled.
Request(c) ==
  /\ cpc[c] = "idle"
  /\ cpc' = [cpc EXCEPT ![c] = "send"] /\ channels' = channels \cup {c}
  /\ UNCHANGED <<callFrame, ret, query, buf, lost>>

\* The query cannot be marshalled, its send fails or replyCtx ends first.  The
\* broker may have it all the same.
SendFails(c) ==
  /\ cpc[c] = "send" /\ ReturnWith(c, "notSent")
  /\ UNCHANGED <<callFrame, query, lost>>

\* The query reaches the broker, which drops it when no queue is bound for it.
QueryRouted(c) ==
  /\ cpc[c] = "send" /\ query[c] = "none"
  /\ \/ query' = [query EXCEPT ![c] = "queued"] /\ UNCHANGED lost
     \/ query' = [query EXCEPT ![c] = "unroutable"] /\ lost' = lost \cup {c}
  /\ UNCHANGED <<callFrame, callVars, buf>>

\* The broker confirms either; the answer can be there before the confirm.
SendConfirmed(c) ==
  /\ cpc[c] = "send" /\ query[c] # "none" /\ cpc' = [cpc EXCEPT ![c] = "await"]
  /\ UNCHANGED <<callFrame, ret, channels, query, buf, lost>>

\* AwaitReply: a reply is in the channel,
AwaitReply(c) ==
  /\ cpc[c] = "await" /\ buf[c] # "none" /\ ReturnWith(c, buf[c])
  /\ UNCHANGED <<callFrame, query, lost>>

\* or replyCtx is done: the caller may cancel its context at any time,
AwaitCancelled(c) ==
  /\ cpc[c] = "await" /\ ReturnWith(c, "ErrQueryTimeout")
  /\ UNCHANGED <<callFrame, query, lost>>

\* and a deadline passes.  ReplyTimeout bounds a call without one of its own.
hasDeadline(c) == c \in CallerDeadline \/ ReplyTimeout

AwaitTimesOut(c) == hasDeadline(c) /\ AwaitCancelled(c)
-----------------------------------------------------------------------------
(* The reply queue, the reply listener and Route.                          *)
routeFrame == <<inputVars, callVars, query, serverVars>>

\* declareReplies and the new consumer of a supervisor or a reconnect hook.
declareReplies ==
  /\ ~replyQueue /\ replyQueue' = TRUE
  /\ UNCHANGED <<routeFrame, replies, routing, buf, queryFaults, lost>>

\* The queue is exclusive and deletes itself with its last consumer, so a lost
\* connection, or just a lost consumer, takes the replies in it along.
RepliesLost ==
  /\ replyQueue /\ Fault
  /\ replyQueue' = FALSE /\ replies' = <<>>
  /\ lost' = lost \cup {replies[i].call : i \in DOMAIN replies}
  /\ UNCHANGED <<routeFrame, routing, buf>>

\* Mutant: the correlation id is not looked at.
RouteLoadAny ==
  /\ replyQueue /\ replies # <<>> /\ routing = None
  /\ \E c \in Calls :
       routing' = [call |-> c, answer |-> Head(replies).answer, found |-> c \in channels]
  /\ replies' = Tail(replies)
  /\ UNCHANGED <<routeFrame, replyQueue, buf, queryFaults, lost>>

\* The listener takes a delivery (auto-ack), and Route loads the channel.
RouteLoad ==
  /\ replyQueue /\ replies # <<>> /\ routing = None
  /\ LET p == Head(replies) IN
       routing' = [call |-> p.call, answer |-> p.answer, found |-> p.call \in channels]
  /\ replies' = Tail(replies)
  /\ UNCHANGED <<routeFrame, replyQueue, buf, queryFaults, lost>>

\* Mutant: a channel without a buffer takes the reply only while it is read.
RouteSendUnbuffered ==
  /\ routing # None /\ routing' = None
  /\ buf' = IF routing.found /\ cpc[routing.call] = "await" /\ buf[routing.call] = "none"
            THEN [buf EXCEPT ![routing.call] = routing.answer] ELSE buf
  /\ UNCHANGED <<routeFrame, replies, replyQueue, queryFaults, lost>>

\* The send never blocks: a full channel discards the reply, and nobody reads
\* what a call that has returned meanwhile is sent.
RouteSend ==
  /\ routing # None /\ routing' = None
  /\ buf' = IF routing.found /\ routing.call \in channels /\ buf[routing.call] = "none"
            THEN [buf EXCEPT ![routing.call] = routing.answer] ELSE buf
  /\ UNCHANGED <<routeFrame, replies, replyQueue, queryFaults, lost>>
-----------------------------------------------------------------------------
(* The server: queryListener.dispatch.                                     *)
serverFrame == <<inputVars, callVars, routing, buf, replyQueue>>

\* The outcome of a delivery reaches the broker unless the channel it came
\* from has died.
Outcome(s, q) ==
  query' = IF job[s].leased THEN [query EXCEPT ![job[s].call] = q] ELSE query

\* Idle servers are interchangeable: one of them stands for all.
IdleServer == CHOOSE s \in Servers : \A t \in Servers : job[t] = Idle => job[s] = Idle

\* A delivery; a resource without handler is acked.
Deliver(s, c) ==
  /\ s = IdleServer /\ job[s] = Idle /\ query[c] = "queued"
  /\ query' = [query EXCEPT ![c] = "unacked"]
  /\ job' = [job EXCEPT ![s] = [call |-> c, answer |-> "none", leased |-> TRUE,
               pc |-> IF c \in served THEN "handler" ELSE "ack"]]
  /\ UNCHANGED <<serverFrame, replies, produced, queryFaults, lost>>

\* The handler returns a result, which may be nil, or an error.
HandlerReturns(s, a) ==
  /\ job[s].pc = "handler"
  /\ produced' = produced \cup {<<job[s].call, a>>}
  /\ job' = [job EXCEPT ![s].pc = "reply", ![s].answer = a]
  /\ UNCHANGED <<serverFrame, query, replies, queryFaults, lost>>

\* dispatchEnvelope recovers a panic and nacks: to the dead-letter queue, or
\* back to the queue at once.
HandlerPanics(s) ==
  /\ job[s].pc = "handler" /\ Fault
  /\ Outcome(s, IF WithDLQRetry THEN "dlq" ELSE "queued")
  /\ job' = [job EXCEPT ![s] = Idle]
  /\ UNCHANGED <<serverFrame, replies, produced, lost>>

\* Reply or replyError publishes to the reply queue, if it exists.
Reply(s) ==
  /\ job[s].pc = "reply"
  /\ LET p == [call |-> job[s].call, answer |-> job[s].answer] IN
       IF replyQueue
       THEN replies' = Append(replies, p) /\ UNCHANGED lost
       ELSE lost' = lost \cup {p.call} /\ UNCHANGED replies
  /\ job' = [job EXCEPT ![s].pc = "ack"]
  /\ UNCHANGED <<serverFrame, query, produced, queryFaults>>

\* The answer cannot be marshalled, its send fails or runs into replyContext:
\* that is logged, and the query is acked all the same.
ReplyFails(s) ==
  /\ job[s].pc = "reply" /\ Fault
  /\ lost' = lost \cup {job[s].call}
  /\ job' = [job EXCEPT ![s].pc = "ack"]
  /\ UNCHANGED <<serverFrame, query, replies, produced>>

Ack(s) ==
  /\ job[s].pc = "ack" /\ Outcome(s, "settled")
  /\ job' = [job EXCEPT ![s] = Idle]
  /\ UNCHANGED <<serverFrame, replies, produced, queryFaults, lost>>

\* The channel of a server dies: the broker redelivers, the dispatch goes on.
ServerLost(s) ==
  /\ job[s].leased /\ Fault
  /\ query' = [query EXCEPT ![job[s].call] = "queued"]
  /\ job' = [job EXCEPT ![s].leased = FALSE]
  /\ UNCHANGED <<serverFrame, replies, produced, lost>>

\* The message TTL of the dead-letter queue sends the query back.
DLQExpires(c) ==
  /\ query[c] = "dlq" /\ query' = [query EXCEPT ![c] = "queued"]
  /\ UNCHANGED <<serverFrame, replies, serverVars, queryFaults, lost>>
-----------------------------------------------------------------------------
CallStep(c) ==
  \/ QueryRouted(c) \/ SendConfirmed(c) \/ AwaitReply(c) \/ AwaitTimesOut(c)

ReplyStep == declareReplies \/ RouteLoad \/ RouteSend

BrokerStep(c) == DLQExpires(c) \/ \E s \in Servers : Deliver(s, c)

ServerStep(s) ==
  \/ \E a \in Answers : HandlerReturns(s, a)
  \/ Reply(s) \/ Ack(s)

QueryNext ==
  \/ \E c \in Calls : Request(c) \/ CallStep(c) \/ SendFails(c) \/ AwaitCancelled(c)
  \/ \E c \in Calls : BrokerStep(c)
  \/ ReplyStep \/ RepliesLost
  \/ \E s \in Servers :
       ServerStep(s) \/ HandlerPanics(s) \/ ReplyFails(s) \/ ServerLost(s)

QuerySpec == QueryInit /\ [][QueryNext]_queryVars

\* Goroutines run, handlers return, timers fire, the broker delivers.
FairQuerySpec ==
  /\ QuerySpec
  /\ \A c \in Calls : WF_queryVars(CallStep(c)) /\ WF_queryVars(BrokerStep(c))
  /\ WF_queryVars(ReplyStep)
  /\ \A s \in Servers : WF_queryVars(ServerStep(s))
-----------------------------------------------------------------------------
(* Properties.                                                             *)

\* Whatever is redelivered, duplicated or late, a call that returns an answer
\* returns one a handler gave to its own query.
AnswerIsOwn ==
  \A c \in Calls : ret[c] \in Answers => <<c, ret[c]>> \in produced

\* No entry of the reply router outlives its call, on any way out of
\* RequestReply, and every call that can still be answered has one.
EntriesMatchCalls ==
  channels = {c \in Calls : cpc[c] \in {"send", "await"}}

\* A call is in RequestReply for ever only if it has no deadline, its own or
\* ReplyTimeout; and it awaits its reply for ever only if, besides, nobody serves
\* its query or one of its messages was lost: an answer that overtakes the
\* confirm of its query, a duplicate or a redelivery leaves nobody waiting.
NoSilentHang ==
  \A c \in Calls : <>[]( /\ cpc[c] \in {"send", "await"} => ~hasDeadline(c)
                        /\ cpc[c] = "await" => c \notin served \/ c \in lost )
=============================================================================
