------------------------- MODULE ApplicationProofs --------------------------
(***************************************************************************)
(* Two parts of a running application, for any number of calls, servers,   *)
(* starts, lost connections and faults: a query over RabbitMQ gets its own *)
(* answer and leaves nothing behind in the reply router, and a supervised  *)
(* consumer is safe.  Their modules share no name; neither theorem uses    *)
(* the other part.                                                         *)
(***************************************************************************)
EXTENDS RequestReply, ConsumerInv, TLAPS
-----------------------------------------------------------------------------
(* Queries: what is in the hands of the servers and on its way back.       *)

\* A server that is not idle has a delivery, and only then holds a lease.
JobInv ==
  /\ job \in [Servers -> Jobs]
  /\ \A s \in Servers : /\ job[s].pc # "idle" => job[s].call \in Calls
                        /\ job[s].leased => job[s].call \in Calls

\* What is on its way back was produced for the call it is addressed to: at the
\* server, in the reply queue, in Route, in the channel of the call, and returned.
Produced(c, a) == <<c, a>> \in produced

OwnAnswers ==
  /\ \A s \in Servers : job[s].pc = "reply" => Produced(job[s].call, job[s].answer)
  /\ \A i \in DOMAIN replies : Produced(replies[i].call, replies[i].answer)
  /\ routing # None => Produced(routing.call, routing.answer)
  /\ \A c \in Calls : buf[c] # "none" => Produced(c, buf[c])
  /\ AnswerIsOwn

QueryInv == QueryTypeOK /\ JobInv /\ OwnAnswers /\ EntriesMatchCalls

\* A step of a caller, of the reply listener, or of the query queue.
CallerStep(c) ==
  \/ Request(c) \/ SendFails(c) \/ QueryRouted(c) \/ SendConfirmed(c)
  \/ AwaitReply(c) \/ AwaitCancelled(c)
JobStep(s) ==
  \/ \E c \in Calls : Deliver(s, c)
  \/ \E a \in Answers : HandlerReturns(s, a)
  \/ HandlerPanics(s) \/ Reply(s) \/ ReplyFails(s) \/ Ack(s) \/ ServerLost(s)

\* Every step is one of these.  A deadline that passes does what a cancelled
\* context does, so AwaitTimesOut is no case of its own.
LEMMA QueryStepKinds ==
  ASSUME QueryNext
  PROVE  \/ \E c \in Calls : CallerStep(c) \/ DLQExpires(c)
         \/ ReplyStep \/ RepliesLost
         \/ \E s \in Servers : JobStep(s)
BY Zenon DEF QueryNext, CallStep, BrokerStep, ServerStep, AwaitTimesOut, CallerStep, JobStep

\* Nothing has been asked yet.
LEMMA QueryInitInv == ASSUME QueryInit PROVE QueryInv
<1>1. Idle \in Jobs
  BY DEF Idle, Jobs
<1>2. JobInv
  BY <1>1, RequestReplyAssumption, SMTT(20) DEF QueryInit, JobInv, Idle
<1>3. OwnAnswers
  BY DEF QueryInit, OwnAnswers, AnswerIsOwn, Answers, Idle
<1>4. EntriesMatchCalls
  BY DEF QueryInit, EntriesMatchCalls
<1>5. queryFaults \in 0..MaxQueryFaults /\ replies \in Seq(Payloads)
  BY RequestReplyAssumption DEF QueryInit
<1>6. QueryTypeOK
  BY <1>2, <1>5, Zenon DEF QueryInit, QueryTypeOK, JobInv
<1> QED
  BY <1>2, <1>3, <1>4, <1>6, SMTT(20) DEF QueryInv
-----------------------------------------------------------------------------
(* The servers.                                                            *)

\* A step of a server replaces its job, and the history of answers grows.
LEMMA JobMoves ==
  ASSUME JobInv, OwnAnswers, NEW s \in Servers, JobStep(s)
  PROVE  /\ \E j \in Jobs :
              /\ job' = [job EXCEPT ![s] = j]
              /\ j.pc # "idle" => j.call \in Calls
              /\ j.leased => j.call \in Calls
              /\ j.pc = "reply" => <<j.call, j.answer>> \in produced'
         /\ produced \subseteq produced' /\ produced' \subseteq produced \cup (Calls \X Answers)
<1>0. /\ job[s] \in Jobs
      /\ job[s].pc # "idle" => job[s].call \in Calls
      /\ job[s].leased => job[s].call \in Calls
      /\ job[s].pc = "reply" => Produced(job[s].call, job[s].answer)
  BY DEF JobInv, OwnAnswers
<1>6. produced \subseteq produced' /\ produced' \subseteq produced \cup (Calls \X Answers)
  <2>1. \/ produced' = produced
        \/ \E a \in Answers : /\ produced' = produced \cup {<<job[s].call, a>>}
                              /\ job[s].call \in Calls
    BY <1>0, Zenon
       DEF JobStep, Deliver, HandlerReturns, HandlerPanics, Reply, ReplyFails, Ack, ServerLost
  <2> QED
    BY <2>1
<1>1. ASSUME NEW c \in Calls, Deliver(s, c)
      PROVE  \E j \in Jobs : /\ job' = [job EXCEPT ![s] = j]
                             /\ j.call \in Calls /\ j.pc \in {"handler", "ack"}
  <2> DEFINE j == [call |-> c, answer |-> "none", leased |-> TRUE,
                   pc |-> IF c \in served THEN "handler" ELSE "ack"]
  <2>1. j \in Jobs /\ j.call \in Calls /\ j.pc \in {"handler", "ack"}
    BY DEF Jobs
  <2> QED
    BY <1>1, <2>1, Zenon DEF Deliver
<1>2. ASSUME NEW a \in Answers, HandlerReturns(s, a)
      PROVE  \E j \in Jobs : /\ job' = [job EXCEPT ![s] = j]
                             /\ j.call \in Calls /\ <<j.call, j.answer>> \in produced'
  <2> DEFINE j == [job[s] EXCEPT !.pc = "reply", !.answer = a]
  <2>1. j \in Jobs /\ j.call = job[s].call /\ j.answer = a
    BY <1>0, Zenon DEF Jobs
  <2>2. job' = [job EXCEPT ![s] = j]
    BY <1>0, <1>2, Zenon DEF HandlerReturns, Jobs
  <2> HIDE DEF j
  <2>3. job[s].call \in Calls /\ <<job[s].call, a>> \in produced'
    BY <1>0, <1>2, Zenon DEF HandlerReturns
  <2>4. j.call \in Calls /\ <<j.call, j.answer>> \in produced'
    BY <2>1, <2>3, Zenon DEF Produced
  <2> QED
    BY <2>1, <2>2, <2>4, Zenon
<1>3. CASE Reply(s) \/ ReplyFails(s)
  <2> DEFINE j == [job[s] EXCEPT !.pc = "ack"]
  <2>1. j \in Jobs /\ j.call = job[s].call /\ j.pc = "ack"
    BY <1>0, Zenon DEF Jobs
  <2>2. job' = [job EXCEPT ![s] = j]
    BY <1>0, <1>3, Zenon DEF Reply, ReplyFails, Jobs
  <2> HIDE DEF j
  <2>3. j.call \in Calls /\ j.pc # "reply"
    BY <1>0, <1>3, <2>1, Zenon DEF Reply, ReplyFails
  <2> QED
    BY <1>6, <2>1, <2>2, <2>3, Zenon
<1>4. CASE HandlerPanics(s) \/ Ack(s)
  <2>1. Idle \in Jobs /\ Idle.pc = "idle" /\ ~Idle.leased
    BY DEF Idle, Jobs
  <2> QED
    BY <1>4, <1>6, <2>1, Zenon DEF HandlerPanics, Ack
<1>5. CASE ServerLost(s)
  <2> DEFINE j == [job[s] EXCEPT !.leased = FALSE]
  <2>1. /\ j \in Jobs /\ j.call = job[s].call /\ j.pc = job[s].pc /\ j.answer = job[s].answer
        /\ ~j.leased
    BY <1>0, Zenon DEF Jobs
  <2>2. job' = [job EXCEPT ![s] = j] /\ produced' = produced
    BY <1>0, <1>5, Zenon DEF ServerLost, Jobs
  <2> HIDE DEF j
  <2>3. /\ j.pc = "reply" => <<j.call, j.answer>> \in produced'
        /\ j.pc # "idle" => j.call \in Calls
    BY <1>0, <2>1, <2>2, Zenon DEF Produced
  <2> QED
    BY <1>6, <2>1, <2>2, <2>3, Zenon
<1> QED
  BY <1>1, <1>2, <1>3, <1>4, <1>5, <1>6, ZenonT(30) DEF JobStep

\* Only servers touch their jobs and produce answers.
LEMMA JobsFixed ==
  ASSUME QueryNext, ~\E s \in Servers : JobStep(s)
  PROVE  UNCHANGED <<job, produced>>
BY QueryStepKinds, Zenon
   DEF CallerStep, ReplyStep, Request, SendFails, QueryRouted, SendConfirmed, AwaitReply,
       AwaitCancelled, DLQExpires, declareReplies, RouteLoad, RouteSend, RepliesLost, callFrame,
       routeFrame, serverVars

\* Every step keeps the jobs, and no produced answer is forgotten.
LEMMA JobsStep ==
  ASSUME JobInv, OwnAnswers, [QueryNext]_queryVars
  PROVE  /\ JobInv'
         /\ produced \subseteq produced' /\ produced' \subseteq produced \cup (Calls \X Answers)
         /\ \A s \in Servers : job'[s].pc = "reply" => Produced(job[s].call, job[s].answer)'
<1>1. CASE UNCHANGED <<job, produced>>
  BY <1>1, Zenon DEF JobInv, OwnAnswers, Produced
<1>2. ASSUME NEW s \in Servers, JobStep(s)
      PROVE  /\ JobInv'
             /\ produced \subseteq produced' /\ produced' \subseteq produced \cup (Calls \X Answers)
             /\ \A t \in Servers : job'[t].pc = "reply" => Produced(job[t].call, job[t].answer)'
  <2>1. PICK j \in Jobs :
              /\ job' = [job EXCEPT ![s] = j]
              /\ j.pc # "idle" => j.call \in Calls
              /\ j.leased => j.call \in Calls
              /\ j.pc = "reply" => <<j.call, j.answer>> \in produced'
    BY <1>2, JobMoves, Zenon
  <2>2. produced \subseteq produced' /\ produced' \subseteq produced \cup (Calls \X Answers)
    BY <1>2, JobMoves, Zenon
  <2>3. job' \in [Servers -> Jobs] /\ \A t \in Servers : job'[t] = IF t = s THEN j ELSE job[t]
    BY <2>1 DEF JobInv
  <2>4. JobInv'
    BY <2>1, <2>3, Zenon DEF JobInv
  <2>5. \A t \in Servers : job'[t].pc = "reply" => <<job'[t].call, job'[t].answer>> \in produced'
    BY <2>1, <2>2, <2>3, Zenon DEF OwnAnswers, Produced
  <2> QED
    BY <2>2, <2>4, <2>5, Zenon DEF Produced
<1> QED
  BY <1>1, <1>2, JobsFixed, Zenon DEF queryVars, serverVars
-----------------------------------------------------------------------------
(* The way back of an answer.                                              *)

\* A published reply carries the answer of its job.
LEMMA RepliesStep ==
  ASSUME QueryTypeOK, JobInv, OwnAnswers, [QueryNext]_queryVars
  PROVE  /\ replies' \in Seq(Payloads)
         /\ \A i \in DOMAIN replies' : Produced(replies[i].call, replies[i].answer)'
<1>0. produced \subseteq produced' /\ replies \in Seq(Payloads)
  BY JobsStep, SMTT(20) DEF QueryTypeOK
<1>1. \/ UNCHANGED replies \/ replies' = <<>>
      \/ replies # <<>> /\ replies' = Tail(replies)
      \/ \E s \in Servers : /\ job[s].pc = "reply"
                            /\ replies' = Append(replies, [call |-> job[s].call,
                                                           answer |-> job[s].answer])
  BY QueryStepKinds, Zenon
     DEF CallerStep, ReplyStep, JobStep, queryVars, replyVars, callFrame, Request, SendFails,
         QueryRouted, SendConfirmed, AwaitReply, AwaitCancelled, DLQExpires, declareReplies,
         RouteLoad, RouteSend, RepliesLost, Deliver, HandlerReturns, HandlerPanics, Reply,
         ReplyFails, Ack, ServerLost
<1> DEFINE Good(p) == <<p.call, p.answer>> \in produced'
<1>2. \A i \in DOMAIN replies : Good(replies[i])
  BY <1>0, Zenon DEF OwnAnswers, Produced
<1>3. ASSUME NEW s \in Servers, job[s].pc = "reply"
      PROVE  LET p == [call |-> job[s].call, answer |-> job[s].answer] IN p \in Payloads /\ Good(p)
  <2>1. <<job[s].call, job[s].answer>> \in produced /\ produced \subseteq Calls \X Answers
    BY <1>3, Zenon DEF OwnAnswers, Produced, QueryTypeOK
  <2>2. job[s].call \in Calls /\ job[s].answer \in Answers
    BY <2>1, Zenon
  <2> QED
    BY <1>0, <2>1, <2>2, SMTT(20) DEF Payloads
<1> HIDE DEF Good
<1>4. \A p \in Payloads : Good(p) =>
        /\ Append(replies, p) \in Seq(Payloads)
        /\ \A i \in DOMAIN Append(replies, p) : Good(Append(replies, p)[i])
  BY <1>0, <1>2, SMTT(20)
<1>5. replies # <<>> =>
        /\ Tail(replies) \in Seq(Payloads)
        /\ \A i \in DOMAIN Tail(replies) : Good(Tail(replies)[i])
  BY <1>0, <1>2, SMTT(20)
<1>6. replies' \in Seq(Payloads) /\ \A i \in DOMAIN replies' : Good(replies'[i])
  <2>1. <<>> \in Seq(Payloads) /\ DOMAIN <<>> = {}
    OBVIOUS
  <2> QED
    BY <1>0, <1>1, <1>2, <1>3, <1>4, <1>5, <2>1, ZenonT(30)
<1> QED
  BY <1>6, Zenon DEF Good, Produced

\* Route carries what it took from the reply queue.
LEMMA RoutingStep ==
  ASSUME QueryTypeOK, JobInv, OwnAnswers, [QueryNext]_queryVars
  PROVE  /\ routing' \in Routings \cup {None}
         /\ routing' # None => Produced(routing.call, routing.answer)'
<1>0. produced \subseteq produced' /\ replies \in Seq(Payloads) /\ routing \in Routings \cup {None}
  BY JobsStep DEF QueryTypeOK
<1>1. \/ UNCHANGED routing \/ routing' = None
      \/ /\ replies # <<>>
         /\ routing' = [call |-> Head(replies).call, answer |-> Head(replies).answer,
                        found |-> Head(replies).call \in channels]
  BY QueryStepKinds, Zenon
     DEF CallerStep, ReplyStep, JobStep, queryVars, replyVars, callFrame, serverFrame, Request,
         SendFails, QueryRouted, SendConfirmed, AwaitReply, AwaitCancelled, DLQExpires,
         declareReplies, RouteLoad, RouteSend, RepliesLost, Deliver, HandlerReturns, HandlerPanics,
         Reply, ReplyFails, Ack, ServerLost
<1>2. CASE UNCHANGED routing \/ routing' = None
  BY <1>0, <1>2, Zenon DEF OwnAnswers, Produced
<1>3. CASE /\ replies # <<>>
           /\ routing' = [call |-> Head(replies).call, answer |-> Head(replies).answer,
                          found |-> Head(replies).call \in channels]
  <2>1. Head(replies) \in Payloads /\ Head(replies) = replies[1] /\ 1 \in DOMAIN replies
    BY <1>0, <1>3, SMTT(20)
  <2>2. <<Head(replies).call, Head(replies).answer>> \in produced'
    BY <1>0, <2>1, Zenon DEF OwnAnswers, Produced
  <2>3. Head(replies).call \in Calls /\ Head(replies).answer \in Answers
    BY <2>1 DEF Payloads
  <2>4. routing'.call = Head(replies).call /\ routing'.answer = Head(replies).answer
    BY <1>3
  <2>5. routing' \in Routings
    <3>1. (Head(replies).call \in channels) \in BOOLEAN
      OBVIOUS
    <3> QED
      BY <1>3, <2>3, <3>1, SMTT(20) DEF Routings
  <2> QED
    BY <2>2, <2>4, <2>5, Zenon DEF Produced
<1> QED
  BY <1>1, <1>2, <1>3, SMTT(20)

\* A channel is filled by Route with an answer to its own call.
LEMMA BufStep ==
  ASSUME QueryTypeOK, JobInv, OwnAnswers, [QueryNext]_queryVars
  PROVE  /\ buf' \in [Calls -> Answers \cup {"none"}]
         /\ \A c \in Calls : buf'[c] # "none" => Produced(c, buf[c])'
<1>0. /\ produced \subseteq produced' /\ buf \in [Calls -> Answers \cup {"none"}]
      /\ routing \in Routings \cup {None}
  BY JobsStep DEF QueryTypeOK
<1>1. \/ UNCHANGED buf
      \/ \E c \in Calls : buf' = [buf EXCEPT ![c] = "none"]
      \/ routing # None /\ buf' = [buf EXCEPT ![routing.call] = routing.answer]
  BY QueryStepKinds, Zenon
     DEF CallerStep, ReplyStep, JobStep, queryVars, replyVars, ReturnWith, serverFrame, Request,
         SendFails, QueryRouted, SendConfirmed, AwaitReply, AwaitCancelled, DLQExpires,
         declareReplies, RouteLoad, RouteSend, RepliesLost, Deliver, HandlerReturns, HandlerPanics,
         Reply, ReplyFails, Ack, ServerLost
<1>2. CASE UNCHANGED buf
  BY <1>0, <1>2, Zenon DEF OwnAnswers, Produced
<1>3. ASSUME NEW c \in Calls, buf' = [buf EXCEPT ![c] = "none"]
      PROVE  /\ buf' \in [Calls -> Answers \cup {"none"}]
             /\ \A d \in Calls : buf'[d] # "none" => <<d, buf'[d]>> \in produced'
  BY <1>0, <1>3, SMTT(20) DEF OwnAnswers, Produced
<1>4. CASE routing # None /\ buf' = [buf EXCEPT ![routing.call] = routing.answer]
  <2>1. /\ routing.call \in Calls /\ routing.answer \in Answers
        /\ <<routing.call, routing.answer>> \in produced'
    BY <1>0, <1>4, SMTT(20) DEF Routings, OwnAnswers, Produced
  <2> QED
    BY <1>0, <1>4, <2>1, SMTT(20) DEF OwnAnswers, Produced
<1> QED
  BY <1>1, <1>2, <1>3, <1>4, ZenonT(30) DEF Produced

\* A call returns what is in its channel, or an error.
LEMMA RetStep ==
  ASSUME QueryTypeOK, JobInv, OwnAnswers, [QueryNext]_queryVars
  PROVE  ret' \in [Calls -> Answers \cup Errors \cup {"none"}] /\ AnswerIsOwn'
<1>0. /\ produced \subseteq produced' /\ buf \in [Calls -> Answers \cup {"none"}]
      /\ ret \in [Calls -> Answers \cup Errors \cup {"none"}]
  BY JobsStep, SMTT(20) DEF QueryTypeOK
<1>1. \/ UNCHANGED ret
      \/ \E c \in Calls : \E r \in Errors : ret' = [ret EXCEPT ![c] = r]
      \/ \E c \in Calls : buf[c] # "none" /\ ret' = [ret EXCEPT ![c] = buf[c]]
  BY QueryStepKinds, Zenon
     DEF CallerStep, ReplyStep, JobStep, queryVars, callVars, ReturnWith, serverFrame, routeFrame,
         Request, SendFails, QueryRouted, SendConfirmed, AwaitReply, AwaitCancelled, DLQExpires,
         declareReplies, RouteLoad, RouteSend, RepliesLost, Deliver, HandlerReturns, HandlerPanics,
         Reply, ReplyFails, Ack, ServerLost, Errors
<1>2. CASE UNCHANGED ret
  BY <1>0, <1>2, Zenon DEF OwnAnswers, AnswerIsOwn
<1>3. ASSUME NEW c \in Calls, NEW r \in Errors, ret' = [ret EXCEPT ![c] = r]
      PROVE  ret' \in [Calls -> Answers \cup Errors \cup {"none"}] /\ AnswerIsOwn'
  BY <1>0, <1>3, SMTT(20) DEF OwnAnswers, AnswerIsOwn, Answers, Errors
<1>4. ASSUME NEW c \in Calls, buf[c] # "none", ret' = [ret EXCEPT ![c] = buf[c]]
      PROVE  ret' \in [Calls -> Answers \cup Errors \cup {"none"}] /\ AnswerIsOwn'
  BY <1>0, <1>4, SMTT(20) DEF OwnAnswers, AnswerIsOwn, Produced
<1> QED
  BY <1>1, <1>2, <1>3, <1>4, ZenonT(30)
-----------------------------------------------------------------------------
(* The entries of the reply router, and the rest of the state.             *)

\* Every way into and out of RequestReply moves the entry along.
LEMMA EntriesStep ==
  ASSUME QueryTypeOK, EntriesMatchCalls, [QueryNext]_queryVars
  PROVE  /\ cpc' \in [Calls -> {"idle", "send", "await", "done"}]
         /\ channels' \subseteq Calls /\ EntriesMatchCalls'
<1>0. /\ cpc \in [Calls -> {"idle", "send", "await", "done"}]
      /\ channels = {c \in Calls : cpc[c] \in {"send", "await"}}
  BY Zenon DEF QueryTypeOK, EntriesMatchCalls
<1>1. \/ UNCHANGED <<cpc, channels>>
      \/ \E c \in Calls : cpc' = [cpc EXCEPT ![c] = "send"] /\ channels' = channels \cup {c}
      \/ \E c \in Calls : /\ cpc[c] = "send" /\ cpc' = [cpc EXCEPT ![c] = "await"]
                          /\ channels' = channels
      \/ \E c \in Calls : cpc' = [cpc EXCEPT ![c] = "done"] /\ channels' = channels \ {c}
  BY QueryStepKinds, Zenon
     DEF CallerStep, ReplyStep, JobStep, queryVars, callVars, ReturnWith, serverFrame, routeFrame,
         Request, SendFails, QueryRouted, SendConfirmed, AwaitReply, AwaitCancelled, DLQExpires,
         declareReplies, RouteLoad, RouteSend, RepliesLost, Deliver, HandlerReturns, HandlerPanics,
         Reply, ReplyFails, Ack, ServerLost
<1>2. CASE UNCHANGED <<cpc, channels>>
  BY <1>0, <1>2, Zenon DEF EntriesMatchCalls
<1>3. ASSUME NEW c \in Calls, NEW q \in {"send", "await", "done"}, cpc' = [cpc EXCEPT ![c] = q]
      PROVE  /\ cpc' \in [Calls -> {"idle", "send", "await", "done"}]
             /\ \A d \in Calls : cpc'[d] = IF d = c THEN q ELSE cpc[d]
  BY <1>0, <1>3, SMTT(20)
<1>4. ASSUME NEW c \in Calls, cpc' = [cpc EXCEPT ![c] = "send"], channels' = channels \cup {c}
      PROVE  channels' \subseteq Calls /\ EntriesMatchCalls'
  BY <1>0, <1>3, <1>4, SMTT(20) DEF EntriesMatchCalls
<1>5. ASSUME NEW c \in Calls, cpc[c] = "send", cpc' = [cpc EXCEPT ![c] = "await"],
             channels' = channels
      PROVE  channels' \subseteq Calls /\ EntriesMatchCalls'
  BY <1>0, <1>3, <1>5, SMTT(20) DEF EntriesMatchCalls
<1>6. ASSUME NEW c \in Calls, cpc' = [cpc EXCEPT ![c] = "done"], channels' = channels \ {c}
      PROVE  channels' \subseteq Calls /\ EntriesMatchCalls'
  BY <1>0, <1>3, <1>6, SMTT(20) DEF EntriesMatchCalls
<1> QED
  BY <1>0, <1>1, <1>2, <1>3, <1>4, <1>5, <1>6, ZenonT(30)

\* The broker's view of the queries, the inputs and the histories keep their types.
LEMMA RestStep ==
  ASSUME QueryTypeOK, JobInv, OwnAnswers, [QueryNext]_queryVars
  PROVE  /\ served' \in Registries /\ ReplyTimeout' \in BOOLEAN /\ replyQueue' \in BOOLEAN
         /\ query' \in [Calls -> {"none", "queued", "unacked", "dlq", "settled", "unroutable"}]
         /\ queryFaults' \in 0..MaxQueryFaults
         /\ produced' \subseteq Calls \X Answers /\ lost' \subseteq Calls
<1> DEFINE Q == {"none", "queued", "unacked", "dlq", "settled", "unroutable"}
<1>1. served' \in Registries /\ ReplyTimeout' \in BOOLEAN /\ replyQueue' \in BOOLEAN
  BY QueryStepKinds, ZenonT(30)
     DEF QueryTypeOK, CallerStep, ReplyStep, JobStep, queryVars, inputVars, callFrame,
         serverFrame, routeFrame, Request, SendFails, QueryRouted, SendConfirmed, AwaitReply, AwaitCancelled,
         DLQExpires, declareReplies, RouteLoad, RouteSend, RepliesLost, Deliver, HandlerReturns,
         HandlerPanics, Reply, ReplyFails, Ack, ServerLost, replyVars
<1>2. query' \in [Calls -> Q]
  <2>1. \/ UNCHANGED query
        \/ \E c \in Calls : \E q \in Q : query' = [query EXCEPT ![c] = q]
    <3>1. ASSUME NEW s \in Servers, JobStep(s)
          PROVE  \/ UNCHANGED query
                 \/ \E c \in Calls : \E q \in Q : query' = [query EXCEPT ![c] = q]
      <4>1. /\ job[s].pc # "idle" => job[s].call \in Calls
            /\ job[s].leased => job[s].call \in Calls
        BY Zenon DEF JobInv
      <4> QED
        BY <3>1, <4>1, Zenon
           DEF JobStep, Deliver, HandlerReturns, HandlerPanics, Reply, ReplyFails, Ack, ServerLost,
               Outcome
    <3> QED
      BY <3>1, QueryStepKinds, Zenon
         DEF CallerStep, ReplyStep, queryVars, routeFrame, Request, SendFails, QueryRouted,
             SendConfirmed, AwaitReply, AwaitCancelled, DLQExpires, declareReplies, RouteLoad,
             RouteSend, RepliesLost
  <2>2. query \in [Calls -> Q]
    BY Zenon DEF QueryTypeOK
  <2> HIDE DEF Q
  <2> QED
    BY <2>1, <2>2, Zenon
<1>3. queryFaults' \in 0..MaxQueryFaults
  <2>1. UNCHANGED queryFaults \/ Fault
    BY QueryStepKinds, Zenon
       DEF CallerStep, ReplyStep, JobStep, queryVars, callFrame, Request, SendFails, QueryRouted,
           SendConfirmed, AwaitReply, AwaitCancelled, DLQExpires, declareReplies, RouteLoad,
           RouteSend, RepliesLost, Deliver, HandlerReturns, HandlerPanics, Reply, ReplyFails, Ack,
           ServerLost
  <2>2. queryFaults \in 0..MaxQueryFaults
    BY Zenon DEF QueryTypeOK
  <2> QED
    BY <2>1, <2>2, RequestReplyAssumption, SMTT(20) DEF Fault
<1>4. produced' \subseteq Calls \X Answers
  <2>1. produced \subseteq Calls \X Answers
    BY Zenon DEF QueryTypeOK
  <2>2. produced' \subseteq produced \cup (Calls \X Answers)
    BY JobsStep, Zenon
  <2> QED
    BY <2>1, <2>2, Zenon
<1>5. lost' \subseteq Calls
  <2>1. \A i \in DOMAIN replies : replies[i].call \in Calls
    <3>1. replies \in Seq(Payloads)
      BY Zenon DEF QueryTypeOK
    <3>2. \A i \in DOMAIN replies : replies[i] \in Payloads
      BY <3>1, SMTT(20)
    <3>3. \A p \in Payloads : p.call \in Calls
      BY Zenon DEF Payloads
    <3> QED
      BY <3>2, <3>3, Zenon
  <2>2. \A s \in Servers : job[s].pc = "reply" => job[s].call \in Calls
    BY Zenon DEF JobInv
  <2>3. lost \subseteq Calls
    BY Zenon DEF QueryTypeOK
  <2>4. \/ UNCHANGED lost
        \/ \E c \in Calls : lost' = lost \cup {c}
        \/ lost' = lost \cup {replies[i].call : i \in DOMAIN replies}
    BY <2>2, QueryStepKinds, Zenon
       DEF CallerStep, ReplyStep, JobStep, queryVars, Request, SendFails, QueryRouted,
           SendConfirmed, AwaitReply, AwaitCancelled, DLQExpires, declareReplies, RouteLoad,
           RouteSend, RepliesLost, Deliver, HandlerReturns, HandlerPanics, Reply, ReplyFails, Ack,
           ServerLost
  <2> QED
    BY <2>1, <2>3, <2>4, ZenonT(30)
<1> QED
  BY <1>1, <1>2, <1>3, <1>4, <1>5, ZenonT(30)
-----------------------------------------------------------------------------
\* Every step preserves the invariant.
LEMMA QueryInductive == ASSUME QueryInv, [QueryNext]_queryVars PROVE QueryInv'
<1>0. QueryTypeOK /\ JobInv /\ OwnAnswers /\ EntriesMatchCalls
  BY Zenon DEF QueryInv
<1>1. JobInv' /\ \A s \in Servers : job'[s].pc = "reply" => Produced(job[s].call, job[s].answer)'
  BY <1>0, JobsStep, Zenon
<1>2. /\ replies' \in Seq(Payloads)
      /\ \A i \in DOMAIN replies' : Produced(replies[i].call, replies[i].answer)'
  BY <1>0, RepliesStep, Zenon
<1>3. /\ routing' \in Routings \cup {None}
      /\ routing' # None => Produced(routing.call, routing.answer)'
  BY <1>0, RoutingStep, ZenonT(30)
<1>4. /\ buf' \in [Calls -> Answers \cup {"none"}]
      /\ \A c \in Calls : buf'[c] # "none" => Produced(c, buf[c])'
  BY <1>0, BufStep, Zenon
<1>5. ret' \in [Calls -> Answers \cup Errors \cup {"none"}] /\ AnswerIsOwn'
  BY <1>0, RetStep, Zenon
<1>6. OwnAnswers'
  BY <1>1, <1>2, <1>3, <1>4, <1>5, ZenonT(30) DEF OwnAnswers
<1>7. QueryTypeOK'
  BY <1>0, <1>1, <1>2, <1>3, <1>4, <1>5, EntriesStep, RestStep, ZenonT(30) DEF QueryTypeOK, JobInv
<1> QED
  BY <1>0, <1>1, <1>6, <1>7, EntriesStep, ZenonT(30) DEF QueryInv

\* The variables of RequestReply keep their types.
THEOREM QueryTypeCorrect == QuerySpec => []QueryTypeOK
<1>1. QueryInv => QueryTypeOK
  BY Zenon DEF QueryInv
<1> QED
  BY <1>1, QueryInitInv, QueryInductive, PTL DEF QuerySpec

\* Whatever the broker redelivers, duplicates or delivers late, a call that
\* returns an answer returns one that a handler gave to its own query.
THEOREM CallsGetTheirAnswer == QuerySpec => []AnswerIsOwn
<1>1. QueryInv => AnswerIsOwn
  BY Zenon DEF QueryInv, OwnAnswers
<1> QED
  BY <1>1, QueryInitInv, QueryInductive, PTL DEF QuerySpec

\* The reply router has an entry for exactly the calls that are under way.
THEOREM RouterHoldsOpenCalls == QuerySpec => []EntriesMatchCalls
<1>1. QueryInv => EntriesMatchCalls
  BY Zenon DEF QueryInv
<1> QED
  BY <1>1, QueryInitInv, QueryInductive, PTL DEF QuerySpec

-----------------------------------------------------------------------------
(* Consumers: types, and steps that move one generation at a time.         *)

GenSteps == {"none", "abandoned", "exited"} \cup Starting \cup Supervising

\* The parts of TypeOK: what a generation has, and what the application has.
GenTypes ==
  /\ runGen \in 0..MaxStarts /\ stop \subseteq Gens /\ done \subseteq Gens
  /\ state \in {"running", "rebuilding", "stopped"}
  /\ pc \in [Gens -> GenSteps] /\ chan \in [Gens -> {"none", "open", "dead"}]
  /\ timedOut \subseteq Gens /\ wg \subseteq Gens

AppTypes ==
  /\ connOpen \in BOOLEAN /\ drops \in 0..MaxDrops /\ faults \in 0..MaxFaults
  /\ rpc \in [Restores -> {"none", "hook", "skipped", "refused", "done"} \cup Restoring]
  /\ rgen \in [Restores -> Nat] /\ restoreGen \in Nat
  /\ rstart \in [Restores -> 0..MaxStarts]
  /\ hooked \in BOOLEAN /\ ctxDone \in BOOLEAN /\ shuttingDown \in BOOLEAN
  /\ mpc \in {"boot", "serving", "draining", "closing", "returned"}
  /\ dpc \in {"none", "restores", "supervisors", "done"}

\* The two parts make up TypeOK.
LEMMA TypeParts == TypeOK <=> GenTypes /\ AppTypes
BY Zenon DEF TypeOK, GenTypes, AppTypes, GenSteps

\* The next generation is one of the bounded set.
LEMMA NextGen == ASSUME GenTypes, runGen < MaxStarts PROVE runGen + 1 \in Gens /\ MaxStarts \in Nat
BY ConsumerAssumption DEF GenTypes, Gens

\* The steps of a supervisor.
Sup(g) ==
  SuperviseStep(g) \/ SupStops(g) \/ SupDies(g) \/ SupDispatch(g) \/ SupHandled(g)

\* Whatever start returns, a restore goes on with it.
LEMMA ReturnTypes ==
  ASSUME AppTypes, NEW g, NEW result \in {"failed", "others"}, Return(g, result)
  PROVE  rpc' \in [Restores -> {"none", "hook", "skipped", "refused", "done"} \cup Restoring]
BY Zenon DEF AppTypes, Return, Restoring

\* A failing call spends a fault or finds the connection down.
LEMMA CallFailsTypes ==
  ASSUME AppTypes, CallFails
  PROVE  connOpen' \in BOOLEAN /\ drops' \in 0..MaxDrops /\ faults' \in 0..MaxFaults
BY ConsumerAssumption DEF AppTypes, CallFails

\* A supervisor moves itself on, and nothing but itself.
LEMMA SupMoves ==
  ASSUME TypeOK, NEW g \in Gens, Sup(g)
  PROVE  /\ UNCHANGED <<runGen, stop, timedOut, restoreVars, appVars, connOpen, drops>>
         /\ pc[g] \in Supervising
         /\ \E s \in Supervising \cup {"exited"} :
              /\ pc' = [pc EXCEPT ![g] = s]
              /\ s = "exited" <=> pc[g] = "released"
              /\ s = "released" <=> pc[g] = "exit"
              /\ done' = IF s = "exited" THEN done \cup {g} ELSE done
              /\ wg' = IF s = "released" THEN wg \ {g} ELSE wg
         /\ \E s \in {"none", "open", "dead"} :
              /\ chan' = [chan EXCEPT ![g] = s]
              /\ s # "none" => (s = chan[g] /\ pc[g] # "exit") \/ pc[g] = "reopen"
         /\ faults' \in 0..MaxFaults
<1>0. GenTypes /\ AppTypes
  BY TypeParts, Zenon
<1>1. /\ chan' = chan => chan' = [chan EXCEPT ![g] = chan[g]]
      /\ chan[g] \in {"none", "open", "dead"}
  BY <1>0, Zenon DEF GenTypes
<1> USE <1>0, <1>1 DEF supFrame, connVars, Supervising
<1>2. CASE SupTop(g) \/ SupDispatch(g) \/ SupHandled(g)
  BY <1>2, Zenon DEF SupTop, SupDispatch, SupHandled, AppTypes
<1>3. CASE SupStops(g) \/ SupDies(g)
  BY <1>3, Zenon DEF SupStops, SupDies, AppTypes
<1>4. CASE SupDecides(g) \/ SupWakes(g) \/ SupRedeclares(g)
  BY <1>4, Zenon DEF SupDecides, SupWakes, SupRedeclares, AppTypes
<1>5. CASE SupHealFails(g)
  BY <1>5, CallFailsTypes DEF SupHealFails, CallFails
<1>6. CASE SupReopens(g) \/ SupRechecks(g)
  BY <1>6, Zenon DEF SupReopens, SupRechecks, AppTypes
<1>7. CASE SupReleases(g) \/ SupExits(g)
  BY <1>7, Zenon DEF SupReleases, SupExits, AppTypes
<1> QED
  BY <1>2, <1>3, <1>4, <1>5, <1>6, <1>7, Zenon DEF Sup, SuperviseStep

\* A supervisor keeps the types.
LEMMA SupTypes ==
  ASSUME TypeOK, NEW g \in Gens, Sup(g)
  PROVE  TypeOK'
<1>0. GenTypes /\ AppTypes
  BY TypeParts, Zenon
<1>1. state' \in {"running", "rebuilding", "stopped"}
  BY <1>0, Zenon DEF GenTypes, Sup, SuperviseStep, SupTop, SupDispatch, SupHandled, SupStops,
     SupDies,
     SupDecides, SupWakes, SupRedeclares, SupHealFails, SupReopens, SupRechecks, SupReleases,
     SupExits, setHealthForGen
<1>2. GenTypes'
  BY <1>0, <1>1, SupMoves DEF GenTypes, GenSteps
<1>3. AppTypes'
  BY <1>0, SupMoves DEF AppTypes, restoreVars, appVars
<1> QED
  BY <1>2, <1>3, Zenon DEF TypeOK, GenTypes, AppTypes, GenSteps

\* A call of start moves itself and the restore that waits for it.
LEMMA StartMoves ==
  ASSUME TypeOK, NEW g \in Gens, StartStep(g)
  PROVE  /\ UNCHANGED <<runGen, stop, done, rgen, rstart, restoreGen, appVars, connOpen, drops>>
         /\ pc[g] \in Starting
         /\ \E s \in {"open", "check", "top", "abandoned"} : pc' = [pc EXCEPT ![g] = s]
         /\ pc'[g] = "check" <=> pc[g] = "open" /\ pc'[g] # "abandoned"
         /\ pc'[g] = "open" <=> StartProceeds(g)
         /\ chan' = IF pc[g] = "open" /\ pc'[g] = "check" THEN [chan EXCEPT ![g] = "open"]
                    ELSE IF pc[g] = "check" /\ pc'[g] = "abandoned"
                    THEN [chan EXCEPT ![g] = "none"] ELSE chan
         /\ ~StartProceeds(g) => timedOut' = timedOut
         /\ wg' = IF pc'[g] = "top" THEN wg \cup {g} ELSE wg
         /\ \/ rpc' = rpc /\ pc'[g] \in Starting
            \/ pc'[g] \notin Starting /\ \E result \in {"failed", "others"} : Return(g, result)
         /\ state' \in {"running", "rebuilding", "stopped"} /\ faults' \in 0..MaxFaults
<1>0. GenTypes /\ AppTypes
  BY TypeParts, Zenon
<1> USE <1>0 DEF GenTypes, Starting, setHealthForGen, healthVars, restoreVars, connVars
<1>1. CASE StartProceeds(g)
  BY <1>1, Zenon DEF StartProceeds, AppTypes
<1>2. CASE StartFails(g)
  <2>1. connOpen' = connOpen /\ drops' = drops /\ faults' \in 0..MaxFaults
    BY <1>2, CallFailsTypes, Zenon DEF StartFails, CallFails, AppTypes
  <2>2. pc[g] \in {"wait", "open"} /\ pc'[g] = "abandoned"
    BY <1>2, Zenon DEF StartFails
  <2>3. ~StartProceeds(g)
    BY <2>2, Zenon DEF StartProceeds
  <2> QED
    BY <1>2, <2>1, <2>2, <2>3, Zenon DEF StartFails
<1>3. CASE StartOpens(g)
  BY <1>3, Zenon DEF StartOpens, StartProceeds, AppTypes
<1>4. CASE StartSuperseded(g)
  BY <1>4, Zenon DEF StartSuperseded, StartProceeds, AppTypes
<1>5. CASE StartLaunches(g)
  BY <1>5, Zenon DEF StartLaunches, StartProceeds, AppTypes
<1> QED
  BY <1>1, <1>2, <1>3, <1>4, <1>5, Zenon DEF StartStep

\* start keeps the types.
LEMMA StartTypes ==
  ASSUME TypeOK, NEW g \in Gens, StartStep(g)
  PROVE  TypeOK'
<1>0. GenTypes /\ AppTypes
  BY TypeParts, Zenon
<1>1. timedOut' \subseteq Gens
  BY <1>0, StartMoves DEF GenTypes, StartProceeds
<1>2. GenTypes'
  BY <1>0, <1>1, StartMoves DEF GenTypes, GenSteps, Starting, Supervising
<1>3. rpc' \in [Restores -> {"none", "hook", "skipped", "refused", "done"} \cup Restoring]
  BY <1>0, StartMoves, ReturnTypes, Zenon DEF AppTypes
<1>4. AppTypes'
  BY <1>0, <1>3, StartMoves DEF AppTypes, appVars
<1> QED
  BY <1>2, <1>4, Zenon DEF TypeOK, GenTypes, AppTypes, GenSteps

\* The steps of a restore, the new call of start apart.
RestoreOnly(r) ==
  \/ Hook(r) \/ RestoreTries(r) \/ RestoreDeclares(r) \/ RestoreFails(r) \/ RestoreSucceeds(r)
  \/ RestoreBacksOff(r) \/ RestoreWakes(r) \/ RestoreGivesUp(r)

\* Such a step moves only the restore itself.
LEMMA RestoreMoves ==
  ASSUME TypeOK, NEW r \in Restores, RestoreOnly(r)
  PROVE  /\ UNCHANGED <<healthVars, supVars, appVars, rstart, connOpen, drops>>
         /\ \E s \in {"try", "declare", "start", "failed", "backoff", "skipped", "refused", "done"} :
              /\ rpc' = [rpc EXCEPT ![r] = s]
              /\ s \in Restoring => rpc[r] \in Restoring \/ (rpc[r] = "hook" /\ ~shuttingDown)
         /\ rpc[r] \notin {"none", "starting"}
         /\ rgen' \in [Restores -> Nat] /\ restoreGen' \in Nat /\ faults' \in 0..MaxFaults
<1>0. AppTypes
  BY TypeParts, Zenon
<1> USE <1>0 DEF AppTypes, Restoring, restoreFrame, connVars
<1>1. CASE Hook(r)
  BY <1>1 DEF Hook
<1>2. CASE RestoreTries(r) \/ RestoreDeclares(r) \/ RestoreSucceeds(r) \/ RestoreBacksOff(r)
  BY <1>2, Zenon DEF RestoreTries, RestoreDeclares, RestoreSucceeds, RestoreBacksOff
<1>3. CASE RestoreWakes(r) \/ RestoreGivesUp(r)
  BY <1>3, Zenon DEF RestoreWakes, RestoreGivesUp
<1>4. CASE RestoreFails(r)
  BY <1>4, CallFailsTypes, Zenon DEF RestoreFails, CallFails
<1> QED
  BY <1>1, <1>2, <1>3, <1>4, Zenon DEF RestoreOnly

\* The rest of the steps: Start, its shutdown, and the connection.
Other == AppStep \/ CtxCancelled \/ ConnectionDrops \/ ConnectionRestored

\* They leave the generations alone, and of the restores begin at most one.
LEMMA OtherMoves ==
  ASSUME TypeOK, Other
  PROVE  /\ UNCHANGED <<runGen, stop, done, pc, timedOut, wg, rgen, rstart, restoreGen>>
         /\ rpc' = rpc \/ (ConnectionRestored /\ rpc' = [rpc EXCEPT ![drops] = "hook"])
         /\ chan' \in [Gens -> {"none", "open", "dead"}]
         /\ \A g \in Gens : chan'[g] # "none" => chan[g] # "none"
         /\ \A g \in Gens : chan[g] = "none" => chan'[g] = "none"
         /\ state' = state \/ (state' = "stopped" /\ mpc' = "closing")
         /\ mpc' \notin {"closing", "returned"} => mpc \notin {"closing", "returned"}
         /\ ctxDone => ctxDone'
         /\ AppTypes'
<1>0. GenTypes /\ AppTypes
  BY TypeParts, Zenon
<1> USE <1>0, ConsumerAssumption DEF AppTypes, GenTypes, appFrame, healthVars, supVars,
        restoreVars, connVars, appVars, KillChannels
<1>1. CASE StartErrs \/ StartReady
  BY <1>1, ZenonT(30) DEF StartErrs, StartReady
<1>2. CASE CtxCancelled \/ ShutdownBegins
  BY <1>2, ZenonT(30) DEF CtxCancelled, ShutdownBegins
<1>3. CASE RestoresDrained \/ SupervisorsDrained
  BY <1>3 DEF RestoresDrained, SupervisorsDrained
<1>4. CASE MarkConsumersStopped \/ StartReturns
  BY <1>4, ZenonT(30) DEF MarkConsumersStopped, StartReturns
<1>5. CASE ConnectionDrops
  <2>1. drops' \in 0..MaxDrops
    BY <1>5 DEF ConnectionDrops
  <2>2. AppTypes'
    BY <1>5, <2>1, Zenon DEF ConnectionDrops
  <2> QED
    BY <1>5, <2>2, Zenon DEF ConnectionDrops
<1>6. CASE ConnectionRestored
  BY <1>6, Zenon DEF ConnectionRestored
<1> QED
  BY <1>1, <1>2, <1>3, <1>4, <1>5, <1>6, Zenon DEF Other, AppStep
-----------------------------------------------------------------------------
(* The layers of the invariant, and the theorems.                          *)

\* Every step is one of five kinds.
LEMMA StepKinds ==
  ASSUME Next
  PROVE  \/ \E g \in Gens : StartStep(g) \/ Sup(g) \/ ChannelDies(g)
         \/ \E r \in Restores : start(r) \/ RestoreOnly(r)
         \/ Other
BY Zenon DEF Next, Sup, Other, RestoreStep, RestoreOnly

\* Types are kept by every step.
LEMMA TypeStep == TypeOK /\ [Next]_vars => TypeOK'
<1> SUFFICES ASSUME TypeOK, [Next]_vars PROVE TypeOK'
  BY Zenon
<1>0. GenTypes /\ AppTypes
  BY TypeParts, Zenon
<1> USE <1>0 DEF TypeOK, GenTypes, AppTypes, GenSteps
<1>1. ASSUME NEW g \in Gens, ChannelDies(g) PROVE TypeOK'
  BY <1>1, ConsumerAssumption DEF ChannelDies, healthVars, restoreVars, appVars
<1>2. ASSUME NEW r \in Restores, start(r) PROVE TypeOK'
  <2>1. runGen + 1 \in Gens /\ runGen + 1 \in 0..MaxStarts /\ runGen' = runGen + 1
    BY <1>2, ConsumerAssumption DEF start, Gens
  <2>2. GenTypes'
    BY <1>2, <2>1, Zenon DEF start, Starting
  <2>3. AppTypes'
    BY <1>2, <2>1, ZenonT(30) DEF start, connVars, appVars, Restoring
  <2> QED
    BY <2>2, <2>3, Zenon
<1>3. ASSUME NEW r \in Restores, RestoreOnly(r) PROVE TypeOK'
  BY <1>3, RestoreMoves DEF healthVars, supVars, appVars, Restoring
<1>4. CASE Other
  BY <1>4, OtherMoves, Zenon
<1>5. CASE UNCHANGED vars
  BY <1>5 DEF vars, connVars, healthVars, supVars, restoreVars, appVars
<1> QED
  BY <1>1, <1>2, <1>3, <1>4, <1>5, StepKinds, StartTypes, SupTypes, Zenon
-----------------------------------------------------------------------------
(* The generations.                                                        *)

\* The handover survives when nobody comes to life and nobody passes its wait.
LEMMA HandoverFrame ==
  ASSUME HandoverInv, timedOut \subseteq timedOut',
         \A g \in Gens : (Alive(g)' => Alive(g)) /\ (Passed(g)' => Passed(g))
  PROVE  HandoverInv'
BY Zenon DEF HandoverInv

\* A supervisor is alive and past its wait, and remains past it.
LEMMA GenSup ==
  ASSUME TypeOK, GenInv, NEW g \in Gens, Sup(g)
  PROVE  GenInv'
<1>0. GenTypes
  BY TypeParts, Zenon
<1>1. PICK s \in Supervising \cup {"exited"} :
        /\ pc' = [pc EXCEPT ![g] = s]
        /\ s = "exited" <=> pc[g] = "released"
        /\ s = "released" <=> pc[g] = "exit"
        /\ done' = IF s = "exited" THEN done \cup {g} ELSE done
  BY SupMoves, Zenon
<1>2. pc[g] \in Supervising /\ UNCHANGED <<runGen, stop, timedOut>>
  BY SupMoves, Zenon
<1>3. \A h \in Gens : (Alive(h)' => Alive(h)) /\ (Passed(h)' => Passed(h))
  BY <1>0, <1>1, <1>2, Zenon DEF GenTypes, Alive, Passed, Supervising
<1>4. HandoverInv'
  BY <1>2, <1>3, HandoverFrame, Zenon DEF GenInv
<1>5. ChannelInv'
  <2>1. PICK t \in {"none", "open", "dead"} :
          /\ chan' = [chan EXCEPT ![g] = t]
          /\ t # "none" => (t = chan[g] /\ pc[g] # "exit") \/ pc[g] = "reopen"
    BY SupMoves, Zenon
  <2>2. t # "none" => pc[g] \notin {"exit", "released"}
    BY <2>1, Zenon DEF GenInv, ChannelInv
  <2>3. t # "none" => s \in Supervising \ {"released"}
    BY <1>1, <2>2, Zenon
  <2> QED
    BY <1>0, <1>1, <2>1, <2>3, Zenon DEF GenInv, ChannelInv, GenTypes
<1>6. \A h \in Gens : h > runGen => pc'[h] = "none"
  BY <1>0, <1>1, <1>2, Zenon DEF GenInv, GenTypes, Supervising
<1>7. \A h \in done' : pc'[h] = "exited"
  BY <1>0, <1>1, <1>2, Zenon DEF GenInv, GenTypes, Supervising
<1> QED
  BY <1>2, <1>4, <1>5, <1>6, <1>7, Zenon DEF GenInv

\* The step that matters: generation g stops waiting.  Either g - 1 has exited,
\* and what is still alive below it was overtaken before, or g is recorded.
LEMMA Handover ==
  ASSUME TypeOK, GenInv, NEW g \in Gens, StartProceeds(g)
  PROVE  HandoverInv'
<1>0. GenTypes /\ g \in Nat
  BY TypeParts DEF Gens
<1>1. /\ pc' = [pc EXCEPT ![g] = "open"] /\ pc[g] = "wait"
      /\ timedOut' = IF g - 1 \in done THEN timedOut ELSE timedOut \cup {g}
  BY Zenon DEF StartProceeds
<1>2. \A h \in Gens : /\ Alive(h)' => Alive(h)
                      /\ h # g => (Passed(h)' => Passed(h))
  BY <1>0, <1>1, Zenon DEF GenTypes, Alive, Passed
<1>3. \A k \in timedOut : k \in timedOut'
  BY <1>1, Zenon
<1>4. ASSUME NEW a \in Gens, a < g, Alive(a) PROVE \E k \in timedOut' : a < k /\ k <= g
  <2>1. CASE g - 1 \notin done
    BY <1>0, <1>1, <1>4, <2>1 DEF Gens
  <2>2. CASE g - 1 \in done
    <3>1. g - 1 \in Gens /\ pc[g - 1] = "exited"
      BY <1>0, <2>2, Zenon DEF GenInv, GenTypes
    <3>2. a # g - 1 /\ Passed(g - 1)
      BY <1>4, <3>1, Zenon DEF Alive, Passed
    <3>3. a < g - 1
      BY <1>0, <1>4, <3>2 DEF Gens
    <3>4. PICK k \in timedOut : a < k /\ k <= g - 1
      BY <1>4, <3>1, <3>2, <3>3, Zenon DEF GenInv, HandoverInv
    <3> QED
      BY <1>0, <1>3, <3>4 DEF GenTypes, Gens
  <2> QED
    BY <2>1, <2>2, Zenon
<1> QED
  BY <1>2, <1>3, <1>4, ZenonT(30) DEF GenInv, HandoverInv

\* The other steps of start keep the generation past its wait or end it.
LEMMA GenStart ==
  ASSUME TypeOK, GenInv, NEW g \in Gens, StartStep(g)
  PROVE  GenInv'
<1>0. GenTypes
  BY TypeParts, Zenon
<1>1. PICK s \in {"open", "check", "top", "abandoned"} : pc' = [pc EXCEPT ![g] = s]
  BY StartMoves, Zenon
<1>2. /\ UNCHANGED <<runGen, stop, done>> /\ pc[g] \in Starting
      /\ s = "check" <=> pc[g] = "open" /\ s # "abandoned"
      /\ s = "open" <=> StartProceeds(g)
      /\ chan' = IF pc[g] = "open" /\ s = "check" THEN [chan EXCEPT ![g] = "open"]
                 ELSE IF pc[g] = "check" /\ s = "abandoned"
                 THEN [chan EXCEPT ![g] = "none"] ELSE chan
      /\ ~StartProceeds(g) => timedOut' = timedOut
  BY <1>0, <1>1, StartMoves, Zenon DEF GenTypes
<1>3. HandoverInv'
  <2>1. CASE StartProceeds(g)
    BY <2>1, Handover, Zenon
  <2>2. CASE ~StartProceeds(g)
    <3>1. pc[g] # "wait" \/ s = "abandoned"
      BY <1>0, <1>1, <2>2, Zenon DEF StartStep, StartFails, StartOpens, StartSuperseded,
         StartLaunches,
                             GenTypes
    <3>2. \A h \in Gens : (Alive(h)' => Alive(h)) /\ (Passed(h)' => Passed(h))
      BY <1>0, <1>1, <1>2, <3>1, Zenon DEF GenTypes, Alive, Passed, Starting, Supervising
    <3> QED
      BY <1>2, <2>2, <3>2, HandoverFrame, Zenon DEF GenInv
  <2> QED
    BY <2>1, <2>2, Zenon
<1>4. ChannelInv'
  <2>1. chan[g] # "none" => pc[g] = "check"
    BY <1>2, Zenon DEF GenInv, ChannelInv, Starting, Supervising
  <2>2. pc[g] = "check" => s \in {"top", "abandoned"}
    BY <1>2, Zenon DEF StartProceeds
  <2>3. chan'[g] # "none" => s \in {"check", "top"}
    BY <1>0, <1>2, <2>1, <2>2, Zenon DEF GenTypes
  <2>4. \A h \in Gens : h # g => chan'[h] = chan[h] /\ pc'[h] = pc[h]
    BY <1>0, <1>1, <1>2, Zenon DEF GenTypes
  <2>5. pc'[g] = s
    BY <1>0, <1>1, Zenon DEF GenTypes
  <2> QED
    BY <2>3, <2>4, <2>5, Zenon DEF GenInv, ChannelInv, Supervising
<1>5. /\ \A h \in Gens : h > runGen => pc'[h] = "none"
      /\ \A h \in done : pc'[h] = "exited"
  BY <1>0, <1>1, <1>2, Zenon DEF GenInv, GenTypes, Starting
<1> QED
  BY <1>2, <1>3, <1>4, <1>5, Zenon DEF GenInv

\* A new call of start is the newest generation, and has passed nothing.
LEMMA GenNew ==
  ASSUME TypeOK, GenInv, NEW r \in Restores, start(r)
  PROVE  GenInv'
<1>0. GenTypes /\ runGen \in Nat /\ runGen + 1 \in Gens /\ runGen' = runGen + 1
  BY TypeParts, NextGen DEF start, GenTypes
<1>1. /\ pc' = [pc EXCEPT ![runGen + 1] = IF runGen = 0 THEN "open" ELSE "wait"]
      /\ stop' = stop \cup ({runGen} \cap Gens) /\ UNCHANGED <<done, chan, timedOut>>
  BY Zenon DEF start
<1>2. \A g \in Gens : g \in Nat /\ (g > runGen => pc[g] = "none")
  BY DEF GenInv, Gens
<1>3. \A g \in Gens : g > runGen' => pc'[g] = "none"
  BY ONLY <1>0, <1>1, <1>2, SMTT(20) DEF GenTypes
<1>4. \A g \in stop' : g < runGen'
  <2>1. \A g \in stop : g < runGen /\ g \in Gens
    BY <1>0, Zenon DEF GenInv, GenTypes
  <2> QED
    BY ONLY <1>0, <1>1, <1>2, <2>1, SMTT(20)
<1>5. (\A g \in done' : pc'[g] = "exited") /\ ChannelInv'
  <2>1. pc[runGen + 1] = "none"
    BY ONLY <1>0, <1>2, SMTT(20)
  <2>2. (\A g \in done : pc[g] = "exited") /\ ChannelInv
    BY Zenon DEF GenInv
  <2> QED
    BY ONLY <1>0, <1>1, <2>1, <2>2, SMTT(20) DEF ChannelInv, GenTypes, Supervising
<1>6. HandoverInv'
  <2> SUFFICES ASSUME NEW g \in Gens, NEW h \in Gens, g < h, Alive(g)', Passed(h)'
               PROVE  \E k \in timedOut : g < k /\ k <= h
    BY <1>1, Zenon DEF HandoverInv
  <2>1. h # runGen + 1
    BY <1>0, <1>1, <1>2 DEF Passed, GenTypes, Gens, Supervising
  <2>2. Passed(h) /\ h <= runGen
    BY <1>0, <1>1, <1>2, <2>1 DEF Passed, GenTypes, Supervising
  <2>3. Alive(g)
    BY <1>0, <1>1, <1>2, <2>2 DEF Alive, GenTypes
  <2> QED
    BY <2>2, <2>3, Zenon DEF GenInv, HandoverInv
<1> QED
  BY <1>3, <1>4, <1>5, <1>6, Zenon DEF GenInv

\* One step per kind of action.
LEMMA GenStep == TypeOK /\ GenInv /\ [Next]_vars => GenInv'
<1> SUFFICES ASSUME TypeOK, GenInv, [Next]_vars PROVE GenInv'
  BY Zenon
<1>1. ASSUME UNCHANGED <<runGen, stop, done, pc, timedOut>>,
             \A g \in Gens : chan'[g] # "none" => chan[g] # "none"
      PROVE  GenInv'
  BY <1>1, Zenon DEF GenInv, ChannelInv, HandoverInv, Alive, Passed
<1>2. ASSUME NEW g \in Gens, ChannelDies(g) PROVE GenInv'
  BY <1>1, <1>2, TypeParts, Zenon DEF ChannelDies, healthVars, GenTypes
<1>3. ASSUME NEW r \in Restores, RestoreOnly(r) PROVE GenInv'
  BY <1>1, <1>3, RestoreMoves, Zenon DEF healthVars, supVars
<1>4. CASE Other
  BY <1>1, <1>4, OtherMoves, Zenon
<1>5. CASE UNCHANGED vars
  BY <1>1, <1>5, Zenon DEF vars, healthVars, supVars
<1> QED
  BY <1>2, <1>3, <1>4, <1>5, StepKinds, GenStart, GenSup, GenNew, Zenon
-----------------------------------------------------------------------------
(* The health.                                                             *)

\* What the health says of generation g, when g is the newest.
Tracks(g) ==
  /\ state = "running" =>
       pc[g] \in {"top", "run", "dispatch"} \/ (pc[g] \in {"exit", "released"} /\ ctxDone)
  /\ pc[g] \in {"run", "dispatch"} => state = "running"
  /\ (state = "stopped") <=> (pc[g] \in {"abandoned", "exited"})

\* A step of the newest generation reports what it does.
LEMMA NewestReports ==
  ASSUME TypeOK, GenInv, runGen \in Gens, Tracks(runGen), StartStep(runGen) \/ Sup(runGen)
  PROVE  Tracks(runGen)'
<1>0. GenTypes /\ runGen \notin stop /\ runGen' = runGen /\ ctxDone' = ctxDone
  BY TypeParts, StartMoves, SupMoves DEF GenInv, GenTypes, appVars, Gens
<1> USE <1>0 DEF Tracks, GenTypes, setHealthForGen, supFrame, healthVars
<1>1. CASE StartStep(runGen)
  BY <1>1, Zenon DEF StartStep, StartProceeds, StartFails, StartOpens, StartSuperseded,
     StartLaunches
<1>2. CASE SupTop(runGen) \/ SupDispatch(runGen) \/ SupHandled(runGen)
  BY <1>2, Zenon DEF SupTop, SupDispatch, SupHandled
<1>3. CASE SupStops(runGen) \/ SupDies(runGen)
  BY <1>3, Zenon DEF SupStops, SupDies
<1>4. CASE SupDecides(runGen) \/ SupWakes(runGen) \/ SupRedeclares(runGen)
  BY <1>4, Zenon DEF SupDecides, SupWakes, SupRedeclares
<1>5. CASE SupHealFails(runGen)
  BY <1>5, Zenon DEF SupHealFails
<1>6. CASE SupReopens(runGen) \/ SupRechecks(runGen)
  BY <1>6, Zenon DEF SupReopens, SupRechecks
<1>7. CASE SupReleases(runGen) \/ SupExits(runGen)
  BY <1>7, Zenon DEF SupReleases, SupExits
<1> QED
  BY <1>1, <1>2, <1>3, <1>4, <1>5, <1>6, <1>7, ZenonT(30) DEF Sup, SuperviseStep

\* A step of another generation is not heard.
LEMMA OthersUnheard ==
  ASSUME TypeOK, NEW g \in Gens, g # runGen, StartStep(g) \/ Sup(g)
  PROVE  state' = state /\ \A h \in Gens \ {g} : pc'[h] = pc[h]
<1>0. GenTypes
  BY TypeParts, Zenon
<1>1. \A h \in Gens \ {g} : pc'[h] = pc[h]
  <2>1. CASE StartStep(g)
    <3>1. PICK s \in {"open", "check", "top", "abandoned"} : pc' = [pc EXCEPT ![g] = s]
      BY <2>1, StartMoves, ZenonT(30)
    <3> QED
      BY <1>0, <3>1, ZenonT(30) DEF GenTypes
  <2>2. CASE Sup(g)
    <3>1. PICK s \in Supervising \cup {"exited"} : pc' = [pc EXCEPT ![g] = s]
      BY <2>2, SupMoves, ZenonT(30)
    <3> QED
      BY <1>0, <3>1, ZenonT(30) DEF GenTypes
  <2> QED
    BY <2>1, <2>2, Zenon
<1>2. state' = state
  BY Zenon DEF setHealthForGen, healthVars, StartStep, StartProceeds, StartFails, StartOpens,
     StartSuperseded, StartLaunches, Sup, SuperviseStep, SupTop, SupDispatch, SupHandled,
     SupStops, SupDies, SupDecides, SupWakes, SupRedeclares, SupHealFails, SupReopens,
     SupRechecks, SupReleases, SupExits
<1> QED
  BY <1>1, <1>2, Zenon

\* One step per kind of action.
LEMMA HealthStep ==
  TypeOK /\ GenInv /\ HealthTracksNewest /\ [Next]_vars => HealthTracksNewest'
<1> SUFFICES ASSUME TypeOK, GenInv, HealthTracksNewest, [Next]_vars,
                    mpc' \notin {"closing", "returned"}, runGen' > 0
             PROVE  Tracks(runGen)'
  BY Zenon DEF HealthTracksNewest, Tracks
<1>0. GenTypes
  BY TypeParts, Zenon
<1>1. ASSUME UNCHANGED <<runGen, pc, state>>, ctxDone => ctxDone', mpc \notin {"closing", "returned"}
      PROVE  Tracks(runGen)'
  BY <1>1, Zenon DEF HealthTracksNewest, Tracks
<1>2. ASSUME NEW g \in Gens, StartStep(g) \/ Sup(g) PROVE Tracks(runGen)'
  <2>1. UNCHANGED <<runGen, ctxDone, mpc>>
    BY <1>2, StartMoves, SupMoves, Zenon DEF appVars
  <2>2. Tracks(runGen) /\ runGen \in Gens
    BY <1>0, <2>1 DEF HealthTracksNewest, Tracks, GenTypes, Gens
  <2>3. CASE g = runGen
    BY <1>2, <2>2, <2>3, NewestReports, Zenon
  <2>4. CASE g # runGen
    BY <1>2, <2>1, <2>2, <2>4, OthersUnheard, Zenon DEF Tracks
  <2> QED
    BY <2>3, <2>4, Zenon
<1>3. ASSUME NEW g \in Gens, ChannelDies(g) PROVE Tracks(runGen)'
  BY <1>1, <1>3, Zenon DEF ChannelDies, healthVars, appVars
<1>4. ASSUME NEW r \in Restores, start(r) PROVE Tracks(runGen)'
  BY <1>0, <1>4, NextGen, Zenon DEF start, Tracks, GenTypes
<1>5. ASSUME NEW r \in Restores, RestoreOnly(r) PROVE Tracks(runGen)'
  BY <1>1, <1>5, RestoreMoves, Zenon DEF healthVars, supVars, appVars
<1>6. CASE Other
  BY <1>1, <1>6, OtherMoves, Zenon
<1>7. CASE UNCHANGED vars
  BY <1>1, <1>7, Zenon DEF vars, healthVars, supVars, appVars
<1> QED
  BY <1>2, <1>3, <1>4, <1>5, <1>6, <1>7, StepKinds, Zenon
-----------------------------------------------------------------------------
(* The restores and the shutdown.                                          *)

\* A supervisor leaves the restores alone and uncounts itself as it releases.
LEMMA ShutdownSup ==
  ASSUME TypeOK, GenInv, ShutdownInv, NEW g \in Gens, Sup(g)
  PROVE  ShutdownInv'
<1>0. GenTypes
  BY TypeParts, Zenon
<1>1. /\ UNCHANGED <<rpc, rstart, mpc, dpc, shuttingDown, connOpen, drops>>
      /\ pc[g] \in Supervising
  BY SupMoves, Zenon DEF restoreVars, appVars
<1>2. PICK s \in Supervising \cup {"exited"} :
        /\ pc' = [pc EXCEPT ![g] = s]
        /\ s = "exited" <=> pc[g] = "released"
        /\ s = "released" <=> pc[g] = "exit"
        /\ wg' = IF s = "released" THEN wg \ {g} ELSE wg
  BY SupMoves, Zenon
<1>3. PICK t \in {"none", "open", "dead"} :
        /\ chan' = [chan EXCEPT ![g] = t]
        /\ t # "none" => (t = chan[g] /\ pc[g] # "exit") \/ pc[g] = "reopen"
  BY SupMoves, Zenon
<1>4. WorkInv'
  BY <1>0, <1>1, <1>2, ZenonT(30) DEF ShutdownInv, WorkInv, GenTypes, Supervising, Starting
<1>5. DropInv'
  BY <1>1, Zenon DEF ShutdownInv, DropInv
<1>6. NoAddAfterWait'
  BY <1>0, <1>1, <1>2, Zenon DEF ShutdownInv, NoAddAfterWait, GenTypes, Supervising, Starting
<1>7. DrainIsComplete'
  BY <1>0, <1>1, <1>2, <1>3, Zenon DEF ShutdownInv, DrainIsComplete, GenTypes, Supervising
<1> QED
  BY <1>4, <1>5, <1>6, <1>7, Zenon DEF ShutdownInv

\* A start that goes on belongs to a restore, so the drain is still waiting.
LEMMA ShutdownStart ==
  ASSUME TypeOK, ShutdownInv, NEW g \in Gens, StartStep(g)
  PROVE  ShutdownInv'
<1>0. GenTypes /\ AppTypes
  BY TypeParts, Zenon
<1>1. PICK s \in {"open", "check", "top", "abandoned"} : pc' = [pc EXCEPT ![g] = s]
  BY StartMoves, Zenon
<1>2. /\ UNCHANGED <<rstart, mpc, dpc, shuttingDown, connOpen, drops>> /\ pc[g] \in Starting
      /\ wg' = IF s = "top" THEN wg \cup {g} ELSE wg
  BY <1>0, <1>1, StartMoves, Zenon DEF appVars, GenTypes
<1>3. /\ \A r \in Restores : rpc'[r] = rpc[r] \/ (rpc[r] = "starting" /\ rstart[r] = g)
      /\ s \in Starting => rpc' = rpc
  <2>1. pc'[g] = s
    BY <1>0, <1>1, Zenon DEF GenTypes
  <2>2. \/ rpc' = rpc
        \/ s \notin Starting /\ \E result \in {"failed", "others"} : Return(g, result)
    BY <2>1, StartMoves, Zenon
  <2> QED
    BY <2>2, Zenon DEF Return
<1>4. WorkInv'
  <2>1. ASSUME NEW h \in Gens, pc'[h] \in Starting
        PROVE  \E r \in Restores : rpc'[r] = "starting" /\ rstart'[r] = h
    <3>1. pc[h] \in Starting
      BY <1>0, <1>1, <1>2, <2>1, Zenon DEF GenTypes
    <3>2. PICK r \in Restores : rpc[r] = "starting" /\ rstart[r] = h
      BY <3>1, Zenon DEF ShutdownInv, WorkInv
    <3>3. h = g => rpc' = rpc
      BY <1>0, <1>1, <1>3, <2>1, Zenon DEF GenTypes
    <3> QED
      BY <1>2, <1>3, <3>2, <3>3, Zenon
  <2>2. \A h \in Gens : pc'[h] \in Supervising \ {"released"} => h \in wg'
    BY <1>0, <1>1, <1>2, Zenon DEF ShutdownInv, WorkInv, GenTypes, Supervising
  <2> QED
    BY <2>1, <2>2, Zenon DEF WorkInv
<1>5. DropInv'
  BY <1>2, <1>3, <1>0, Zenon DEF ShutdownInv, DropInv, AppTypes, Restores
<1>6. dpc' \notin {"supervisors", "done"}
  BY <1>2, Zenon DEF ShutdownInv, NoAddAfterWait
<1> QED
  BY <1>4, <1>5, <1>6, Zenon DEF ShutdownInv, NoAddAfterWait, DrainIsComplete

\* A new start belongs to the restore that calls it.
LEMMA ShutdownNew ==
  ASSUME TypeOK, ShutdownInv, NEW r \in Restores, start(r)
  PROVE  ShutdownInv'
<1>0. GenTypes /\ AppTypes /\ runGen + 1 \in Gens
  BY TypeParts, NextGen, Zenon DEF start
<1>1. /\ UNCHANGED <<mpc, dpc, shuttingDown, connOpen, drops, wg>> /\ rpc[r] = "start"
      /\ \E s \in {"wait", "open"} : pc' = [pc EXCEPT ![runGen + 1] = s]
      /\ rpc' = [rpc EXCEPT ![r] = "starting"]
      /\ rstart' = [rstart EXCEPT ![r] = runGen + 1]
  BY Zenon DEF start, connVars, appVars
<1>2. WorkInv'
  BY <1>0, <1>1 DEF ShutdownInv, WorkInv, GenTypes, AppTypes, Supervising
<1>3. DropInv'
  BY <1>0, <1>1 DEF ShutdownInv, DropInv, AppTypes
<1>4. dpc' \notin {"supervisors", "done"}
  BY <1>1, Zenon DEF ShutdownInv, NoAddAfterWait, Restoring
<1> QED
  BY <1>2, <1>3, <1>4, Zenon DEF ShutdownInv, NoAddAfterWait, DrainIsComplete

\* A hook that comes after the shutdown began is refused.
LEMMA ShutdownRestore ==
  ASSUME TypeOK, ShutdownInv, NEW r \in Restores, RestoreOnly(r)
  PROVE  ShutdownInv'
<1>0. AppTypes
  BY TypeParts, Zenon
<1>1. /\ UNCHANGED <<pc, chan, wg, rstart, mpc, dpc, shuttingDown, connOpen, drops>>
      /\ rpc[r] \notin {"none", "starting"}
      /\ \E s \in {"try", "declare", "start", "failed", "backoff", "skipped", "refused", "done"} :
           /\ rpc' = [rpc EXCEPT ![r] = s]
           /\ s \in Restoring => rpc[r] \in Restoring \/ (rpc[r] = "hook" /\ ~shuttingDown)
  BY RestoreMoves, Zenon DEF supVars, appVars
<1>2. WorkInv'
  BY <1>0, <1>1 DEF ShutdownInv, WorkInv, AppTypes
<1>3. DropInv'
  BY <1>0, <1>1 DEF ShutdownInv, DropInv, AppTypes
<1>4. NoAddAfterWait'
  BY <1>0, <1>1, Zenon DEF ShutdownInv, NoAddAfterWait, DropInv, AppTypes
<1>5. DrainIsComplete'
  BY <1>1, Zenon DEF ShutdownInv, DrainIsComplete
<1> QED
  BY <1>2, <1>3, <1>4, <1>5, Zenon DEF ShutdownInv

\* Start and the connection.  The first Wait ends with no restore left, hence no
\* start; the second with nothing counted, hence nothing that supervises.
LEMMA ShutdownOther ==
  ASSUME TypeOK, GenInv, ShutdownInv, Other
  PROVE  ShutdownInv'
<1>0. GenTypes /\ AppTypes /\ MaxDrops \in Nat
  BY TypeParts, ConsumerAssumption, Zenon
<1>1. /\ UNCHANGED <<pc, wg, rstart>>
      /\ rpc' = rpc \/ (ConnectionRestored /\ rpc' = [rpc EXCEPT ![drops] = "hook"])
      /\ \A g \in Gens : chan[g] = "none" => chan'[g] = "none"
  BY OtherMoves, Zenon
<1>2. ConnectionRestored => rpc[drops] = "none"
  BY Zenon DEF ShutdownInv, DropInv, ConnectionRestored
<1>3. WorkInv'
  BY <1>0, <1>1, <1>2 DEF ShutdownInv, WorkInv, AppTypes
<1>4. DropInv'
  <2> USE <1>0 DEF ShutdownInv, DropInv, AppTypes, appFrame, restoreVars, connVars, appVars
  <2>1. CASE StartErrs \/ StartReady \/ CtxCancelled \/ ShutdownBegins
    BY <2>1, Zenon DEF StartErrs, StartReady, CtxCancelled, ShutdownBegins
  <2>2. CASE RestoresDrained \/ SupervisorsDrained \/ MarkConsumersStopped \/ StartReturns
    BY <2>2, Zenon DEF RestoresDrained, SupervisorsDrained, MarkConsumersStopped, StartReturns
  <2>3. CASE ConnectionDrops
    <3>1. UNCHANGED <<rpc, mpc, dpc, shuttingDown>> /\ drops' = drops + 1 /\ drops + 1 \in Restores
      BY <2>3 DEF ConnectionDrops, Restores
    <3>2. \A r \in Restores : r > drops' => r > drops
      BY <3>1 DEF Restores
    <3>3. rpc[drops + 1] = "none"
      BY <3>1, SMTT(20)
    <3> QED
      BY <3>1, <3>2, <3>3, Zenon
  <2>4. CASE ConnectionRestored
    BY <2>4, SMTT(20) DEF ConnectionRestored, Restores
  <2> QED
    BY <2>1, <2>2, <2>3, <2>4, Zenon DEF Other, AppStep
<1>5. \/ dpc' = dpc
      \/ dpc' = "restores"
      \/ dpc' = "supervisors" /\ \A r \in Restores : rpc[r] \notin Restoring
      \/ dpc = "supervisors" /\ dpc' = "done" /\ wg = {}
  BY Zenon DEF Other, AppStep, StartErrs, StartReady, CtxCancelled, ShutdownBegins,
     RestoresDrained,
     SupervisorsDrained, MarkConsumersStopped, StartReturns, ConnectionDrops, ConnectionRestored,
     appVars
<1>6. NoAddAfterWait'
  <2>1. \A r \in Restores : rpc[r] \notin Restoring => rpc'[r] \notin Restoring
    BY <1>0, <1>1, Zenon DEF AppTypes, Restoring
  <2>2. (\A r \in Restores : rpc[r] \notin Restoring) => \A g \in Gens : pc[g] \notin Starting
    BY Zenon DEF ShutdownInv, WorkInv, Restoring
  <2> QED
    BY <1>1, <1>5, <2>1, <2>2, Zenon DEF ShutdownInv, NoAddAfterWait
<1>7. DrainIsComplete'
  <2>1. CASE dpc = "done" /\ dpc' = "done"
    BY <1>1, <2>1, Zenon DEF ShutdownInv, DrainIsComplete
  <2>2. CASE dpc = "supervisors" /\ dpc' = "done" /\ wg = {}
    <3>1. \A g \in Gens : pc[g] \notin Supervising \ {"released"} /\ pc[g] # "check"
      BY <2>2, Zenon DEF ShutdownInv, WorkInv, NoAddAfterWait, Starting
    <3>2. \A g \in Gens : chan[g] = "none"
      BY <3>1, Zenon DEF GenInv, ChannelInv
    <3> QED
      BY <1>1, <3>1, <3>2, Zenon DEF DrainIsComplete
  <2> QED
    BY <1>5, <2>1, <2>2, Zenon DEF DrainIsComplete
<1> QED
  BY <1>3, <1>4, <1>6, <1>7, Zenon DEF ShutdownInv

\* Every kind of step keeps the shutdown in order.
LEMMA ShutdownStep == TypeOK /\ GenInv /\ ShutdownInv /\ [Next]_vars => ShutdownInv'
<1> SUFFICES ASSUME TypeOK, GenInv, ShutdownInv, [Next]_vars PROVE ShutdownInv'
  BY Zenon
<1>1. ASSUME NEW g \in Gens, ChannelDies(g) PROVE ShutdownInv'
  <2>1. /\ UNCHANGED <<pc, wg, rpc, rstart, mpc, dpc, shuttingDown, connOpen, drops>>
        /\ dpc # "done"
    BY <1>1, Zenon DEF ChannelDies, restoreVars, appVars, ShutdownInv, DrainIsComplete
  <2> QED
    BY <2>1, Zenon DEF ShutdownInv, WorkInv, DropInv, NoAddAfterWait, DrainIsComplete
<1>2. CASE UNCHANGED vars
  BY <1>2, Zenon DEF vars, connVars, supVars, restoreVars, appVars, ShutdownInv, WorkInv,
     DropInv,
     NoAddAfterWait, DrainIsComplete
<1> QED
  BY <1>1, <1>2, StepKinds, ShutdownSup, ShutdownStart, ShutdownNew, ShutdownRestore,
     ShutdownOther, Zenon
-----------------------------------------------------------------------------
(* The theorems.                                                           *)

\* The invariant holds when Start calls bringUpConsumers.
LEMMA InitInv == Init => IInv
<1> SUFFICES ASSUME Init PROVE IInv
  BY Zenon
<1> USE ConsumerAssumption DEF Init
<1>1. TypeOK
  <2>1. GenTypes
    BY DEF GenTypes, GenSteps
  <2>2. 0 \in 0..MaxDrops /\ 0 \in 0..MaxFaults /\ 0 \in 0..MaxStarts
    OBVIOUS
  <2>3. rpc \in [Restores -> {"none", "hook", "skipped", "refused", "done"} \cup Restoring]
    BY Zenon DEF Restoring
  <2>4. rgen \in [Restores -> Nat] /\ rstart \in [Restores -> 0..MaxStarts]
    BY <2>2, Zenon
  <2>5. AppTypes
    BY <2>2, <2>3, <2>4, Zenon DEF AppTypes
  <2> QED
    BY <2>1, <2>5, TypeParts, Zenon
<1>2. GenInv
  BY Zenon DEF GenInv, ChannelInv, HandoverInv, Alive, Gens
<1>3. HealthTracksNewest
  BY SMTT(20) DEF HealthTracksNewest
<1>4. ShutdownInv
  BY DEF ShutdownInv, WorkInv, DropInv, NoAddAfterWait, DrainIsComplete, Starting, Supervising,
     Restores
<1> QED
  BY <1>1, <1>2, <1>3, <1>4, Zenon DEF IInv

\* The three layers together are inductive.
LEMMA Inductive == Spec => []IInv
<1>1. IInv /\ [Next]_vars => IInv'
  BY TypeStep, GenStep, HealthStep, ShutdownStep, Zenon DEF IInv
<1> QED
  BY <1>1, InitInv, PTL DEF Spec

\* The variables of the listener, its restores and its shutdown keep their types.
THEOREM ConsumerTypeCorrect == Spec => []TypeOK
<1>1. IInv => TypeOK
  BY Zenon DEF IInv
<1> QED
  BY <1>1, Inductive, PTL

\* However many reconnects and self-heals overlap, two generations of a listener
\* consume at once only after a start between them gave up its wait.
THEOREM ConsumersNeverOverlap == Spec => []OneConsumer
<1>1. IInv => OneConsumer
  <2> SUFFICES ASSUME IInv PROVE OneConsumer
    BY Zenon
  <2>1. \A g \in Gens : chan[g] = "open" => Alive(g) /\ Passed(g)
    BY Zenon DEF IInv, GenInv, ChannelInv, Alive, Passed, Supervising
  <2> QED
    BY <2>1, Zenon DEF IInv, GenInv, HandoverInv, OneConsumer
<1> QED
  BY <1>1, Inductive, PTL

\* Health never reports a listener running that is not, nor one stopped that
\* still works, however late a superseded supervisor exits.
THEOREM HealthIsHonest == Spec => []HealthTracksNewest
<1>1. IInv => HealthTracksNewest
  BY Zenon DEF IInv
<1> QED
  BY <1>1, Inductive, PTL

\* shutdownWg.Add never follows the return of restoreWg.Wait.
THEOREM WaitGroupObeyed == Spec => []NoAddAfterWait
<1>1. IInv => NoAddAfterWait
  BY Zenon DEF IInv, ShutdownInv
<1> QED
  BY <1>1, Inductive, PTL

\* A drain that completes leaves no supervisor consuming or inside a handler.
THEOREM DrainsCompletely == Spec => []DrainIsComplete
<1>1. IInv => DrainIsComplete
  BY Zenon DEF IInv, ShutdownInv
<1> QED
  BY <1>1, Inductive, PTL
=============================================================================
