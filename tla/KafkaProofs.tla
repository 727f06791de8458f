---------------------------- MODULE KafkaProofs ----------------------------
(***************************************************************************)
(* A Kafka listener, for any number of messages, crashes and faults and    *)
(* any retry limit: at-least-once and the retry count.  And the life of a  *)
(* Kafka app, for any handlers, calls and partitions: what Start has set   *)
(* up when it closes Ready, what a Start that fails leaves behind, and in  *)
(* which order the shutdown takes things down.                             *)
(***************************************************************************)
EXTENDS KafkaListener, KafkaApp, FiniteSetTheorems, TLAPS
-----------------------------------------------------------------------------
(* The listener.                                                           *)

\* processMessage is running.
Processing == lpc \in {"decode", "handler", "backoff", "dlq", "commit"}

\* The message being processed is the last one fetched, and the committed offset
\* is behind the reader.
PositionInv ==
  /\ committed <= next
  /\ Processing => msg = next /\ committed < next

\* Everything fetched since the committed offset, too, is settled or given up,
\* but for the message being processed, which is settled once it may be committed.
SettledInv ==
  /\ \A m \in 1..next : Settled(m) \/ m \in left \/ (Processing /\ m = msg)
  /\ lpc = "commit" => Settled(msg)

\* The invocations of the handler are counted for the message being processed.
AttemptInv ==
  /\ lpc = "decode" => attempt = 0
  /\ lpc \in {"handler", "backoff"} => class[msg] = "good" /\ attempt < attempts
  /\ lpc = "dlq" => class[msg] = "bad" \/ (class[msg] = "good" /\ attempt = attempts)

ListenerInv == TypeOK /\ PositionInv /\ SettledInv /\ AttemptInv

\* processMessage makes at least one attempt.
LEMMA AttemptsType == ASSUME TypeOK PROVE attempts \in Nat /\ attempts > 0
BY KafkaListenerAssumption DEF TypeOK, attempts

\* The part of the type invariant that steps change.
StepTypes ==
  /\ committed \in 0..N /\ next \in 0..N
  /\ lpc \in {"fetch", "decode", "handler", "backoff", "dlq", "commit", "stopped"}
  /\ msg \in 0..N /\ attempt \in 0..attempts
  /\ callFaults \in 0..MaxCallFaults /\ crashes \in 0..MaxCrashes
  /\ handled \subseteq Messages /\ dlq \subseteq Messages /\ left \subseteq Messages

\* The loop starts with nothing fetched.
LEMMA InitInv == ASSUME ListenerInit PROVE ListenerInv
<1>1. attempts \in Nat
  BY KafkaListenerAssumption DEF ListenerInit, attempts
<1>2. StepTypes
  BY <1>1, KafkaListenerAssumption DEF ListenerInit, StepTypes
<1>3. TypeOK
  BY <1>2, Zenon DEF ListenerInit, TypeOK, StepTypes
<1>4. PositionInv /\ SettledInv /\ AttemptInv
  BY DEF ListenerInit, PositionInv, SettledInv, AttemptInv, Processing
<1> QED
  BY <1>3, <1>4 DEF ListenerInv

\* The configuration and the messages do not change; a context is done or not.
LEMMA InputsFixed ==
  ASSUME TypeOK, [ListenerNext]_listenerVars
  PROVE  /\ UNCHANGED <<class, MaxRetryAttempts>> /\ attempts' = attempts
         /\ stopping' \in BOOLEAN
<1>1. UNCHANGED inputVars /\ (UNCHANGED stopping \/ stopping' = TRUE \/ stopping' = FALSE)
  BY Zenon DEF ListenerNext, LoopStep, listenerVars, envVars, processFrame, Fetch, Decode,
     HandlerSucceeds, HandlerFails, BackoffEnds, BackoffCancelled, DLQSucceeds, DLQFails,
     Commit, FetchFails, CommitFails, ListenerCancelled, Restart, BrokerCallFails
<1> QED
  BY <1>1, Zenon DEF inputVars, attempts, TypeOK

\* Every step keeps the types.
LEMMA TypeStep == ASSUME ListenerInv, [ListenerNext]_listenerVars PROVE TypeOK'
<1>1. attempts \in Nat /\ attempts > 0 /\ attempts' = attempts
  BY AttemptsType, InputsFixed DEF ListenerInv
<1>2. StepTypes
  BY ZenonT(30) DEF ListenerInv, TypeOK, StepTypes
<1>3. StepTypes'
  <2> USE <1>1, <1>2, KafkaListenerAssumption DEF StepTypes
  <2>1. CASE Fetch
    BY <2>1 DEF Fetch, envVars
  <2>2. CASE Decode
    BY <2>2 DEF Decode, envVars, processFrame
  <2>3. CASE HandlerSucceeds
    BY <2>3 DEF HandlerSucceeds, envVars, processFrame, ListenerInv, PositionInv, Processing,
       Messages
  <2>4. CASE HandlerFails
    BY <2>4 DEF HandlerFails, envVars, processFrame, ListenerInv, AttemptInv
  <2>5. CASE BackoffEnds
    BY <2>5 DEF BackoffEnds, envVars, processFrame
  <2>6. CASE BackoffCancelled
    BY <2>6 DEF BackoffCancelled, envVars, processFrame, ListenerInv, PositionInv, Processing,
       Messages
  <2>7. CASE DLQSucceeds
    BY <2>7 DEF DLQSucceeds, envVars, processFrame, ListenerInv, PositionInv, Processing, Messages
  <2>8. CASE DLQFails
    BY <2>8 DEF DLQFails, BrokerCallFails, ListenerInv, PositionInv, Processing, Messages
  <2>9. CASE Commit
    BY <2>9 DEF Commit, envVars, processFrame
  <2>10. CASE CommitFails
    BY <2>10 DEF CommitFails, BrokerCallFails
  <2>11. CASE FetchFails
    BY <2>11 DEF FetchFails, BrokerCallFails
  <2>12. CASE ListenerCancelled
    BY <2>12 DEF ListenerCancelled
  <2>13. CASE Restart
    BY ONLY <1>1, <1>2, <2>13, KafkaListenerAssumption, SMTT(20) DEF Restart, StepTypes
  <2>14. CASE UNCHANGED listenerVars
    BY <2>14 DEF listenerVars, envVars
  <2> QED
    BY <2>1, <2>2, <2>3, <2>4, <2>5, <2>6, <2>7, <2>8, <2>9, <2>10, <2>11, <2>12, <2>13, <2>14,
       ZenonT(30)
       DEF ListenerNext, LoopStep
<1> QED
  BY <1>3, InputsFixed, Zenon DEF ListenerInv, TypeOK, StepTypes
-----------------------------------------------------------------------------
\* What has been settled stays settled.
LEMMA SettledStays ==
  ASSUME ListenerInv, [ListenerNext]_listenerVars, NEW m, Settled(m) PROVE Settled(m)'
<1>1. UNCHANGED class /\ handled \subseteq handled' /\ dlq \subseteq dlq'
  <2>1. UNCHANGED class
    BY InputsFixed DEF ListenerInv
  <2>2. handled \subseteq handled' /\ dlq \subseteq dlq'
    BY Zenon DEF ListenerNext, LoopStep, listenerVars, Fetch, Decode, HandlerSucceeds,
       HandlerFails, BackoffEnds,
       BackoffCancelled, DLQSucceeds, DLQFails, Commit, FetchFails, CommitFails,
       ListenerCancelled,
       Restart
  <2> QED
    BY <2>1, <2>2
<1> QED
  BY <1>1, Zenon DEF Settled

\* Every step keeps the offsets in order: a message is processed and committed
\* before the next one is fetched.
LEMMA PositionStep == ASSUME ListenerInv, [ListenerNext]_listenerVars PROVE PositionInv'
<1> USE DEF PositionInv, Processing
<1>1. StepTypes
  BY Zenon DEF ListenerInv, TypeOK, StepTypes
<1>2. N \in Nat /\ committed \in Nat /\ next \in Nat
  BY <1>1, KafkaListenerAssumption DEF StepTypes
<1>3. CASE Fetch
  BY <1>2, <1>3 DEF ListenerInv, Fetch
<1>4. CASE Decode \/ HandlerSucceeds \/ HandlerFails \/ BackoffEnds \/ DLQSucceeds
  BY <1>4 DEF ListenerInv, Decode, HandlerSucceeds, HandlerFails, BackoffEnds, DLQSucceeds,
     processFrame
<1>5. CASE BackoffCancelled \/ DLQFails \/ CommitFails \/ FetchFails
  BY <1>5 DEF ListenerInv, BackoffCancelled, DLQFails, CommitFails, FetchFails, processFrame
<1>6. CASE Commit
  BY <1>2, <1>6 DEF ListenerInv, Commit, processFrame
<1>7. CASE ListenerCancelled \/ UNCHANGED listenerVars
  BY <1>7 DEF ListenerInv, ListenerCancelled, listenerVars
<1>8. CASE Restart
  BY <1>2, <1>8 DEF Restart
<1> QED
  BY <1>3, <1>4, <1>5, <1>6, <1>7, <1>8 DEF ListenerNext, LoopStep

\* Every step settles or gives up what it leaves behind.
LEMMA SettledStep == ASSUME ListenerInv, [ListenerNext]_listenerVars PROVE SettledInv'
<1> USE DEF SettledInv, Processing
<1>1. \A m : Settled(m) => Settled(m)'
  BY SettledStays
<1>2. N \in Nat /\ committed \in Nat /\ next \in Nat /\ committed <= next
  <2>1. StepTypes
    BY Zenon DEF ListenerInv, TypeOK, StepTypes
  <2> QED
    BY <2>1, KafkaListenerAssumption DEF StepTypes, ListenerInv, PositionInv
<1>3. CASE Fetch
  BY <1>1, <1>2, <1>3 DEF ListenerInv, Fetch
<1>4. CASE Decode
  <2>1. class[msg] = "unknown" => Settled(msg)'
    BY <1>1, <1>4, Zenon DEF Settled, Decode
  <2> QED
    BY <1>1, <1>4, <2>1 DEF ListenerInv, Decode, processFrame
<1>5. CASE HandlerSucceeds
  <2>1. Settled(msg)'
    BY <1>5, Zenon DEF HandlerSucceeds, Settled
  <2> QED
    BY <1>1, <1>5, <2>1 DEF ListenerInv, HandlerSucceeds, processFrame
<1>6. CASE HandlerFails \/ BackoffEnds
  BY <1>1, <1>6 DEF ListenerInv, HandlerFails, BackoffEnds, processFrame
<1>7. CASE BackoffCancelled \/ DLQFails
  BY <1>1, <1>7 DEF ListenerInv, BackoffCancelled, DLQFails, processFrame
<1>8. CASE DLQSucceeds
  <2>1. Settled(msg)'
    BY <1>8, Zenon DEF DLQSucceeds, Settled
  <2> QED
    BY <1>1, <1>8, <2>1 DEF ListenerInv, DLQSucceeds, processFrame
<1>9. CASE Commit \/ CommitFails \/ FetchFails
  BY <1>1, <1>9 DEF ListenerInv, Commit, CommitFails, FetchFails, processFrame
<1>10. CASE ListenerCancelled \/ UNCHANGED listenerVars
  BY <1>1, <1>10, ZenonT(30) DEF ListenerInv, ListenerCancelled, listenerVars
<1>11. CASE Restart
  BY <1>1, <1>2, <1>11, SMTT(20) DEF ListenerInv, PositionInv, Restart
<1> QED
  BY <1>3, <1>4, <1>5, <1>6, <1>7, <1>8, <1>9, <1>10, <1>11 DEF ListenerNext, LoopStep

\* Every step counts the failed invocations of the message it processes.
LEMMA AttemptStep == ASSUME ListenerInv, [ListenerNext]_listenerVars PROVE AttemptInv'
<1> USE DEF AttemptInv
<1>1. UNCHANGED class /\ attempts' = attempts
  BY InputsFixed, Zenon DEF ListenerInv
<1>2. attempts \in Nat /\ attempts > 0
  BY AttemptsType DEF ListenerInv
<1>3. CASE Decode
  <2>1. class[msg] \in {"good", "bad", "unknown"}
    <3>1. class \in [Messages -> {"good", "bad", "unknown"}] /\ StepTypes
      BY Zenon DEF ListenerInv, TypeOK, StepTypes
    <3>2. msg \in Messages
      BY <1>3, <3>1, KafkaListenerAssumption DEF Decode, ListenerInv, StepTypes, PositionInv,
         Processing,
         Messages
    <3> QED
      BY <3>1, <3>2, Zenon
  <2> QED
    BY <1>1, <1>2, <1>3, <2>1, ZenonT(30) DEF ListenerInv, Decode
<1>4. CASE HandlerFails
  <2>1. attempt \in 0..attempts
    BY Zenon DEF ListenerInv, TypeOK
  <2> QED
    BY <1>1, <1>2, <1>4, <2>1 DEF ListenerInv, HandlerFails
<1>5. CASE BackoffEnds
  BY <1>1, <1>5, ZenonT(30) DEF ListenerInv, BackoffEnds
<1>6. CASE Fetch \/ HandlerSucceeds \/ BackoffCancelled \/ DLQSucceeds \/ DLQFails \/ Commit
  BY <1>6 DEF Fetch, HandlerSucceeds, BackoffCancelled, DLQSucceeds, DLQFails, Commit
<1>7. CASE CommitFails \/ FetchFails \/ Restart
  BY <1>7 DEF CommitFails, FetchFails, Restart
<1>8. CASE ListenerCancelled \/ UNCHANGED listenerVars
  BY <1>1, <1>8 DEF ListenerInv, ListenerCancelled, listenerVars
<1> QED
  BY <1>3, <1>4, <1>5, <1>6, <1>7, <1>8 DEF ListenerNext, LoopStep

\* The invariant is inductive.
LEMMA Inductive == ListenerSpec => []ListenerInv
<1>1. ListenerInv /\ [ListenerNext]_listenerVars => ListenerInv'
  BY TypeStep, PositionStep, SettledStep, AttemptStep DEF ListenerInv
<1> QED
  BY InitInv, <1>1, PTL DEF ListenerSpec

\* processMessage, its retries, the dead letters and the commits keep the types,
\* the count of attempts within the limit among them.
THEOREM TypeCorrect == ListenerSpec => []TypeOK
BY Inductive, PTL DEF ListenerInv

\* At-least-once: through crashes, failed commits, failed dead letters and
\* shutdowns the committed offset passes only messages that are settled or that
\* this run of the process gave up.
THEOREM CommitsOnlySettled == ListenerSpec => []CommittedIsSettled
<1>1. ASSUME ListenerInv PROVE CommittedIsSettled
  <2>1. StepTypes
    BY <1>1, Zenon DEF ListenerInv, TypeOK, StepTypes
  <2> QED
    BY <1>1, <2>1, KafkaListenerAssumption
       DEF StepTypes, ListenerInv, PositionInv, SettledInv, CommittedIsSettled, Processing
<1> QED
  BY Inductive, <1>1, PTL

\* A message is dead-lettered only when it cannot be decoded or the handler has
\* failed MaxRetryAttempts times in a row.
THEOREM DeadLettersAreExhausted == ListenerSpec => DLQOnlyWhenExhausted
<1>1. ASSUME ListenerInv, [ListenerNext]_listenerVars
      PROVE  \A m \in dlq' \ dlq :
               class[m] = "bad" \/ (class[m] = "good" /\ attempt = attempts)
  <2>1. UNCHANGED dlq \/ (lpc = "dlq" /\ dlq' = dlq \cup {msg})
    BY <1>1, Zenon DEF ListenerNext, LoopStep, listenerVars, Fetch, Decode, HandlerSucceeds,
       HandlerFails,
       BackoffEnds, BackoffCancelled, DLQSucceeds, DLQFails, Commit, FetchFails, CommitFails,
       ListenerCancelled, Restart
  <2> QED
    BY <1>1, <2>1, Zenon DEF ListenerInv, AttemptInv
<1> QED
  BY Inductive, <1>1, PTL DEF ListenerSpec, DLQOnlyWhenExhausted
-----------------------------------------------------------------------------
(* The app.                                                                *)

\* Where Start is: nothing opened yet, readers open, everything set up.
Unopened == {"idle", "failed", "dial", "event", "notification", "command", "query", "topics", "open"}
Opened == {"publish", "mark", "spawn", "ready", "drain"}
Closing == {"close", "returned"}
NoProducer == {"idle", "failed", "dial"}
Verified == {"open"} \cup Opened

PcOK == pc \in Unopened \cup Opened \cup Closing

\* The resources of the app follow the position of Start.
ResourceInv ==
  /\ pc \in NoProducer => producer # "open"
  /\ pc \notin NoProducer \cup {"returned"} => producer = "open"
  /\ pc \in Unopened => ~gateway /\ ~started
  /\ pc \notin Closing => ~drainTimedOut
  /\ pc \in {"mark", "spawn", "ready"} => gateway
  /\ pc \in {"spawn", "ready"} => started

Live == {"spawned", "priming", "idle", "busy"}

ReaderInv ==
  /\ reader \in [Listeners -> {"none", "open", "closed"}]
  /\ run \in [Listeners -> {"none"} \cup Live \cup {"done"}]
  /\ pc \in Unopened => \A l \in Listeners : reader[l] = "none" /\ run[l] = "none"
  /\ pc \in Opened => \A l \in Listeners : reader[l] = IF l \in Wanted THEN "open" ELSE "none"
  /\ pc = "returned" => \A l \in Listeners : reader[l] # "open"
  /\ pc = "ready" => \A l \in Wanted : run[l] # "none"
  /\ pc \in Closing /\ ~drainTimedOut => \A l \in Listeners : ~Running(l)

\* The wait group counts the goroutines that run.
CountInv ==
  LET running == {l \in Listeners : Running(l)} IN
    IsFiniteSet(running) /\ wg = Cardinality(running)

\* Start has seen the handlers of the kinds in K that were there before it.
Took(K) == \A h \in early : h[1] \in K => h \in snapshot

SnapshotInv ==
  /\ snapshot \subseteq handlers /\ early \subseteq handlers /\ handlers \subseteq Names
  /\ pc = "notification" => Took({"event"})
  /\ pc = "command" => Took({"event", "notification"})
  /\ pc = "query" => Took({"event", "notification", "command"})
  /\ pc \in {"topics"} \cup Verified => Took({"event", "notification", "command", "query"})
  /\ pc \in Verified => collectTopicsToVerify \subseteq topics

LifeInv == PcOK /\ ResourceInv /\ ReaderInv /\ CountInv /\ SnapshotInv
-----------------------------------------------------------------------------
(* The steps that do not belong to Start.                                  *)

\* A step of a goroutine, of kafka-go or of a caller: it may move a listener that
\* runs, and leaves Start and the readers alone.
QuietStep ==
  /\ AppUnchanged /\ UNCHANGED <<reader, wg>>
  /\ \/ UNCHANGED run
     \/ \E l, from, to : from \in Live /\ to \in Live /\ Move(l, from, to)

\* Every step is one of these.
LEMMA StepKinds ==
  ASSUME Next
  PROVE  \/ \E h \in Names : Listen(h)
         \/ Start \/ StartSteps \/ CtxCancelled
         \/ \E l \in Listeners : LoopEnds(l)
         \/ QuietStep
<1>1. ASSUME NEW l, Begins(l) \/ Handle(l) \/ Handled(l) PROVE QuietStep
  BY <1>1, Zenon DEF Begins, Handle, Handled, Move, QuietStep, Live
<1>2. ASSUME NEW c, \/ QueryArrives(c) \/ CallBegins(c) \/ CallPublishes(c)
                    \/ CallFailsToPublish(c) \/ CallAnswered(c) \/ CallTimesOut(c)
      PROVE  QuietStep
  BY <1>2, Zenon DEF QueryArrives, CallBegins, CallPublishes, CallFailsToPublish, CallAnswered,
                     CallTimesOut, Move, QuietStep, Live, loopVars
<1>3. ASSUME NEW p, QueryAnswered(p) \/ ReplyReader(p) \/ ReplyArrives(p) PROVE QuietStep
  BY <1>3, Zenon DEF QueryAnswered, ReplyReader, ReplyArrives, Move, QuietStep, Live, loopVars
<1>4. CASE QueryUnanswered \/ awaitPrimed \/ PrimingCancelled
  BY <1>4, Zenon DEF QueryUnanswered, awaitPrimed, PrimingCancelled, Move, QuietStep, Live
<1> QED
  BY <1>1, <1>2, <1>3, <1>4, Zenon DEF Next

\* The same listeners run, and the same were never started.
SameRunning ==
  /\ run' \in [Listeners -> {"none"} \cup Live \cup {"done"}]
  /\ \A l \in Listeners : (run'[l] = "none" <=> run[l] = "none") /\ (Running(l)' <=> Running(l))

\* A quiet step keeps them.
LEMMA QuietRunning ==
  ASSUME ReaderInv, QuietStep
  PROVE  SameRunning
<1>0. run \in [Listeners -> {"none"} \cup Live \cup {"done"}]
  BY Zenon DEF ReaderInv
<1>1. CASE UNCHANGED run
  BY <1>0, <1>1, Zenon DEF SameRunning, Running
<1>2. ASSUME NEW l, NEW from, NEW to, from \in Live, to \in Live, Move(l, from, to)
      PROVE  SameRunning
  <2>1. \A s \in Live : s \notin {"none", "done"}
    BY Zenon DEF Live
  <2>2. run' \in [Listeners -> {"none"} \cup Live \cup {"done"}]
    BY <1>0, <1>2, Zenon DEF Move
  <2>3. \A k \in Listeners : run'[k] = IF k = l THEN to ELSE run[k]
    BY <1>0, <1>2, Zenon DEF Move
  <2> QED
    BY <1>2, <2>1, <2>2, <2>3, Zenon DEF SameRunning, Running, Move
<1> QED
  BY <1>1, <1>2, Zenon DEF QuietStep

\* The count follows the set of the listeners that run.
LEMMA CountKept ==
  ASSUME CountInv, UNCHANGED wg, \A l \in Listeners : Running(l)' <=> Running(l)
  PROVE  CountInv'
<1>1. {l \in Listeners : Running(l)}' = {l \in Listeners : Running(l)}
  BY Zenon
<1> QED
  BY <1>1, Zenon DEF CountInv

\* A quiet step keeps the invariant.
LEMMA QuietKeeps ==
  ASSUME LifeInv, QuietStep
  PROVE  LifeInv'
<1>0. /\ UNCHANGED <<replyEnabled, handlers, started, pc, early, snapshot, topics, producer>>
      /\ UNCHANGED <<gateway, drainTimedOut, reader, wg>>
  BY Zenon DEF QuietStep, AppUnchanged, config, registryVars, startVars, endVars
<1>1. SameRunning
  BY QuietRunning, Zenon DEF LifeInv
<1>2. Wanted' = Wanted /\ collectTopicsToVerify' = collectTopicsToVerify
  BY <1>0, Zenon DEF Wanted, collectTopicsToVerify
<1>3. PcOK' /\ ResourceInv' /\ SnapshotInv'
  BY <1>0, <1>2, ZenonT(30) DEF LifeInv, PcOK, ResourceInv, SnapshotInv, Took
<1>4. CountInv'
  BY <1>0, <1>1, CountKept, Zenon DEF LifeInv, SameRunning
<1>5. Wanted \subseteq Listeners
  BY Zenon DEF LifeInv, SnapshotInv, Wanted, Listeners, ReplyL
<1>6. ReaderInv'
  BY <1>0, <1>1, <1>2, <1>5, Zenon DEF LifeInv, ReaderInv, SameRunning
<1> QED
  BY <1>3, <1>4, <1>6, Zenon DEF LifeInv

\* A listener that ends is taken off the count.
LEMMA LoopEndsKeeps ==
  ASSUME LifeInv, NEW l \in Listeners, LoopEnds(l)
  PROVE  LifeInv'
<1>0. /\ UNCHANGED <<replyEnabled, handlers, started, pc, early, snapshot, topics, producer>>
      /\ UNCHANGED <<gateway, drainTimedOut, reader>>
      /\ run[l] = "idle" /\ wg' = wg - 1 /\ run' = [run EXCEPT ![l] = "done"]
  BY Zenon DEF LoopEnds, AppUnchanged, config, registryVars, startVars, endVars
<1>1. run' \in [Listeners -> {"none"} \cup Live \cup {"done"}]
  BY <1>0, Zenon DEF LifeInv, ReaderInv
<1>2. \A k \in Listeners : run'[k] = IF k = l THEN "done" ELSE run[k]
  BY <1>0, Zenon DEF LifeInv, ReaderInv
<1>3. Wanted' = Wanted /\ collectTopicsToVerify' = collectTopicsToVerify
  BY <1>0, Zenon DEF Wanted, collectTopicsToVerify
<1>4. PcOK' /\ ResourceInv' /\ SnapshotInv'
  BY <1>0, <1>3, Zenon DEF LifeInv, PcOK, ResourceInv, SnapshotInv, Took
<1>5. CountInv'
  <2> DEFINE R == {k \in Listeners : run[k] \notin {"none", "done"}}
             Q == {k \in Listeners : run'[k] \notin {"none", "done"}}
  <2>1. IsFiniteSet(R) /\ wg = Cardinality(R)
    BY Zenon DEF LifeInv, CountInv, Running
  <2>2. l \in R /\ Q = R \ {l}
    BY <1>0, <1>2, Zenon
  <2> HIDE DEF R, Q
  <2>3. IsFiniteSet(Q) /\ wg - 1 = Cardinality(Q)
    BY <2>1, <2>2, FS_RemoveElement
  <2> QED
    BY <1>0, <2>3, Zenon DEF CountInv, Running, Q
<1>6. Wanted \subseteq Listeners
  BY Zenon DEF LifeInv, SnapshotInv, Wanted, Listeners, ReplyL
<1>7. ReaderInv'
  BY <1>0, <1>1, <1>2, <1>3, <1>6, Zenon DEF LifeInv, ReaderInv, Running
<1> QED
  BY <1>4, <1>5, <1>7, Zenon DEF LifeInv

\* A handler that is registered while Start runs takes nothing away.
LEMMA ListenKeeps ==
  ASSUME LifeInv, NEW h \in Names, Listen(h)
  PROVE  LifeInv'
<1>0. /\ UNCHANGED <<replyEnabled, started, pc, early, snapshot, topics, producer>>
      /\ UNCHANGED <<gateway, drainTimedOut, reader, run, wg>>
      /\ handlers' = handlers \cup {h}
  BY Zenon DEF Listen, config, startVars, endVars, loopVars
<1>1. Wanted' = Wanted /\ collectTopicsToVerify' = collectTopicsToVerify
  BY <1>0, Zenon DEF Wanted, collectTopicsToVerify
<1>2. PcOK' /\ ResourceInv' /\ ReaderInv'
  BY <1>0, <1>1, Zenon DEF LifeInv, PcOK, ResourceInv, ReaderInv, Running
<1>4. CountInv'
  BY <1>0, CountKept, Zenon DEF LifeInv, Running
<1>3. SnapshotInv'
  BY <1>0, <1>1, Zenon DEF LifeInv, SnapshotInv, Took
<1> QED
  BY <1>2, <1>3, <1>4, Zenon DEF LifeInv

\* Neither a cancelled context nor a stutter touches what the invariant is about.
LEMMA CancelKeeps ==
  ASSUME LifeInv, CtxCancelled \/ UNCHANGED vars
  PROVE  LifeInv'
<1>0. /\ UNCHANGED <<replyEnabled, handlers, started, pc, early, snapshot, topics, producer>>
      /\ UNCHANGED <<gateway, drainTimedOut, reader, run, wg>>
  BY Zenon DEF CtxCancelled, vars, config, registryVars, startVars, endVars, loopVars
<1>1. Wanted' = Wanted /\ collectTopicsToVerify' = collectTopicsToVerify
  BY <1>0, Zenon DEF Wanted, collectTopicsToVerify
<1>2. CountInv'
  BY <1>0, CountKept, Zenon DEF LifeInv, Running
<1>3. PcOK' /\ ResourceInv' /\ ReaderInv'
  BY <1>0, <1>1, Zenon DEF LifeInv, PcOK, ResourceInv, ReaderInv, Running
<1>4. SnapshotInv'
  BY <1>0, <1>1, Zenon DEF LifeInv, SnapshotInv, Took
<1> QED
  BY <1>2, <1>3, <1>4, Zenon DEF LifeInv
-----------------------------------------------------------------------------
(* Start.                                                                  *)

\* Start leaves the goroutines alone until it spawns them.
LEMMA LoopsKept ==
  ASSUME CountInv, UNCHANGED <<run, wg>>
  PROVE  CountInv'
BY CountKept, Zenon DEF Running

\* What Start wants depends on what it has seen.
LEMMA WantedKept ==
  ASSUME UNCHANGED <<replyEnabled, snapshot>>
  PROVE  Wanted' = Wanted /\ collectTopicsToVerify' = collectTopicsToVerify
BY Zenon DEF Wanted, collectTopicsToVerify

\* Start, the dial and the snapshots: nothing is open but the producer.
LEMMA BeginKeeps ==
  ASSUME LifeInv, Start \/ verifyDial
  PROVE  LifeInv'
<1>0. UNCHANGED <<run, wg, reader, gateway, started, drainTimedOut, handlers>>
  BY Zenon DEF Start, verifyDial, registryVars, endVars, loopVars
<1>1. /\ pc \in {"idle", "failed", "dial"} /\ pc' \in {"dial", "event", "failed"}
      /\ producer' = IF pc' = "event" THEN "open" ELSE producer
  BY ZenonT(30) DEF Start, verifyDial, Goto
<1>2. PcOK' /\ ResourceInv'
  BY <1>0, <1>1 DEF LifeInv, PcOK, ResourceInv, Unopened, Opened, Closing, NoProducer
<1>3. ReaderInv'
  BY <1>0, <1>1, Zenon DEF LifeInv, ReaderInv, Unopened, Opened, Closing
<1>4. CountInv'
  BY <1>0, LoopsKept, Zenon DEF LifeInv
<1>5. SnapshotInv'
  <2>1. snapshot' \subseteq handlers /\ early' \subseteq handlers
    BY Zenon DEF LifeInv, SnapshotInv, Start, verifyDial
  <2> QED
    BY <1>0, <1>1, <2>1, Zenon DEF LifeInv, SnapshotInv, Verified, Opened
<1> QED
  BY <1>2, <1>3, <1>4, <1>5, Zenon DEF LifeInv

\* The snapshots, in the order of the kinds.
LEMMA SnapshotKinds ==
  ASSUME NEW i \in 1..4, Snapshot(i)
  PROVE  \/ /\ pc = "event" /\ pc' = "notification"
            /\ snapshot' = snapshot \cup {h \in handlers : h[1] = "event"}
         \/ /\ pc = "notification" /\ pc' = "command"
            /\ snapshot' = snapshot \cup {h \in handlers : h[1] = "notification"}
         \/ /\ pc = "command" /\ pc' = "query"
            /\ snapshot' = snapshot \cup {h \in handlers : h[1] = "command"}
         \/ /\ pc = "query" /\ pc' = "topics"
            /\ snapshot' = snapshot \cup {h \in handlers : h[1] = "query"}
<1>1. /\ KindOrder[1] = "event" /\ KindOrder[2] = "notification" /\ KindOrder[3] = "command"
      /\ KindOrder[4] = "query"
  BY DEF KindOrder
<1>2. i = 1 \/ i = 2 \/ i = 3 \/ i = 4
  OBVIOUS
<1>3. 1 + 1 = 2 /\ 2 + 1 = 3 /\ 3 + 1 = 4 /\ 1 # 4 /\ 2 # 4 /\ 3 # 4
  OBVIOUS
<1> QED
  BY <1>1, <1>2, <1>3, Zenon DEF Snapshot, Goto

\* After its snapshot Start has seen every early handler of the kind.
LEMMA SnapshotKeeps ==
  ASSUME LifeInv, NEW i \in 1..4, Snapshot(i)
  PROVE  LifeInv'
<1>0. UNCHANGED <<run, wg, reader, gateway, started, drainTimedOut, handlers, producer, early>>
  BY Zenon DEF Snapshot, registryVars, endVars, loopVars
<1>1. /\ pc \in {"event", "notification", "command", "query"}
      /\ pc' \in {"notification", "command", "query", "topics"}
  BY SnapshotKinds, Zenon
<1>2. PcOK' /\ ResourceInv'
  BY <1>0, <1>1 DEF LifeInv, PcOK, ResourceInv, Unopened, Opened, Closing, NoProducer
<1>3. ReaderInv'
  BY <1>0, <1>1, Zenon DEF LifeInv, ReaderInv, Unopened, Opened, Closing
<1>4. CountInv'
  BY <1>0, LoopsKept, Zenon DEF LifeInv
<1>5. SnapshotInv'
  <2>1. early \subseteq handlers /\ handlers \subseteq Names /\ snapshot \subseteq handlers
    BY Zenon DEF LifeInv, SnapshotInv
  <2>2. snapshot' \subseteq handlers /\ snapshot \subseteq snapshot'
    BY <2>1, SnapshotKinds, Zenon
  <2>3. CASE pc = "event"
    BY <1>0, <2>1, <2>2, <2>3, SnapshotKinds, ZenonT(30) DEF SnapshotInv, Took, Verified, Opened
  <2>4. CASE pc = "notification"
    BY <1>0, <2>1, <2>2, <2>4, SnapshotKinds, ZenonT(30)
       DEF LifeInv, SnapshotInv, Took, Verified, Opened
  <2>5. CASE pc = "command"
    BY <1>0, <2>1, <2>2, <2>5, SnapshotKinds, ZenonT(30)
       DEF LifeInv, SnapshotInv, Took, Verified, Opened
  <2>6. CASE pc = "query"
    BY <1>0, <2>1, <2>2, <2>6, SnapshotKinds DEF LifeInv, SnapshotInv, Took, Verified, Opened
  <2> QED
    BY <1>1, <2>3, <2>4, <2>5, <2>6, Zenon
<1> QED
  BY <1>2, <1>3, <1>4, <1>5, Zenon DEF LifeInv

\* With every topic there Start goes on; else it closes the producer and fails.
LEMMA TopicsKeep ==
  ASSUME LifeInv, verifyTopics
  PROVE  LifeInv'
<1>0. /\ UNCHANGED <<run, wg, reader, gateway, started, drainTimedOut, handlers, early, snapshot>>
      /\ UNCHANGED replyEnabled /\ pc = "topics"
  BY Zenon DEF verifyTopics, registryVars, endVars, loopVars, config
<1>1. \/ /\ pc' = "open" /\ UNCHANGED producer
         /\ topics' = topics \cup (collectTopicsToVerify \ topics)
      \/ pc' = "failed" /\ producer' = "closed"
  BY Zenon DEF verifyTopics, AbandonStart, Goto
<1>2. PcOK' /\ ResourceInv'
  BY <1>0, <1>1 DEF LifeInv, PcOK, ResourceInv, Unopened, Opened, Closing, NoProducer
<1>3. ReaderInv'
  BY <1>0, <1>1, Zenon DEF LifeInv, ReaderInv, Unopened, Opened, Closing
<1>4. CountInv'
  BY <1>0, LoopsKept, Zenon DEF LifeInv
<1>5. SnapshotInv'
  BY <1>0, <1>1, WantedKept, Zenon DEF LifeInv, SnapshotInv, Took, Verified, Opened
<1> QED
  BY <1>2, <1>3, <1>4, <1>5, Zenon DEF LifeInv

\* The readers that are wanted are opened.
LEMMA OpenKeeps ==
  ASSUME LifeInv, OpenListeners
  PROVE  LifeInv'
<1>0. /\ UNCHANGED <<run, wg, gateway, started, drainTimedOut, handlers, early, snapshot>>
      /\ UNCHANGED <<replyEnabled, topics, producer>> /\ pc = "open" /\ pc' = "publish"
      /\ reader' = [l \in Listeners |-> IF l \in Wanted THEN "open" ELSE "none"]
  BY Zenon DEF OpenListeners, registryVars, endVars, config, Goto
<1>2. PcOK' /\ ResourceInv'
  BY <1>0 DEF LifeInv, PcOK, ResourceInv, Unopened, Opened, Closing, NoProducer
<1>3. ReaderInv'
  <2>1. reader' \in [Listeners -> {"none", "open", "closed"}]
    BY <1>0, Zenon
  <2>2. \A l \in Listeners : reader'[l] = IF l \in Wanted THEN "open" ELSE "none"
    BY <1>0, Zenon
  <2> QED
    BY <1>0, <2>1, <2>2, WantedKept, Zenon DEF LifeInv, ReaderInv, Unopened, Opened, Closing
<1>4. CountInv'
  BY <1>0, LoopsKept, Zenon DEF LifeInv
<1>5. SnapshotInv'
  BY <1>0, WantedKept, Zenon DEF LifeInv, SnapshotInv, Took, Verified, Opened
<1> QED
  BY <1>2, <1>3, <1>4, <1>5, Zenon DEF LifeInv

\* The gateway is published and the registry closed before any listener runs.
LEMMA PublishKeeps ==
  ASSUME LifeInv, PublishGateway \/ markStarted
  PROVE  LifeInv'
<1>0. /\ UNCHANGED <<run, wg, reader, drainTimedOut, handlers, early, snapshot>>
      /\ UNCHANGED <<replyEnabled, topics, producer>>
      /\ pc \in {"publish", "mark"} /\ pc' \in {"mark", "spawn"}
  BY Zenon DEF PublishGateway, markStarted, registryVars, endVars, config, loopVars, Goto
<1>1. /\ pc' = "mark" => gateway'
      /\ pc' = "spawn" => pc = "mark" /\ started' /\ UNCHANGED gateway
  BY Zenon DEF PublishGateway, markStarted, Goto
<1>2. PcOK' /\ ResourceInv'
  <2>1. /\ pc' \in Opened /\ pc' \notin Unopened \cup Closing \cup NoProducer \cup {"returned"}
        /\ pc \notin Unopened \cup Closing \cup NoProducer \cup {"returned"}
        /\ pc' # "ready"
    BY <1>0, <1>1 DEF Unopened, Opened, Closing, NoProducer
  <2>2. producer = "open" /\ ~drainTimedOut /\ (pc = "mark" => gateway)
    BY <2>1, Zenon DEF LifeInv, ResourceInv
  <2>3. gateway' /\ (pc' = "spawn" => started') /\ producer' = "open" /\ ~drainTimedOut'
    BY <1>0, <1>1, <2>2, Zenon
  <2> QED
    BY <2>1, <2>3, Zenon DEF PcOK, ResourceInv
<1>3. ReaderInv'
  BY <1>0, WantedKept, Zenon DEF LifeInv, ReaderInv, Unopened, Opened, Closing
<1>4. CountInv'
  BY <1>0, LoopsKept, Zenon DEF LifeInv
<1>5. SnapshotInv'
  BY <1>0, WantedKept, Zenon DEF LifeInv, SnapshotInv, Took, Verified, Opened
<1> QED
  BY <1>2, <1>3, <1>4, <1>5, Zenon DEF LifeInv

\* A spawned listener is counted before it runs.
LEMMA SpawnKeeps ==
  ASSUME LifeInv, NEW l \in Listeners, spawn(l)
  PROVE  LifeInv'
<1>0. /\ UNCHANGED <<replyEnabled, handlers, started, pc, early, snapshot, topics, producer>>
      /\ UNCHANGED <<gateway, drainTimedOut, reader>>
      /\ pc = "spawn" /\ run[l] = "none" /\ wg' = wg + 1 /\ run' = [run EXCEPT ![l] = "spawned"]
  BY Zenon DEF spawn, FirstOf, Unspawned, config, registryVars, startVars, endVars
<1>1. run' \in [Listeners -> {"none"} \cup Live \cup {"done"}]
  BY <1>0, Zenon DEF LifeInv, ReaderInv, Live
<1>2. \A k \in Listeners : run'[k] = IF k = l THEN "spawned" ELSE run[k]
  BY <1>0, Zenon DEF LifeInv, ReaderInv
<1>3. PcOK' /\ ResourceInv' /\ SnapshotInv'
  BY <1>0, WantedKept, Zenon DEF LifeInv, PcOK, ResourceInv, SnapshotInv, Took
<1>4. CountInv'
  <2> DEFINE R == {k \in Listeners : run[k] \notin {"none", "done"}}
             Q == {k \in Listeners : run'[k] \notin {"none", "done"}}
  <2>1. IsFiniteSet(R) /\ wg = Cardinality(R)
    BY Zenon DEF LifeInv, CountInv, Running
  <2>2. l \notin R /\ Q = R \cup {l}
    BY ONLY <1>0, <1>2, l \in Listeners, SMTT(20)
  <2> HIDE DEF R, Q
  <2>3. IsFiniteSet(Q) /\ wg + 1 = Cardinality(Q)
    BY <2>1, <2>2, FS_AddElement
  <2> QED
    BY <1>0, <2>3, Zenon DEF CountInv, Running, Q
<1>5. ReaderInv'
  BY <1>0, <1>1, WantedKept, Zenon DEF LifeInv, ReaderInv, Unopened, Opened, Closing
<1> QED
  BY <1>3, <1>4, <1>5, Zenon DEF LifeInv

\* Ready is closed when every wanted listener was spawned.  The drain is over when
\* none is left, or timed out.
LEMMA ReadyAndDrainKeep ==
  ASSUME LifeInv, CloseReady \/ shutdown \/ Drained \/ DrainTimesOut
  PROVE  LifeInv'
<1>0. /\ UNCHANGED <<run, wg, reader, gateway, started, handlers, early, snapshot>>
      /\ UNCHANGED <<replyEnabled, topics, producer>>
  BY Zenon DEF CloseReady, shutdown, Drained, DrainTimesOut, ShutdownStep, registryVars, endVars,
               config, loopVars
<1>1. \/ pc = "spawn" /\ pc' = "ready" /\ Unspawned = {} /\ UNCHANGED drainTimedOut
      \/ pc = "ready" /\ pc' = "drain" /\ UNCHANGED drainTimedOut
      \/ pc = "drain" /\ pc' = "close" /\ wg = 0 /\ UNCHANGED drainTimedOut
      \/ pc = "drain" /\ pc' = "close" /\ drainTimedOut'
  BY Zenon DEF CloseReady, shutdown, Drained, DrainTimesOut, endVars, Goto
<1>2. PcOK' /\ ResourceInv'
  <2>1. /\ pc' \in Opened \cup Closing /\ pc' \notin Unopened \cup NoProducer \cup {"returned"}
        /\ pc \notin Unopened \cup Closing \cup NoProducer \cup {"returned"}
    BY <1>1 DEF Unopened, Opened, Closing, NoProducer
  <2>2. producer = "open" /\ ~drainTimedOut /\ (pc = "spawn" => gateway /\ started)
    BY <2>1, Zenon DEF LifeInv, ResourceInv
  <2>3. /\ pc' \notin Closing => UNCHANGED drainTimedOut
        /\ pc' \in {"mark", "spawn", "ready"} => pc = "spawn"
    BY <1>1 DEF Closing
  <2>4. producer' = "open" /\ (pc' \in {"mark", "spawn", "ready"} => gateway' /\ started')
    BY <1>0, <2>2, <2>3, Zenon
  <2>5. pc' \notin Closing => ~drainTimedOut'
    BY <2>2, <2>3, Zenon
  <2> QED
    BY <2>1, <2>4, <2>5, Zenon DEF PcOK, ResourceInv
<1>3. wg = 0 => \A l \in Listeners : ~Running(l)
  <2> DEFINE R == {l \in Listeners : Running(l)}
  <2>1. IsFiniteSet(R) /\ wg = Cardinality(R)
    BY Zenon DEF LifeInv, CountInv
  <2> HIDE DEF R
  <2>2. wg = 0 => R = {}
    BY <2>1, FS_EmptySet, ZenonT(30)
  <2> QED
    BY <2>2, Zenon DEF R
<1>4. Wanted \subseteq Listeners
  BY Zenon DEF LifeInv, SnapshotInv, Wanted, Listeners, ReplyL
<1>5. ReaderInv'
  BY <1>0, <1>1, <1>3, <1>4, WantedKept, Zenon
     DEF LifeInv, ReaderInv, Unopened, Opened, Closing, Running, Unspawned
<1>6. CountInv'
  BY <1>0, LoopsKept, Zenon DEF LifeInv
<1>7. SnapshotInv'
  BY <1>0, <1>1, WantedKept, Zenon DEF LifeInv, SnapshotInv, Took, Verified, Opened
<1> QED
  BY <1>2, <1>5, <1>6, <1>7, Zenon DEF LifeInv

\* The readers are closed one by one, and then the producer.
LEMMA CloseKeeps ==
  ASSUME LifeInv, CloseProducer \/ \E l \in Listeners : CloseReader(l)
  PROVE  LifeInv'
<1>0. /\ UNCHANGED <<run, wg, gateway, started, handlers, early, snapshot, drainTimedOut>>
      /\ UNCHANGED <<replyEnabled, topics>> /\ pc = "close"
  BY Zenon DEF CloseProducer, CloseReader, ShutdownStep, registryVars, config
<1>1. \/ /\ pc' = "returned" /\ producer' = "closed" /\ UNCHANGED reader
         /\ \A l \in Listeners : reader[l] # "open"
      \/ /\ pc' = "close" /\ UNCHANGED producer
         /\ \E l \in Listeners : reader' = [reader EXCEPT ![l] = "closed"]
  BY <1>0, Zenon DEF CloseProducer, CloseReader, Goto, OpenReaders
<1>2. PcOK' /\ ResourceInv'
  BY <1>0, <1>1, Zenon DEF LifeInv, PcOK, ResourceInv, Unopened, Opened, Closing, NoProducer
<1>3. reader' \in [Listeners -> {"none", "open", "closed"}]
  BY <1>1, Zenon DEF LifeInv, ReaderInv
<1>4. ReaderInv'
  BY <1>0, <1>1, <1>3, Zenon DEF LifeInv, ReaderInv, Unopened, Opened, Closing, Running
<1>5. CountInv'
  BY <1>0, LoopsKept, Zenon DEF LifeInv
<1>6. SnapshotInv'
  BY <1>0, <1>1, Zenon DEF LifeInv, SnapshotInv, Took, Verified, Opened
<1> QED
  BY <1>2, <1>4, <1>5, <1>6, Zenon DEF LifeInv
-----------------------------------------------------------------------------
\* Before Start nothing is open.
LEMMA InitLife == ASSUME Init PROVE LifeInv
<1>1. \A l \in Listeners : reader[l] = "none" /\ run[l] = "none"
  BY Zenon DEF Init
<1>2. CountInv
  <2>1. {l \in Listeners : Running(l)} = {}
    BY <1>1, Zenon DEF Running
  <2> QED
    BY <2>1, FS_EmptySet, Zenon DEF CountInv, Init
<1>3. /\ reader \in [Listeners -> {"none", "open", "closed"}]
      /\ run \in [Listeners -> {"none"} \cup Live \cup {"done"}]
  BY Zenon DEF Init
<1>4. pc \in Unopened \cap NoProducer /\ pc \notin Opened \cup Closing
  BY DEF Init, Unopened, Opened, Closing, NoProducer
<1>5. PcOK /\ ResourceInv
  BY <1>4 DEF Init, PcOK, ResourceInv
<1>6. ReaderInv
  BY <1>1, <1>3, <1>4 DEF Init, ReaderInv, Closing
<1>7. SnapshotInv
  BY <1>4 DEF Init, SnapshotInv, Verified, Opened
<1> QED
  BY <1>2, <1>5, <1>6, <1>7, Zenon DEF LifeInv

\* Every step keeps the life of the app in order.
LEMMA LifeStep == ASSUME LifeInv, [Next]_vars PROVE LifeInv'
<1>1. CASE StartSteps
  BY <1>1, BeginKeeps, SnapshotKeeps, TopicsKeep, OpenKeeps, PublishKeeps, SpawnKeeps,
     ReadyAndDrainKeep, CloseKeeps, Zenon DEF StartSteps
<1> QED
  BY <1>1, StepKinds, QuietKeeps, LoopEndsKeeps, ListenKeeps, CancelKeeps, BeginKeeps, Zenon

\* What the invariant says of the three properties.
LEMMA LifeImplies ==
  ASSUME LifeInv
  PROVE  ReadyMeansServing /\ FailedStartIsClean /\ ClosedAfterDrain
<1>1. ReadyMeansServing
  <2> SUFFICES ASSUME pc = "ready", NEW h \in early
               PROVE  LET l == ListenerOf(h) IN
                        /\ reader[l] = "open" /\ run[l] # "none"
                        /\ <<l, "topic">> \in topics
                        /\ h[1] \in {"event", "command"} => <<l, "DLQ">> \in topics
    <3>1. pc = "ready" => started /\ gateway
      BY Zenon DEF LifeInv, ResourceInv
    <3> QED
      BY <3>1, Zenon DEF ReadyMeansServing
  <2>1. pc \in Opened /\ pc \in Verified
    BY Zenon DEF Opened, Verified
  <2>2. h \in snapshot /\ h \in Names
    BY <2>1, AppAssumption, Zenon DEF LifeInv, SnapshotInv, Took
  <2>3. ListenerOf(h) \in Wanted /\ ListenerOf(h) \in Listeners
    BY <2>2, Zenon DEF Wanted, Listeners
  <2>4. reader[ListenerOf(h)] = "open" /\ run[ListenerOf(h)] # "none"
    BY <2>1, <2>3, Zenon DEF LifeInv, ReaderInv
  <2>5. collectTopicsToVerify \subseteq topics
    BY <2>1, Zenon DEF LifeInv, SnapshotInv
  <2>6. <<ListenerOf(h), "topic">> \in topics
    BY <2>3, <2>5, Zenon DEF collectTopicsToVerify
  <2>7. ASSUME h[1] \in {"event", "command"} PROVE <<ListenerOf(h), "DLQ">> \in topics
    <3>1. ListenerOf(h)[1] = h[1]
      BY DEF ListenerOf, Shared
    <3>2. ListenerOf(h) \in {l \in Wanted : l[1] \in {"event", "command"}}
      BY <2>3, <2>7, <3>1, Zenon
    <3> QED
      BY <2>5, <3>2, Zenon DEF collectTopicsToVerify
  <2> QED
    BY <2>4, <2>6, <2>7, Zenon
<1>2. FailedStartIsClean
  <2> SUFFICES ASSUME pc = "failed"
               PROVE  producer # "open" /\ OpenReaders = {} /\ wg = 0 /\ ~gateway /\ ~started
    BY Zenon DEF FailedStartIsClean
  <2>1. pc \in Unopened /\ pc \in NoProducer
    BY Zenon DEF Unopened, NoProducer
  <2>2. \A l \in Listeners : reader[l] = "none" /\ run[l] = "none"
    BY <2>1, Zenon DEF LifeInv, ReaderInv
  <2>3. OpenReaders = {} /\ {l \in Listeners : Running(l)} = {}
    BY <2>2, Zenon DEF OpenReaders, Running
  <2>4. wg = 0
    BY <2>3, FS_EmptySet, Zenon DEF LifeInv, CountInv
  <2> QED
    BY <2>1, <2>3, <2>4, Zenon DEF LifeInv, ResourceInv
<1>3. ClosedAfterDrain
  <2>1. producer = "closed" => pc \in NoProducer \cup {"returned"}
    BY SMT DEF LifeInv, ResourceInv
  <2>2. NoProducer \subseteq Unopened /\ "returned" \in Closing
    BY SMT DEF NoProducer, Unopened, Closing
  <2>3. ASSUME NEW l \in Listeners, reader[l] = "closed" PROVE pc \in Closing
    BY <2>3, SMT DEF LifeInv, PcOK, ReaderInv
  <2>4. pc \in Unopened \cup Closing /\ ~drainTimedOut => \A l \in Listeners : ~Running(l)
    BY Zenon DEF LifeInv, ReaderInv, Running
  <2>5. gateway /\ producer = "closed" => OpenReaders = {}
    BY <2>1, <2>2, Zenon DEF LifeInv, ResourceInv, ReaderInv, OpenReaders
  <2> QED
    BY <2>1, <2>2, <2>3, <2>4, <2>5, Zenon DEF ClosedAfterDrain
<1> QED
  BY <1>1, <1>2, <1>3
-----------------------------------------------------------------------------
(* Queries and replies.                                                    *)

\* What a step of the app does to the queries and replies.
QueryMove ==
  \/ UNCHANGED queryVars
  \/ \E p \in Partitions : Anchor(p) \/ FetchCycle(p) \/ RouteReply(p) \/ Replies(p)
  \/ PollsPrimed(primeNum) \/ RepliesNothing
  \/ \E c \in Calls : \/ FetchQuery(c) \/ RequestReply(c, replyEnabled) \/ Publishes(c)
                      \/ PublishFails(c) \/ Answered(c) \/ TimesOut(c)

\* Every step does one of these.
LEMMA QueryMoves == ASSUME [Next]_vars PROVE QueryMove
<1>1. CASE StartSteps
  BY <1>1, Zenon
     DEF StartSteps, verifyDial, Snapshot, verifyTopics, OpenListeners, PublishGateway,
         markStarted, spawn, CloseReady, shutdown, Drained, DrainTimesOut, CloseReader,
         CloseProducer, ShutdownStep, QueryMove
<1>2. CASE \/ \E h \in Names : Listen(h)
           \/ Start \/ CtxCancelled \/ UNCHANGED vars
           \/ \E l \in Listeners : Begins(l) \/ LoopEnds(l) \/ Handle(l) \/ Handled(l)
           \/ PrimingCancelled
  BY <1>2, Zenon DEF Listen, Start, CtxCancelled, vars, Begins, LoopEnds, Handle, Handled,
                     PrimingCancelled, QueryMove
<1>3. CASE \/ \E c \in Calls : \/ QueryArrives(c) \/ CallBegins(c) \/ CallPublishes(c)
                               \/ CallFailsToPublish(c) \/ CallAnswered(c) \/ CallTimesOut(c)
           \/ \E p \in Partitions : QueryAnswered(p) \/ ReplyReader(p) \/ ReplyArrives(p)
           \/ QueryUnanswered \/ awaitPrimed
  BY <1>3, Zenon DEF QueryArrives, CallBegins, CallPublishes, CallFailsToPublish, CallAnswered,
                     CallTimesOut, QueryAnswered, ReplyReader, ReplyArrives, QueryUnanswered,
                     awaitPrimed, QueryMove
<1> QED
  BY <1>1, <1>2, <1>3, Zenon DEF Next

\* The reply listener waits for one partition at least.
PrimeOK == primeNum \in 1..Cardinality(Partitions)

\* OpenListeners takes the number of partitions, or one.
LEMMA PrimeStep ==
  ASSUME PrimeOK, [Next]_vars
  PROVE  PrimeOK'
<1>1. Cardinality(Partitions) \in Nat /\ Cardinality(Partitions) # 0
  BY QueriesAssumption, FS_CardinalityType, FS_EmptySet, ZenonT(30)
<1>2. UNCHANGED primeNum \/ primeNum' = 1 \/ primeNum' = Cardinality(Partitions)
  BY StepKinds, Zenon
     DEF Listen, Start, CtxCancelled, LoopEnds, QuietStep, AppUnchanged, vars, startVars,
         StartSteps, verifyDial, Snapshot, verifyTopics, OpenListeners, PublishGateway,
         markStarted, spawn, CloseReady, shutdown, Drained, DrainTimesOut, CloseReader,
         CloseProducer, ShutdownStep
<1> QED
  BY <1>1, <1>2 DEF PrimeOK

\* With one partition: until its reader is anchored, which the priming makes sure
\* of before the first query goes out, there is no query and no reply.
FirstInv ==
  /\ anchor \in [Partitions -> {NoOffset, 0}] /\ log \in [Partitions -> Seq(Calls)]
  /\ fetches \in Nat
  /\ \A p \in Partitions : anchor[p] = NoOffset =>
       log[p] = <<>> /\ fetches = 0 /\ ~primed /\ queries = {} /\ query = NoCall
  /\ query \in Calls \cup {NoCall}

\* Every step keeps that.
LEMMA FirstStep ==
  ASSUME \A p, q \in Partitions : p = q, PrimeOK, FirstInv, QueryMove
  PROVE  FirstInv'
<1>0. primeNum \in Nat /\ primeNum >= 1 /\ Len(<<>>) = 0 /\ NoOffset \in Int /\ NoOffset # 0
  BY FS_CardinalityType, QueriesAssumption DEF PrimeOK, NoOffset
<1>1. CASE UNCHANGED queryVars
  BY <1>1, Zenon DEF queryVars, FirstInv
<1>2. ASSUME NEW p \in Partitions, Anchor(p) PROVE FirstInv'
  <2>1. anchor' = [anchor EXCEPT ![p] = 0]
    BY <1>0, <1>2, Zenon DEF Anchor, FirstInv
  <2>2. anchor' \in [Partitions -> {NoOffset, 0}] /\ \A q \in Partitions : anchor'[q] = 0
    BY <2>1, Zenon DEF FirstInv
  <2> QED
    BY <1>0, <1>2, <2>2, Zenon DEF Anchor, FirstInv
<1>3. ASSUME NEW p \in Partitions, FetchCycle(p) PROVE FirstInv'
  <2>1. fetches' \in Nat
    BY <1>3 DEF FetchCycle, FirstInv
  <2>2. \A q \in Partitions : anchor[q] # NoOffset
    BY <1>3, Zenon DEF FetchCycle
  <2> QED
    BY <1>3, <2>1, <2>2, Zenon DEF FetchCycle, FirstInv
<1>4. ASSUME NEW p \in Partitions, Replies(p) PROVE FirstInv'
  <2>1. query \in Calls
    BY <1>4, Zenon DEF Replies, FirstInv
  <2>2. log' \in [Partitions -> Seq(Calls)]
    BY <1>4, <2>1 DEF Replies, FirstInv
  <2>3. \A q \in Partitions : anchor[q] # NoOffset
    BY <1>4, Zenon DEF Replies, FirstInv
  <2> QED
    BY <1>4, <2>2, <2>3, Zenon DEF Replies, FirstInv
<1>5. CASE PollsPrimed(primeNum)
  <2>1. primed' => fetches # 0
    <3>1. primed' => fetches >= primeNum
      BY <1>5, Zenon DEF PollsPrimed
    <3>2. fetches >= primeNum => fetches # 0
      BY <1>0 DEF FirstInv
    <3> QED
      BY <3>1, <3>2, Zenon
  <2>2. 0 \in Nat
    OBVIOUS
  <2> QED
    BY <1>5, <2>1, <2>2, Zenon DEF PollsPrimed, FirstInv
<1>6. CASE RepliesNothing \/ \E p \in Partitions : RouteReply(p)
  BY <1>6, Zenon DEF RepliesNothing, RouteReply, FirstInv
<1>7. ASSUME NEW c \in Calls,
             \/ FetchQuery(c) \/ RequestReply(c, replyEnabled) \/ Publishes(c)
             \/ PublishFails(c) \/ Answered(c) \/ TimesOut(c)
      PROVE  FirstInv'
  <2>1. CASE FetchQuery(c) \/ Publishes(c) \/ PublishFails(c)
    <3>1. \A p \in Partitions : anchor[p] # NoOffset
      BY <2>1, Zenon DEF FetchQuery, Publishes, PublishFails, FirstInv
    <3>2. query' \in Calls \cup {NoCall} /\ UNCHANGED <<anchor, log, fetches>>
      BY <2>1, Zenon DEF FetchQuery, Publishes, PublishFails, FirstInv
    <3> QED
      BY <3>1, <3>2, Zenon DEF FirstInv
  <2>2. CASE RequestReply(c, replyEnabled) \/ Answered(c) \/ TimesOut(c)
    <3>1. UNCHANGED <<anchor, log, fetches, primed, queries, query>>
      BY <2>2, Zenon DEF RequestReply, Answered, TimesOut
    <3> QED
      BY <3>1, Zenon DEF FirstInv
  <2> QED
    BY <1>7, <2>1, <2>2, Zenon
<1> QED
  BY <1>1, <1>2, <1>3, <1>4, <1>5, <1>6, <1>7, Zenon DEF QueryMove

\* A reply comes after the offset zero at which the reader was anchored.
LEMMA FirstImplies == ASSUME FirstInv PROVE NoMissedReply
<1>1. ASSUME NEW p \in Partitions, NEW i \in DOMAIN log[p]
      PROVE  anchor[p] # NoOffset /\ anchor[p] < i
  <2>1. log[p] # <<>> /\ i > 0 /\ i \in Nat
    BY <1>1 DEF FirstInv
  <2>2. anchor[p] = 0 /\ anchor[p] # NoOffset
    BY <2>1 DEF FirstInv, NoOffset
  <2> QED
    BY <2>1, <2>2
<1> QED
  BY <1>1, Zenon DEF NoMissedReply
-----------------------------------------------------------------------------
\* Once Ready is closed every handler that was registered before Start is served,
\* for any set of handlers, whatever fails or is registered meanwhile.
THEOREM ReadyServes == Spec => []ReadyMeansServing
<1>1. LifeInv => ReadyMeansServing
  BY LifeImplies, SMTT(20)
<1> QED
  BY <1>1, InitLife, LifeStep, PTL DEF Spec

\* A Start that returned an error has left nothing open and nothing running.
THEOREM FailedStartLeavesNothing == Spec => []FailedStartIsClean
<1>1. LifeInv => FailedStartIsClean
  BY LifeImplies, SMTT(20)
<1> QED
  BY <1>1, InitLife, LifeStep, PTL DEF Spec

\* Unless the drain timed out, nothing is closed under a listener that runs, and
\* the producer is closed last.
THEOREM ClosesAfterDrain == Spec => []ClosedAfterDrain
<1>1. LifeInv => ClosedAfterDrain
  BY LifeImplies
<1> QED
  BY <1>1, InitLife, LifeStep, PTL DEF Spec

\* With one partition of the reply topic no reply to a query of this instance is
\* missed.  With two it can be: two fetches of one of them prime the reader.
THEOREM OnePartitionMissesNoReply ==
  ASSUME \A p, q \in Partitions : p = q
  PROVE  Spec => []NoMissedReply
<1>1. Init => PrimeOK /\ FirstInv
  <2> SUFFICES ASSUME Init PROVE PrimeOK /\ FirstInv
    OBVIOUS
  <2>1. PrimeOK
    <3>1. Cardinality(Partitions) \in Nat /\ Cardinality(Partitions) # 0
      BY QueriesAssumption, FS_CardinalityType, FS_EmptySet, SMTT(20)
    <3> QED
      BY <3>1 DEF Init, PrimeOK
  <2>2. /\ anchor \in [Partitions -> {NoOffset, 0}] /\ log \in [Partitions -> Seq(Calls)]
        /\ \A p \in Partitions : log[p] = <<>>
    BY DEF Init, QueriesInit
  <2>3. fetches \in Nat /\ fetches = 0 /\ ~primed /\ queries = {} /\ query = NoCall
    BY DEF Init, QueriesInit
  <2> QED
    BY <2>1, <2>2, <2>3, Zenon DEF FirstInv
<1>2. PrimeOK /\ FirstInv /\ [Next]_vars => (PrimeOK /\ FirstInv)'
  BY PrimeStep, QueryMoves, FirstStep, Zenon
<1>3. PrimeOK /\ FirstInv => NoMissedReply
  BY FirstImplies, Zenon
<1> QED
  BY <1>1, <1>2, <1>3, PTL DEF Spec
=============================================================================
