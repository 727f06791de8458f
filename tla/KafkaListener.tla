--------------------------- MODULE KafkaListener ---------------------------
(***************************************************************************)
(* The event and the command listener of internal/kafka: consumerLoop      *)
(* fetches the messages of one partition in order and processMessage       *)
(* decodes, calls the handler with retries, dead-letters and commits.      *)
(* Message m has offset m - 1; committed and next count messages, so they  *)
(* are the group's committed offset and the reader's position.             *)
(*                                                                         *)
(* The broker, the reader and the writer belong to kafka-go.  A call that  *)
(* is given a done context may fail for that reason or still succeed,      *)
(* because the library selects between the two.                            *)
(***************************************************************************)
EXTENDS Naturals, Integers

CONSTANTS N,                  \* messages of the partition
          RetryLimits,        \* values of cfg.MaxRetryAttempts
          MaxCallFaults,          \* failing fetches, writes and commits
          MaxCrashes,         \* restarts of the process
          DurationBits        \* width of a time.Duration, 64 in the code

ASSUME KafkaListenerAssumption ==
  N \in Nat /\ RetryLimits \subseteq Int /\ MaxCallFaults \in Nat /\ MaxCrashes \in Nat
  /\ DurationBits \in Nat \ {0}

Messages == 1..N

VARIABLES
  class,               \* per message: decodable, and known to the registry
  MaxRetryAttempts,    \* of the configuration
  committed, next,     \* broker's committed offset, reader's position
  lpc, msg, attempt,    \* the loop: position, message, failed invocations
  stopping, callFaults, crashes,
  handled, dlq,        \* messages a handler accepted, messages dead-lettered
  left                 \* history: messages given up without a commit

inputVars == <<class, MaxRetryAttempts>>
envVars == <<inputVars, stopping, callFaults, crashes>>
listenerVars == <<envVars, committed, next, lpc, msg, attempt, handled, dlq, left>>

\* attempts in processMessage.
attempts == IF MaxRetryAttempts <= 0 THEN 1 ELSE MaxRetryAttempts

\* A signed integer of DurationBits bits, and what is left of one that overflows.
MaxDuration == 2^(DurationBits - 1) - 1
Wrap(d) == ((d + MaxDuration + 1) % 2^DurationBits) - MaxDuration - 1

\* Mutant: the overflow is not looked for.
retryBackoffOverflows(failed, initial, maxDelay) ==
  LET doubled[i \in 0..failed] == IF i = 0 THEN initial ELSE Wrap(2 * doubled[i - 1])
  IN IF initial <= 0 THEN 0
     ELSE IF \/ \E i \in 1..failed : doubled[i] >= maxDelay
             \/ doubled[failed] > maxDelay
          THEN maxDelay
          ELSE doubled[failed]

\* The loop returns from the first round that overflows or reaches the cap.
retryBackoff(failed, initial, maxDelay) ==
  LET doubled[i \in 0..failed] == IF i = 0 THEN initial ELSE Wrap(2 * doubled[i - 1])
  IN IF initial <= 0 THEN 0
     ELSE IF \/ \E i \in 1..failed : doubled[i] <= 0 \/ doubled[i] >= maxDelay
             \/ doubled[failed] > maxDelay
          THEN maxDelay
          ELSE doubled[failed]

\* Every variable keeps its type.
TypeOK ==
  /\ class \in [Messages -> {"good", "bad", "unknown"}] /\ MaxRetryAttempts \in RetryLimits
  /\ committed \in 0..N /\ next \in 0..N
  /\ lpc \in {"fetch", "decode", "handler", "backoff", "dlq", "commit", "stopped"}
  /\ msg \in 0..N /\ attempt \in 0..attempts
  /\ stopping \in BOOLEAN /\ callFaults \in 0..MaxCallFaults /\ crashes \in 0..MaxCrashes
  /\ handled \subseteq Messages /\ dlq \subseteq Messages /\ left \subseteq Messages

ListenerInit ==
  /\ class \in [Messages -> {"good", "bad", "unknown"}] /\ MaxRetryAttempts \in RetryLimits
  /\ committed = 0 /\ next = 0 /\ lpc = "fetch" /\ msg = 0 /\ attempt = 0
  /\ stopping = FALSE /\ callFaults = 0 /\ crashes = 0
  /\ handled = {} /\ dlq = {} /\ left = {}

\* A call to the broker fails, by itself or because its context is done.
BrokerCallFails ==
  /\ \/ stopping /\ UNCHANGED callFaults
     \/ callFaults < MaxCallFaults /\ callFaults' = callFaults + 1
  /\ UNCHANGED <<inputVars, stopping, crashes>>
-----------------------------------------------------------------------------
(* consumerLoop.run.                                                       *)
Fetch ==
  /\ lpc = "fetch" /\ next < N
  /\ next' = next + 1 /\ msg' = next + 1 /\ attempt' = 0 /\ lpc' = "decode"
  /\ UNCHANGED <<envVars, committed, handled, dlq, left>>

\* Mutant: every error ends the loop.
FetchFailsForGood ==
  /\ lpc = "fetch" /\ BrokerCallFails
  /\ lpc' = "stopped"
  /\ UNCHANGED <<committed, next, msg, attempt, handled, dlq, left>>

\* A failed fetch is retried, unless the context is done.
FetchFails ==
  /\ lpc = "fetch" /\ BrokerCallFails
  /\ lpc' = IF stopping THEN "stopped" ELSE "fetch"
  /\ UNCHANGED <<committed, next, msg, attempt, handled, dlq, left>>
-----------------------------------------------------------------------------
(* processMessage.                                                         *)
processFrame == <<envVars, next>>

\* Undecodable messages are dead-lettered; commands without a handler are
\* committed and dropped.
Decode ==
  /\ lpc = "decode"
  /\ lpc' = CASE class[msg] = "bad" -> "dlq"
             [] class[msg] = "unknown" -> "commit"
             [] OTHER -> "handler"
  /\ UNCHANGED <<processFrame, committed, msg, attempt, handled, dlq, left>>

\* invokeHandler returns nil.
HandlerSucceeds ==
  /\ lpc = "handler"
  /\ handled' = handled \cup {msg} /\ lpc' = "commit"
  /\ UNCHANGED <<processFrame, committed, msg, attempt, dlq, left>>

\* Mutant: one invocation too many.
HandlerFailsOnceMore ==
  /\ lpc = "handler"
  /\ attempt' = attempt + 1
  /\ lpc' = IF attempt < attempts THEN "backoff" ELSE "dlq"
  /\ UNCHANGED <<processFrame, committed, msg, handled, dlq, left>>

\* It returns an error, be it because its context ran into HandlerTimeout, or panics.
\* The call is synchronous: a handler that ignores its context need not return.
HandlerFails ==
  /\ lpc = "handler"
  /\ attempt' = attempt + 1
  /\ lpc' = IF attempt + 1 < attempts THEN "backoff" ELSE "dlq"
  /\ UNCHANGED <<processFrame, committed, msg, handled, dlq, left>>

\* The delay of retryBackoff is over before the context is done,
BackoffEnds ==
  /\ lpc = "backoff" /\ ~stopping
  /\ lpc' = "handler"
  /\ UNCHANGED <<processFrame, committed, msg, attempt, handled, dlq, left>>

\* Mutant: the shutdown commits the message it gives up.
BackoffCancelledCommits ==
  /\ lpc = "backoff" /\ stopping
  /\ lpc' = "commit"
  /\ UNCHANGED <<processFrame, committed, msg, attempt, handled, dlq, left>>

\* or cut short by it: no commit.
BackoffCancelled ==
  /\ lpc = "backoff" /\ stopping
  /\ left' = left \cup {msg} /\ lpc' = "fetch"
  /\ UNCHANGED <<processFrame, committed, msg, attempt, handled, dlq>>

DLQSucceeds ==
  /\ lpc = "dlq"
  /\ dlq' = dlq \cup {msg} /\ lpc' = "commit"
  /\ UNCHANGED <<processFrame, committed, msg, attempt, handled, left>>

\* The DLQ publish fails: no commit.
DLQFails ==
  /\ lpc = "dlq" /\ BrokerCallFails
  /\ left' = left \cup {msg} /\ lpc' = "fetch"
  /\ UNCHANGED <<next, committed, msg, attempt, handled, dlq>>

\* CommitMessages sets the group's offset behind msg,
Commit ==
  /\ lpc = "commit"
  /\ committed' = msg /\ lpc' = "fetch"
  /\ UNCHANGED <<processFrame, msg, attempt, handled, dlq, left>>

\* or fails, which is logged.
CommitFails ==
  /\ lpc = "commit" /\ BrokerCallFails /\ lpc' = "fetch"
  /\ UNCHANGED <<committed, next, msg, attempt, handled, dlq, left>>
-----------------------------------------------------------------------------
\* Start's context is cancelled.
ListenerCancelled ==
  /\ ~stopping /\ stopping' = TRUE
  /\ UNCHANGED <<inputVars, callFaults, crashes, committed, next, lpc, msg, attempt, handled,
                 dlq, left>>

\* The process ends at any point and a new one joins the group: it reads from
\* the committed offset, so what was left behind it is gone and what was left
\* above it comes again.
Restart ==
  /\ crashes < MaxCrashes /\ crashes' = crashes + 1
  /\ next' = committed /\ lpc' = "fetch" /\ msg' = 0 /\ attempt' = 0 /\ stopping' = FALSE
  /\ left' = {m \in left : m <= committed}
  /\ UNCHANGED <<inputVars, callFaults, committed, handled, dlq>>

\* What the loop does by itself, and the calls to the broker, which return.
LoopStep ==
  \/ Fetch \/ Decode \/ BackoffEnds \/ BackoffCancelled
  \/ DLQSucceeds \/ DLQFails \/ Commit \/ FetchFails \/ CommitFails

ListenerNext == LoopStep \/ HandlerSucceeds \/ HandlerFails \/ ListenerCancelled \/ Restart

ListenerSpec == ListenerInit /\ [][ListenerNext]_listenerVars

\* Nothing makes a handler return.
FairListenerSpec == ListenerSpec /\ WF_listenerVars(LoopStep)
-----------------------------------------------------------------------------
\* A handler has accepted the message, it is in the dead-letter topic, or it is
\* a command the application does not know.
Settled(m) == m \in handled \cup dlq \/ class[m] = "unknown"

\* The committed offset never passes a message that is neither handled nor
\* dead-lettered, except one that processMessage gave up without a commit in
\* this run of the process: at-least-once across crashes, failed commits and
\* shutdowns.
CommittedIsSettled == \A m \in 1..committed : Settled(m) \/ m \in left

\* Without the exception: a message given up without a commit is "redelivered".
AtLeastOnce == \A m \in 1..committed : Settled(m)

\* A message is dead-lettered only when it cannot be decoded or its handler was
\* called, and failed, MaxRetryAttempts times in a row.
DLQOnlyWhenExhausted ==
  [][\A m \in dlq' \ dlq :
       class[m] = "bad" \/ (class[m] = "good" /\ attempt = attempts)]_listenerVars

\* The delay before a retry is what exact arithmetic gives, for every pair of
\* delays that the configuration accepts: initial * 2^attempt, capped at
\* RetryMaxDelay, though the doubling of retryBackoff overflows on the way.
BackoffIsExact ==
  lpc = "backoff" => \A initial \in 1..MaxDuration : \A maxDelay \in initial..MaxDuration :
    LET exact == initial * 2^(attempt - 1) IN
    retryBackoff(attempt - 1, initial, maxDelay) = IF exact < maxDelay THEN exact ELSE maxDelay

\* Only a handler that never returns blocks the partition: otherwise, and unless the
\* application is shut down, every message is settled or given up, however often
\* handlers fail or panic and calls to the broker fail.
PartitionDrains ==
  \/ <>[](lpc = "handler")
  \/ \A m \in Messages : <>(Settled(m) \/ m \in left \/ stopping)
=============================================================================
