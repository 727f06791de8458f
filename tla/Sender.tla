------------------------------- MODULE Sender -------------------------------
(***************************************************************************)
(* The publisher of internal/rabbit/sender.go.  Several goroutines share   *)
(* one AMQP channel in confirm mode:                                       *)
(*                                                                         *)
(*   - a member of Senders is one call of SendWithConfirm, a member of     *)
(*     Notifiers one call of SendNoConfirm;                                *)
(*   - a channel is also the name of the goroutine watchChannel runs for   *)
(*     its generation; that goroutine turns into retryRebuild;             *)
(*   - a connection is also the name of the goroutine that runs Reconnect  *)
(*     once that connection is dialled (the reconnect hook), and of the    *)
(*     retryRebuild a failed Reconnect leaves behind; the goroutine of     *)
(*     FirstConn runs NewSender.                                           *)
(*                                                                         *)
(* One action is one critical section of s.mu, or one call into the AMQP   *)
(* library.  A context is done at any moment, so an action that ends a     *)
(* call with ctx.Err() has no guard on time.  The map s.pending is the set *)
(* pending of callers that have an entry, each under its own tag; sends    *)
(* and entries are in bijection because every call makes its own resultCh. *)
(***************************************************************************)
EXTENDS Naturals, FiniteSets

CONSTANTS Senders, Notifiers,   \* calls of SendWithConfirm and SendNoConfirm
          Channels, Conns,      \* AMQP channels and connections ever opened
          FirstConn,            \* the connection NewSender is given
          None,                 \* nil, and a mutex nobody holds
          MaxFaults             \* broker-made failures on a healthy connection

Messages == Senders \cup Notifiers
Workers == Channels \cup Conns

ASSUME SenderAssumption ==
  /\ Senders \cap Notifiers = {}
  /\ Channels \cap Conns = {}
  /\ FirstConn \in Conns
  /\ None \notin Messages \cup Workers
  /\ MaxFaults \in Nat

VARIABLES
  conn, connOpen,     \* Connection.conn and IsOpen()
  hooked,             \* Start has registered the sender's reconnect hook
  faults,             \* failures spent, at most MaxFaults
  ch, gen, nextTag, pending, publishSem, rebuildMu,   \* the struct Sender
  pc,                 \* where each call is
  tag,                \* the tag a call registered under
  callCh,             \* the channel a call read from s.ch
  resultCh,           \* content of the call's result channel (capacity 1)
  ret,                \* what the call returned
  chState, chConn,    \* per channel: opened or closed, and on which connection
  seq,                \* per channel: publishes the broker has counted
  seen,               \* per channel: confirms the watcher has received
  pos,                \* per message: its delivery tag at the broker, 0 if none
  verdict,            \* per message: the broker's confirm
  wpc, wgen, wreq, wch,   \* goroutines: position, gen, requireOpen, channel held
  dto, dv,            \* dispatchConfirm between unlock and the channel send
  desync              \* history: channels whose tags stopped matching nextTag

callVars == <<publishSem, pc, tag, callCh, ret>>
brokerVars == <<chConn, seq, pos, verdict>>
envVars == <<conn, connOpen, hooked, faults>>
workVars == <<wpc, wgen, wreq, wch>>
dispatchVars == <<seen, dto, dv>>
structVars == <<ch, gen, rebuildMu>>
waitVars == <<nextTag, pending, resultCh>>
vars == <<callVars, brokerVars, envVars, workVars, dispatchVars, structVars,
          waitVars, chState, desync>>

\* What a call, a goroutine and the environment leave alone.
callFrame == <<brokerVars, envVars, workVars, dispatchVars, structVars, chState,
               desync>>
workFrame == <<callVars, brokerVars, dispatchVars, desync>>
envFrame == <<callVars, workVars, dispatchVars, structVars, waitVars, desync>>

\* What a waiter can find in its resultCh, and what a call returns.
Verdicts == {"ack", "nack"}
Results == Verdicts \cup {"closed"}
Returns == Results \cup {"ctx", "unavailable"}

\* Every variable keeps its type.
TypeOK ==
  /\ conn \in Conns /\ connOpen \in BOOLEAN /\ hooked \in BOOLEAN
  /\ faults \in 0..MaxFaults
  /\ ch \in Channels \cup {None} /\ gen \in Nat /\ nextTag \in Nat
  /\ pending \subseteq Senders
  /\ publishSem \in Messages \cup {None} /\ rebuildMu \in Workers \cup {None}
  /\ pc \in [Messages -> {"idle", "registered", "waiting", "done"}]
  /\ tag \in [Senders -> Nat]
  /\ callCh \in [Messages -> Channels \cup {None}]
  /\ resultCh \in [Senders -> Results \cup {"empty"}]
  /\ ret \in [Messages -> Returns \cup {"none"}]
  /\ chState \in [Channels -> {"unopened", "open", "closed"}]
  /\ chConn \in [Channels -> Conns]
  /\ seq \in [Channels -> Nat] /\ seen \in [Channels -> Nat]
  /\ pos \in [Messages -> Nat]
  /\ verdict \in [Messages -> Verdicts \cup {"none"}]
  /\ wpc \in [Workers -> {"none", "hook", "skipped", "begin", "open", "check",
                          "install", "close", "watch", "deliver", "drained",
                          "done", "failed"}]
  /\ wgen \in [Workers -> Nat] /\ wreq \in [Workers -> BOOLEAN]
  /\ wch \in [Workers -> Channels \cup {None}]
  /\ dto \in [Channels -> Senders \cup {None}]
  /\ dv \in [Channels -> Verdicts \cup {"none"}]
  /\ desync \subseteq Channels

Init ==
  /\ conn = FirstConn /\ connOpen = TRUE /\ hooked = FALSE /\ faults = 0
  /\ ch = None /\ gen = 0 /\ nextTag = 0 /\ pending = {}
  /\ publishSem = None /\ rebuildMu = None
  /\ pc = [m \in Messages |-> "idle"]
  /\ tag = [p \in Senders |-> 0]
  /\ callCh = [m \in Messages |-> None]
  /\ resultCh = [p \in Senders |-> "empty"]
  /\ ret = [m \in Messages |-> "none"]
  /\ chState = [c \in Channels |-> "unopened"]
  /\ chConn = [c \in Channels |-> FirstConn]
  /\ seq = [c \in Channels |-> 0] /\ seen = [c \in Channels |-> 0]
  /\ pos = [m \in Messages |-> 0]
  /\ verdict = [m \in Messages |-> "none"]
  /\ wpc = [w \in Workers |-> IF w = FirstConn THEN "begin" ELSE "none"]
  /\ wgen = [w \in Workers |-> 0] /\ wreq = [w \in Workers |-> FALSE]
  /\ wch = [w \in Workers |-> None]
  /\ dto = [c \in Channels |-> None] /\ dv = [c \in Channels |-> "none"]
  /\ desync = {}
-----------------------------------------------------------------------------
(* failPendingLocked and the calls of the application.                     *)

\* Mutant: the drain deletes the entries without sending the error.
failPendingSilent == pending' = {} /\ nextTag' = 0 /\ UNCHANGED resultCh

\* Every waiter with an entry gets the transient error, unless its channel
\* already holds a result; the map is emptied and the tag counter restarts.
failPendingLocked ==
  /\ resultCh' = [p \in Senders |-> IF p \in pending /\ resultCh[p] = "empty"
                                    THEN "closed" ELSE resultCh[p]]
  /\ pending' = {}
  /\ nextTag' = 0

\* The application holds a *Sender only once NewSender has returned it.
Constructed == wpc[FirstConn] = "done"

\* acquirePublishSlot gave up: the context ended while the slot was taken.
AcquireTimeout(m) ==
  /\ Constructed /\ pc[m] = "idle"
  /\ pc' = [pc EXCEPT ![m] = "done"]
  /\ ret' = [ret EXCEPT ![m] = "ctx"]
  /\ UNCHANGED <<publishSem, tag, callCh, waitVars, callFrame>>

\* Mutant: the slot is released before the publish.
RegisterReleasingSlot(p) ==
  /\ Constructed /\ pc[p] = "idle" /\ publishSem = None
  /\ nextTag' = nextTag + 1
  /\ tag' = [tag EXCEPT ![p] = nextTag + 1]
  /\ pending' = {q \in pending : tag[q] # nextTag + 1} \cup {p}
  /\ callCh' = [callCh EXCEPT ![p] = ch]
  /\ pc' = [pc EXCEPT ![p] = "registered"]
  /\ UNCHANGED <<publishSem, resultCh, ret, callFrame>>

\* SendWithConfirm takes the slot and registers its entry in s.pending.  The
\* map assignment overwrites an entry already kept under the same tag.
Register(p) ==
  /\ Constructed /\ pc[p] = "idle" /\ publishSem = None
  /\ publishSem' = p
  /\ nextTag' = nextTag + 1
  /\ tag' = [tag EXCEPT ![p] = nextTag + 1]
  /\ pending' = {q \in pending : tag[q] # nextTag + 1} \cup {p}
  /\ callCh' = [callCh EXCEPT ![p] = ch]
  /\ pc' = [pc EXCEPT ![p] = "registered"]
  /\ UNCHANGED <<resultCh, ret, callFrame>>

\* Mutant: the counter is decremented whether or not the entry survived.
rollbackTagBlindly(p) == pending' = pending \ {p} /\ nextTag' = nextTag - 1

\* rollbackTag: undo the registration if the entry is still the call's own.
rollbackTag(p) ==
  /\ pending' = pending \ {p}
  /\ nextTag' = IF p \in pending /\ nextTag = tag[p] THEN nextTag - 1
                                                     ELSE nextTag

\* The call ends between registering and publishing: its context is done, or
\* the publish returned an error (always possible, and certain on a channel
\* that cannot publish).  It rolls its tag back, then frees the slot.
SendAborted(p, why) ==
  /\ pc[p] = "registered"
  /\ rollbackTag(p)
  /\ publishSem' = None
  /\ pc' = [pc EXCEPT ![p] = "done"]
  /\ ret' = [ret EXCEPT ![p] = why]
  /\ UNCHANGED <<resultCh, tag, callCh, callFrame>>

\* A publish reaches the broker only on an open channel of an open connection.
Usable(c) == chState[c] = "open" /\ connOpen /\ chConn[c] = conn

\* The broker counts every publish on a channel in confirm mode.
BrokerCounts(m, c) ==
  /\ Usable(c)
  /\ seq' = [seq EXCEPT ![c] = @ + 1]
  /\ pos' = [pos EXCEPT ![m] = seq[c] + 1]
  /\ UNCHANGED <<chConn, verdict>>

\* The publish of SendWithConfirm succeeds on the channel the call read when
\* it registered; the slot is free again and the call waits for its confirm.
Publish(p) ==
  /\ pc[p] = "registered"
  /\ callCh[p] # None /\ BrokerCounts(p, callCh[p])
  /\ publishSem' = None
  /\ pc' = [pc EXCEPT ![p] = "waiting"]
  /\ UNCHANGED <<tag, callCh, ret, envVars, workVars, dispatchVars,
                 structVars, waitVars, chState, desync>>

\* The waiter is released through its resultCh.
ReturnResult(p) ==
  /\ pc[p] = "waiting" /\ resultCh[p] # "empty"
  /\ pc' = [pc EXCEPT ![p] = "done"]
  /\ ret' = [ret EXCEPT ![p] = resultCh[p]]
  /\ UNCHANGED <<publishSem, tag, callCh, waitVars, callFrame>>

\* The waiter's context ends first; it drops its own entry from s.pending.
ReturnTimeout(p) ==
  /\ pc[p] = "waiting"
  /\ pending' = pending \ {p}
  /\ pc' = [pc EXCEPT ![p] = "done"]
  /\ ret' = [ret EXCEPT ![p] = "ctx"]
  /\ UNCHANGED <<publishSem, tag, callCh, nextTag, resultCh, callFrame>>
-----------------------------------------------------------------------------
(* SendNoConfirm.                                                          *)

\* It takes the same slot and reads s.ch, but registers no tag.
NotifyAcquire(n) ==
  /\ Constructed /\ pc[n] = "idle" /\ publishSem = None
  /\ publishSem' = n
  /\ callCh' = [callCh EXCEPT ![n] = ch]
  /\ pc' = [pc EXCEPT ![n] = "registered"]
  /\ UNCHANGED <<tag, ret, waitVars, callFrame>>

\* The publish succeeds: the broker counts it, nextTag does not.
NotifyPublish(n) ==
  /\ pc[n] = "registered"
  /\ callCh[n] # None /\ BrokerCounts(n, callCh[n])
  /\ publishSem' = None
  /\ pc' = [pc EXCEPT ![n] = "done"]
  /\ desync' = desync \cup {callCh[n]}
  /\ UNCHANGED <<tag, callCh, ret, envVars, workVars, dispatchVars,
                 structVars, waitVars, chState>>

\* The publish returns an error.
NotifyFails(n) ==
  /\ pc[n] = "registered"
  /\ publishSem' = None
  /\ pc' = [pc EXCEPT ![n] = "done"]
  /\ ret' = [ret EXCEPT ![n] = "unavailable"]
  /\ UNCHANGED <<tag, callCh, waitVars, callFrame>>
-----------------------------------------------------------------------------
(* rebuild(expectedGen, requireOpen), run by goroutine w with expectedGen  *)
(* = wgen[w] and requireOpen = wreq[w].  It holds rebuildMu throughout.    *)

\* Another rebuild already moved the generation on, or the connection is down
\* while requireOpen asks for it: (false, nil) ends the goroutine.
RebuildSuperseded(w) ==
  gen # wgen[w] \/ (wreq[w] /\ ~connOpen)

\* Also the end of the sleep of retryRebuild.  gen only changes under
\* rebuildMu, so reading it and connOpen() is one step.
RebuildBegin(w) ==
  /\ wpc[w] = "begin" /\ rebuildMu = None
  /\ IF RebuildSuperseded(w)
     THEN wpc' = [wpc EXCEPT ![w] = "done"] /\ UNCHANGED rebuildMu
     ELSE wpc' = [wpc EXCEPT ![w] = "open"] /\ rebuildMu' = w
  /\ UNCHANGED <<wgen, wreq, wch, ch, gen, envVars, waitVars, chState, workFrame>>

\* The name the next channel gets; names carry no meaning, so one will do.
FreshChannel == CHOOSE c \in Channels : chState[c] = "unopened"

\* openCh: a fresh channel in confirm mode on the current connection.
RebuildOpen(w, c) ==
  /\ wpc[w] = "open" /\ connOpen /\ chState[c] = "unopened" /\ c = FreshChannel
  /\ chState' = [chState EXCEPT ![c] = "open"]
  /\ chConn' = [chConn EXCEPT ![c] = conn]
  /\ wch' = [wch EXCEPT ![w] = c]
  /\ wpc' = [wpc EXCEPT ![w] = "check"]
  /\ UNCHANGED <<wgen, wreq, seq, pos, verdict, callVars, envVars,
                 dispatchVars, structVars, waitVars, desync>>

\* Mutant: a failed attempt is not retried.
RebuildFailsForGood(w) ==
  /\ rebuildMu' = None
  /\ wpc' = [wpc EXCEPT ![w] = IF wgen[w] = 0 THEN "failed" ELSE "done"]
  /\ wreq' = [wreq EXCEPT ![w] = TRUE]
  /\ wch' = [wch EXCEPT ![w] = None]
  /\ UNCHANGED <<wgen, ch, gen, waitVars, chState, workFrame>>

\* rebuild returns an error.  NewSender hands it to Start; Reconnect leaves
\* retryRebuild behind; retryRebuild sleeps and tries again.
RebuildFails(w) ==
  /\ rebuildMu' = None
  /\ wpc' = [wpc EXCEPT ![w] = IF wgen[w] = 0 THEN "failed" ELSE "begin"]
  /\ wreq' = [wreq EXCEPT ![w] = TRUE]
  /\ wch' = [wch EXCEPT ![w] = None]
  /\ UNCHANGED <<wgen, ch, gen, waitVars, chState, workFrame>>

\* openCh fails: the connection is down, or the broker refuses the channel.
RebuildOpenFails(w) ==
  /\ wpc[w] = "open"
  /\ RebuildFails(w)
  /\ \/ ~connOpen /\ UNCHANGED faults
     \/ connOpen /\ faults < MaxFaults /\ faults' = faults + 1
  /\ UNCHANGED <<conn, connOpen, hooked>>

\* ch.IsClosed() after the listeners are registered.
RebuildCheck(w) ==
  /\ wpc[w] = "check"
  /\ IF chState[wch[w]] = "closed"
     THEN RebuildFails(w)
     ELSE /\ wpc' = [wpc EXCEPT ![w] = "install"]
          /\ UNCHANGED <<wgen, wreq, wch, structVars, waitVars, chState, workFrame>>
  /\ UNCHANGED envVars

\* Mutant: a superseded rebuild forgets to close the channel it opened.
RebuildInstallLeaking(w) ==
  /\ wpc[w] = "install"
  /\ IF RebuildSuperseded(w)
     THEN /\ wpc' = [wpc EXCEPT ![w] = "done"]
          /\ wch' = [wch EXCEPT ![w] = None]
          /\ rebuildMu' = None
          /\ UNCHANGED <<ch, gen, wgen, waitVars, chState>>
     ELSE /\ failPendingLocked
          /\ ch' = wch[w]
          /\ wch' = [wch EXCEPT ![w] = ch]
          /\ gen' = gen + 1
          /\ wgen' = [wgen EXCEPT ![wch[w]] = gen + 1]
          /\ wpc' = [wpc EXCEPT ![w] = "close"]
          /\ UNCHANGED <<rebuildMu, chState>>
  /\ UNCHANGED <<wreq, envVars, workFrame>>

\* Under s.mu: give the new channel up, or make it the current one.  From here
\* on wch[w] is the channel it replaced.
RebuildInstall(w) ==
  /\ wpc[w] = "install"
  /\ IF RebuildSuperseded(w)
     THEN /\ chState' = [chState EXCEPT ![wch[w]] = "closed"]
          /\ wpc' = [wpc EXCEPT ![w] = "done"]
          /\ wch' = [wch EXCEPT ![w] = None]
          /\ rebuildMu' = None
          /\ UNCHANGED <<ch, gen, wgen, waitVars>>
     ELSE /\ failPendingLocked
          /\ ch' = wch[w]
          /\ wch' = [wch EXCEPT ![w] = ch]
          /\ gen' = gen + 1
          /\ wgen' = [wgen EXCEPT ![wch[w]] = gen + 1]
          /\ wpc' = [wpc EXCEPT ![w] = "close"]
          /\ UNCHANGED <<rebuildMu, chState>>
  /\ UNCHANGED <<wreq, envVars, workFrame>>

\* Close the replaced channel if it is not closed, start the watcher of the
\* new one and return.
RebuildFinish(w) ==
  /\ wpc[w] = "close"
  /\ chState' = [c \in Channels |-> IF c = wch[w] THEN "closed" ELSE chState[c]]
  /\ wpc' = [wpc EXCEPT ![w] = "done", ![ch] = "watch"]
  /\ wch' = [wch EXCEPT ![w] = None]
  /\ wreq' = [wreq EXCEPT ![ch] = TRUE]
  /\ rebuildMu' = None
  /\ UNCHANGED <<ch, gen, wgen, envVars, waitVars, workFrame>>
-----------------------------------------------------------------------------
(* watchChannel of channel c, whose generation is wgen[c].                 *)

\* dispatchConfirm under s.mu: the next confirm of the channel, in tag order,
\* takes the entry kept under its tag.  A confirm of an older generation, or
\* without an entry, is dropped.
DispatchConfirm(c, m) ==
  /\ wpc[c] = "watch"
  /\ callCh[m] = c /\ pos[m] = seen[c] + 1 /\ verdict[m] # "none"
  /\ seen' = [seen EXCEPT ![c] = @ + 1]
  /\ LET owners == {p \in pending : gen = wgen[c] /\ tag[p] = seen[c] + 1}
     IN \/ /\ owners = {}
           /\ UNCHANGED <<pending, dto, dv, wpc>>
        \/ \E p \in owners :
             /\ pending' = pending \ {p}
             /\ dto' = [dto EXCEPT ![c] = p]
             /\ dv' = [dv EXCEPT ![c] = verdict[m]]
             /\ wpc' = [wpc EXCEPT ![c] = "deliver"]
  /\ UNCHANGED <<wgen, wreq, wch, nextTag, resultCh, callVars, brokerVars,
                 envVars, structVars, chState, desync>>

\* dispatchConfirm after the unlock: the send blocks while the buffer is full.
Deliver(c) ==
  /\ wpc[c] = "deliver" /\ resultCh[dto[c]] = "empty"
  /\ resultCh' = [resultCh EXCEPT ![dto[c]] = dv[c]]
  /\ dto' = [dto EXCEPT ![c] = None]
  /\ dv' = [dv EXCEPT ![c] = "none"]
  /\ wpc' = [wpc EXCEPT ![c] = "watch"]
  /\ UNCHANGED <<wgen, wreq, wch, seen, nextTag, pending, callVars,
                 brokerVars, envVars, structVars, chState, desync>>

\* Mutant: the watcher leaves the waiters of a dead channel to somebody else.
onChannelClosedUndrained(c) ==
  /\ wpc[c] = "watch" /\ chState[c] = "closed"
  /\ wpc' = [wpc EXCEPT ![c] = IF gen # wgen[c] THEN "done" ELSE "drained"]
  /\ UNCHANGED <<wgen, wreq, wch, envVars, structVars, waitVars, chState, workFrame>>

\* onChannelClosed under s.mu.  The two listeners of a closed channel race
\* with the confirms still buffered.
onChannelClosed(c) ==
  /\ wpc[c] = "watch" /\ chState[c] = "closed"
  /\ IF gen # wgen[c]
     THEN wpc' = [wpc EXCEPT ![c] = "done"] /\ UNCHANGED waitVars
     ELSE wpc' = [wpc EXCEPT ![c] = "drained"] /\ failPendingLocked
  /\ UNCHANGED <<wgen, wreq, wch, envVars, structVars, chState, workFrame>>

\* onChannelClosed after the unlock: self-heal only on a healthy connection.
SelfHeal(c) ==
  /\ wpc[c] = "drained"
  /\ wpc' = [wpc EXCEPT ![c] = IF connOpen THEN "begin" ELSE "done"]
  /\ UNCHANGED <<wgen, wreq, wch, envVars, structVars, waitVars, chState, workFrame>>
-----------------------------------------------------------------------------
(* Reconnect, and what the rest of the program and the broker do.          *)

\* Mutant: Reconnect does not read the generation it is to replace.
ReconnectUnread(k) ==
  /\ wpc[k] = "hook"
  /\ IF hooked
     THEN /\ failPendingLocked
          /\ wpc' = [wpc EXCEPT ![k] = "begin"]
          /\ desync' = desync \cup {c \in Channels : c = ch /\ Usable(c)}
     ELSE wpc' = [wpc EXCEPT ![k] = "skipped"] /\ UNCHANGED <<waitVars, desync>>
  /\ UNCHANGED <<wgen, wreq, wch, callVars, brokerVars, envVars, dispatchVars,
                 structVars, chState>>

\* Reconnect under s.mu, as the reconnect hook of connection k.  A reconnect
\* that copies the hook list before Start has filled it runs no hook.
Reconnect(k) ==
  /\ wpc[k] = "hook"
  /\ IF hooked
     THEN /\ failPendingLocked
          /\ wgen' = [wgen EXCEPT ![k] = gen]
          /\ wpc' = [wpc EXCEPT ![k] = "begin"]
          /\ desync' = desync \cup {c \in Channels : c = ch /\ Usable(c)}
     ELSE wpc' = [wpc EXCEPT ![k] = "skipped"] /\ UNCHANGED <<waitVars, wgen, desync>>
  /\ UNCHANGED <<wreq, wch, callVars, brokerVars, envVars, dispatchVars,
                 structVars, chState>>

\* Start registers the hook some time after NewSender has returned.
OnReconnect ==
  /\ Constructed /\ ~hooked
  /\ hooked' = TRUE
  /\ UNCHANGED <<conn, connOpen, faults, brokerVars, chState, envFrame>>

ConnectionDrops ==
  /\ connOpen
  /\ connOpen' = FALSE
  /\ UNCHANGED <<conn, hooked, faults, brokerVars, chState, envFrame>>

\* reconnectLoop stores a new connection; its hooks run later.
ConnectionRestored(k) ==
  /\ ~connOpen /\ wpc[k] = "none"
  /\ conn' = k /\ connOpen' = TRUE
  /\ wpc' = [wpc EXCEPT ![k] = "hook"]
  /\ UNCHANGED <<hooked, faults, wgen, wreq, wch, structVars, waitVars,
                 chState, workFrame>>

\* The library shuts the channels of a dead connection down one by one.
ChannelShutdown(c) ==
  /\ chState[c] = "open" /\ ~Usable(c)
  /\ chState' = [chState EXCEPT ![c] = "closed"]
  /\ UNCHANGED <<envVars, brokerVars, envFrame>>

\* The broker closes a channel of a healthy connection.
ChannelClosedByBroker(c) ==
  /\ Usable(c)
  /\ faults < MaxFaults
  /\ faults' = faults + 1
  /\ chState' = [chState EXCEPT ![c] = "closed"]
  /\ UNCHANGED <<conn, connOpen, hooked, brokerVars, envFrame>>

\* The broker confirms a message; the library hands confirms out in tag order.
BrokerConfirms(m, v) ==
  /\ pos[m] > 0 /\ verdict[m] = "none"
  /\ Usable(callCh[m])
  /\ verdict' = [verdict EXCEPT ![m] = v]
  /\ UNCHANGED <<chConn, seq, pos, envVars, chState, envFrame>>
-----------------------------------------------------------------------------
CallStep(p) ==
  \/ Register(p) \/ Publish(p) \/ ReturnResult(p) \/ ReturnTimeout(p)
  \/ \E why \in {"ctx", "unavailable"} : SendAborted(p, why)

NotifyStep(n) == NotifyAcquire(n) \/ NotifyPublish(n) \/ NotifyFails(n)

RebuildStep(w) ==
  \/ RebuildBegin(w) \/ RebuildOpenFails(w) \/ RebuildCheck(w)
  \/ RebuildInstall(w) \/ RebuildFinish(w)
  \/ \E c \in Channels : RebuildOpen(w, c)

WatchStep(c) ==
  \/ Deliver(c) \/ onChannelClosed(c) \/ SelfHeal(c)
  \/ \E m \in Messages : DispatchConfirm(c, m)

EnvironmentStep ==
  \/ OnReconnect \/ ConnectionDrops
  \/ \E k \in Conns : ConnectionRestored(k)
  \/ \E c \in Channels : ChannelShutdown(c) \/ ChannelClosedByBroker(c)
  \/ \E m \in Messages, v \in Verdicts : BrokerConfirms(m, v)

Next ==
  \/ \E m \in Messages : AcquireTimeout(m)
  \/ \E p \in Senders : CallStep(p)
  \/ \E n \in Notifiers : NotifyStep(n)
  \/ \E w \in Workers : RebuildStep(w)
  \/ \E c \in Channels : WatchStep(c)
  \/ \E k \in Conns : Reconnect(k)
  \/ EnvironmentStep

Spec == Init /\ [][Next]_vars
-----------------------------------------------------------------------------
(* Safety.                                                                 *)

\* Call p has an entry in s.pending, or its result is in the buffer, or a
\* watcher has taken the entry and is about to send.
Releasable(p) ==
  \/ p \in pending
  \/ resultCh[p] # "empty"
  \/ \E c \in Channels : wpc[c] = "deliver" /\ dto[c] = p

\* A caller blocked on its resultCh can always still be released: no drain,
\* rollback, confirm or overwrite removes its entry and forgets about it.
NoLostWaiter == \A p \in Senders : pc[p] = "waiting" => Releasable(p)

\* What rollbackTag relies on: entries have distinct tags not above nextTag, so
\* registering never overwrites one, and an entry still owned by the holder of
\* the publish slot implies that nextTag is still its tag.
TagDiscipline ==
  /\ \A p \in pending : tag[p] \in 1..nextTag
  /\ \A p, q \in pending : tag[p] = tag[q] => p = q
  /\ \A p \in pending : pc[p] = "registered" => tag[p] = nextTag

\* A confirm is only ever handed to a call that read the very channel the
\* confirm came from: confirms of a superseded generation release nobody, and
\* the send to resultCh, made outside every lock, finds the buffer empty, so it
\* never blocks the watcher.
ConfirmFromOwnChannel ==
  \A c \in Channels : wpc[c] = "deliver" =>
    /\ callCh[dto[c]] = c
    /\ resultCh[dto[c]] = "empty"
    /\ dto[c] \notin pending

\* No publisher channel leaks: an open channel is the current one, or a rebuild
\* in progress holds it and will install or close it.
NoChannelLeak ==
  \A c \in Channels : chState[c] = "open" =>
    c = ch \/ (rebuildMu # None /\ wch[rebuildMu] = c)

\* Goroutine w will look at the current generation again.
Owner(w) ==
  \/ wpc[w] \in {"hook", "close"}
  \/ /\ wpc[w] \in {"watch", "deliver", "drained", "begin", "open", "check", "install"}
     /\ wgen[w] = gen

\* "Another owner is responsible for recovery" (retryRebuild): whenever the
\* connection is open, some goroutine is in charge of the current generation,
\* however rebuilds, watchers and hooks give up on each other.  The exception is
\* a reconnect that found no hook registered.
RecoveryOwned ==
  Constructed /\ connOpen /\ (\A k \in Conns : wpc[k] # "skipped")
    => \E w \in Workers : Owner(w)

\* A SendWithConfirm that returns nil had its own message acknowledged by the
\* broker, unless on its channel a notification was published or Reconnect
\* restarted the tag counter while the channel was open.
ConfirmedMeansAcked ==
  \A p \in Senders : ret[p] = "ack" /\ callCh[p] \notin desync => verdict[p] = "ack"

\* Without the exception: every call "either has the message confirmed by the
\* broker or returns an error".
SendOrError ==
  \A p \in Senders : ret[p] = "ack" => verdict[p] = "ack"
-----------------------------------------------------------------------------
(* Liveness.  Goroutines run; a sleep, an RPC and a publish end; the AMQP  *)
(* library shuts the channels of a dead connection down; the broker        *)
(* confirms what it received.  No context has to end and no connection has *)
(* to come back.                                                           *)
FairSpec ==
  /\ Spec
  /\ \A w \in Workers : WF_vars(RebuildStep(w))
  /\ \A c \in Channels : WF_vars(WatchStep(c)) /\ WF_vars(ChannelShutdown(c))
  /\ \A k \in Conns : WF_vars(Reconnect(k))
  /\ WF_vars(OnReconnect)
  /\ \A p \in Senders :
       /\ WF_vars(Publish(p) \/ SendAborted(p, "unavailable"))
       /\ WF_vars(ReturnResult(p))
  /\ \A n \in Notifiers : WF_vars(NotifyPublish(n) \/ NotifyFails(n))
  /\ \A m \in Messages : WF_vars(\E v \in Verdicts : BrokerConfirms(m, v))

\* The sender can publish: its channel is open on the current connection.
CanPublish == ch # None /\ Usable(ch)

\* A published send whose context never ends still returns: it is confirmed,
\* or whoever resets the channel releases it.
SendsReturn ==
  \A p \in Senders : pc[p] = "waiting" ~> pc[p] = "done"

\* Once the broker stops failing, an open connection comes with a working
\* publisher channel, whichever of hook, watcher and retry loop rebuilds it,
\* provided every reconnect found the hook registered.
PublisherRecovers ==
  <>[](Constructed /\ connOpen /\ (\A k \in Conns : wpc[k] # "skipped")
         => CanPublish)
=============================================================================
