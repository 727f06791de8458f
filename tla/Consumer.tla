------------------------------ MODULE Consumer ------------------------------
(***************************************************************************)
(* One listener of the application: the supervised consumer of             *)
(* internal/rabbit/consumer.go, the restore goroutines that the reconnect  *)
(* hook of internal/rabbit/application.go starts, and the shutdown of      *)
(* Start.  Every call of start gets the next generation; the call and the  *)
(* supervisor it launches share the generation, the stop channel and the   *)
(* done channel, so a generation names all of them.  Restore 0 is the      *)
(* bringUpConsumers of Start itself, restore r the goroutine that the      *)
(* hook of the r-th reconnect starts.                                      *)
(*                                                                         *)
(* One action is one critical section of mu or stateMu, one select, or one *)
(* call into the AMQP library.  The other listeners of the application run *)
(* the same code; they appear only as the reason why an attempt fails.     *)
(***************************************************************************)
EXTENDS Naturals, FiniteSets

CONSTANTS MaxStarts,    \* calls of start
          MaxDrops,     \* losses of the connection
          MaxFaults     \* broker-made failures on a healthy connection

ASSUME ConsumerAssumption ==
  MaxStarts \in Nat /\ MaxDrops \in Nat /\ MaxFaults \in Nat

Gens == 1..MaxStarts
Restores == 0..MaxDrops

VARIABLES
  connOpen, drops, faults,   \* IsOpen(), and the failures spent
  runGen,        \* c.runGen; c.stop and c.done are those of this generation
  stop, done,    \* generations whose stop, whose done channel is closed
  state,         \* the health snapshot's State
  pc,            \* per generation: where start, then supervise, is
  chan,          \* per generation: the consumer channel it holds
  timedOut,      \* history: starts that ran into supersedeWait
  wg,            \* the generations counted in shutdownWg
  rpc, rgen, rstart,   \* restores: position, gen, the start awaited
  restoreGen,    \* a.restoreGen
  hooked,        \* Start has registered the reconnect hooks
  ctxDone, shuttingDown,
  mpc,           \* Start
  dpc            \* the goroutine of Start that waits for the two WaitGroups

connVars == <<connOpen, drops, faults>>
healthVars == <<runGen, stop, done, state>>
supVars == <<pc, chan, timedOut, wg>>
restoreVars == <<rpc, rgen, rstart, restoreGen>>
appVars == <<hooked, ctxDone, shuttingDown, mpc, dpc>>
vars == <<connVars, healthVars, supVars, restoreVars, appVars>>

\* A call of start that has not returned, a supervisor that has not exited.
Starting == {"wait", "open", "check"}
Supervising == {"top", "run", "dispatch", "died", "backoff", "topology", "reopen",
                "recheck", "exit", "released"}
\* Where a generation may stay for more than the thirty seconds of supersedeWait
\* and of the shutdown deadline: in a handler, or in a call to the broker.
LongSteps == {"open", "dispatch", "topology", "reopen"}
\* A restore goroutine counted in restoreWg.
Restoring == {"try", "declare", "start", "starting", "others", "failed", "backoff"}

\* Every variable keeps its type.
TypeOK ==
  /\ connOpen \in BOOLEAN /\ drops \in 0..MaxDrops /\ faults \in 0..MaxFaults
  /\ runGen \in 0..MaxStarts
  /\ stop \subseteq Gens /\ done \subseteq Gens
  /\ state \in {"running", "rebuilding", "stopped"}
  /\ pc \in [Gens -> {"none", "abandoned", "exited"} \cup Starting \cup Supervising]
  /\ chan \in [Gens -> {"none", "open", "dead"}]
  /\ timedOut \subseteq Gens /\ wg \subseteq Gens
  /\ rpc \in [Restores -> {"none", "hook", "skipped", "refused", "done"} \cup Restoring]
  /\ rgen \in [Restores -> Nat] /\ restoreGen \in Nat
  /\ rstart \in [Restores -> 0..MaxStarts]
  /\ hooked \in BOOLEAN /\ ctxDone \in BOOLEAN /\ shuttingDown \in BOOLEAN
  /\ mpc \in {"boot", "serving", "draining", "closing", "returned"}
  /\ dpc \in {"none", "restores", "supervisors", "done"}

\* The connection is up and Start calls bringUpConsumers.
Init ==
  /\ connOpen = TRUE /\ drops = 0 /\ faults = 0
  /\ runGen = 0 /\ stop = {} /\ done = {} /\ state = "stopped"
  /\ pc = [g \in Gens |-> "none"] /\ chan = [g \in Gens |-> "none"]
  /\ timedOut = {} /\ wg = {}
  /\ rpc = [r \in Restores |-> IF r = 0 THEN "declare" ELSE "none"]
  /\ rgen = [r \in Restores |-> 0] /\ rstart = [r \in Restores |-> 0]
  /\ restoreGen = 0
  /\ hooked = FALSE /\ ctxDone = FALSE /\ shuttingDown = FALSE
  /\ mpc = "boot" /\ dpc = "none"

\* Mutant: no generation check.
setHealthAnyGen(g, s) == state' = s

\* setHealthForGen: only the newest generation is heard.
setHealthForGen(g, s) == state' = IF runGen = g THEN s ELSE state

\* An AMQP call fails because the connection is down, or the broker refuses it.
CallFails ==
  /\ \/ ~connOpen /\ UNCHANGED faults
     \/ connOpen /\ faults < MaxFaults /\ faults' = faults + 1
  /\ UNCHANGED <<connOpen, drops>>
-----------------------------------------------------------------------------
(* start.  It returns to the restore that called it.                       *)

\* The restore that waits for start g sees its result.
Return(g, result) ==
  rpc' = [r \in Restores |-> IF rpc[r] = "starting" /\ rstart[r] = g
                             THEN result ELSE rpc[r]]

\* Under mu: supersede the previous generation and take the next one.
start(r) ==
  /\ rpc[r] = "start" /\ runGen < MaxStarts
  /\ stop' = stop \cup ({runGen} \cap Gens)
  /\ runGen' = runGen + 1
  /\ state' = "rebuilding"
  /\ pc' = [pc EXCEPT ![runGen + 1] = IF runGen = 0 THEN "open" ELSE "wait"]
  /\ rpc' = [rpc EXCEPT ![r] = "starting"]
  /\ rstart' = [rstart EXCEPT ![r] = runGen + 1]
  /\ UNCHANGED <<done, chan, timedOut, wg, rgen, restoreGen, connVars, appVars>>

\* Mutant: open the new consumer at once.
StartProceedsUnwaited(g) ==
  /\ pc[g] = "wait"
  /\ UNCHANGED timedOut
  /\ pc' = [pc EXCEPT ![g] = "open"]
  /\ UNCHANGED <<chan, wg, connVars, healthVars, restoreVars, appVars>>

\* The superseded supervisor has exited, or the wait for it is over: it hangs in
\* a handler or a call, or there is none to exit.
StartProceeds(g) ==
  /\ pc[g] = "wait"
  /\ g - 1 \in done \/ pc[g - 1] \in LongSteps \cup {"wait", "abandoned"}
  /\ timedOut' = IF g - 1 \in done THEN timedOut ELSE timedOut \cup {g}
  /\ pc' = [pc EXCEPT ![g] = "open"]
  /\ UNCHANGED <<chan, wg, connVars, healthVars, restoreVars, appVars>>

\* start gives up: the context is done, or c.open failed.  Nobody closes done.
StartFails(g) ==
  /\ \/ pc[g] = "wait" /\ ctxDone /\ UNCHANGED connVars
     \/ pc[g] = "open" /\ CallFails
  /\ setHealthForGen(g, "stopped")
  /\ pc' = [pc EXCEPT ![g] = "abandoned"]
  /\ Return(g, "failed")
  /\ UNCHANGED <<runGen, stop, done, chan, timedOut, wg, rgen, rstart, restoreGen, appVars>>

\* c.open succeeds: from here on the broker delivers to this generation.
StartOpens(g) ==
  /\ pc[g] = "open" /\ connOpen
  /\ chan' = [chan EXCEPT ![g] = "open"]
  /\ pc' = [pc EXCEPT ![g] = "check"]
  /\ UNCHANGED <<timedOut, wg, connVars, healthVars, restoreVars, appVars>>

\* Superseded or shut down while opening: close the channel again.
StartSuperseded(g) ==
  /\ pc[g] = "check"
  /\ \/ ctxDone /\ Return(g, "failed")
     \/ g \in stop /\ Return(g, "others")
  /\ setHealthForGen(g, "stopped")
  /\ chan' = [chan EXCEPT ![g] = "none"]
  /\ pc' = [pc EXCEPT ![g] = "abandoned"]
  /\ UNCHANGED <<runGen, stop, done, timedOut, wg, rgen, rstart, restoreGen, connVars, appVars>>

\* Mutant: no wg.Add.
StartLaunchesUncounted(g) ==
  /\ pc[g] = "check" /\ ~ctxDone /\ g \notin stop
  /\ UNCHANGED wg
  /\ setHealthForGen(g, "running")
  /\ pc' = [pc EXCEPT ![g] = "top"]
  /\ Return(g, "others")
  /\ UNCHANGED <<runGen, stop, done, chan, timedOut, rgen, rstart, restoreGen, connVars, appVars>>

\* Launch the supervisor.
StartLaunches(g) ==
  /\ pc[g] = "check" /\ ~ctxDone /\ g \notin stop
  /\ wg' = wg \cup {g}
  /\ setHealthForGen(g, "running")
  /\ pc' = [pc EXCEPT ![g] = "top"]
  /\ Return(g, "others")
  /\ UNCHANGED <<runGen, stop, done, chan, timedOut, rgen, rstart, restoreGen, connVars, appVars>>
-----------------------------------------------------------------------------
(* supervise.                                                              *)
supFrame == <<runGen, stop, done, timedOut, restoreVars, appVars>>

\* The top of the loop registers the listeners of the channel.
SupTop(g) ==
  /\ pc[g] = "top"
  /\ setHealthForGen(g, "running")
  /\ pc' = [pc EXCEPT ![g] = "run"]
  /\ UNCHANGED <<chan, wg, connVars, supFrame>>

\* The select picks any ready case: deliveries go on after stop is closed, and
\* those already prefetched after the channel died.
SupDispatch(g) ==
  /\ pc[g] = "run"
  /\ pc' = [pc EXCEPT ![g] = "dispatch"]
  /\ UNCHANGED <<chan, wg, state, connVars, supFrame>>

\* The handler returns.
SupHandled(g) ==
  /\ pc[g] = "dispatch"
  /\ pc' = [pc EXCEPT ![g] = "run"]
  /\ UNCHANGED <<chan, wg, state, connVars, supFrame>>

\* Mutant: the loops do not watch the context.
SupStopsSupersededOnly(g) ==
  /\ pc[g] \in {"run", "backoff"} /\ g \in stop
  /\ pc' = [pc EXCEPT ![g] = "exit"]
  /\ UNCHANGED <<chan, wg, state, connVars, supFrame>>

\* ctx or stop ends the consume loop or the sleep before a rebuild.
SupStops(g) ==
  /\ pc[g] \in {"run", "backoff"} /\ (ctxDone \/ g \in stop)
  /\ pc' = [pc EXCEPT ![g] = "exit"]
  /\ UNCHANGED <<chan, wg, state, connVars, supFrame>>

\* Deliveries, closes or cancels report the death of the channel.
SupDies(g) ==
  /\ pc[g] = "run" /\ chan[g] = "dead"
  /\ chan' = [chan EXCEPT ![g] = "none"]
  /\ setHealthForGen(g, "rebuilding")
  /\ pc' = [pc EXCEPT ![g] = "died"]
  /\ UNCHANGED <<wg, connVars, supFrame>>

\* On a dead connection the reconnect hook is in charge.
SupDecides(g) ==
  /\ pc[g] = "died"
  /\ pc' = [pc EXCEPT ![g] = IF connOpen THEN "backoff" ELSE "exit"]
  /\ UNCHANGED <<chan, wg, state, connVars, supFrame>>

\* The sleep is over before the context is done.
SupWakes(g) ==
  /\ pc[g] = "backoff" /\ ~ctxDone
  /\ pc' = [pc EXCEPT ![g] = IF g \in stop THEN "exit" ELSE "topology"]
  /\ UNCHANGED <<chan, wg, state, connVars, supFrame>>

\* ensureTopology succeeded.
SupRedeclares(g) ==
  /\ pc[g] = "topology" /\ connOpen
  /\ pc' = [pc EXCEPT ![g] = "reopen"]
  /\ UNCHANGED <<chan, wg, state, connVars, supFrame>>

\* Mutant: no retry.
SupHealFailsForGood(g) ==
  /\ pc[g] \in {"topology", "reopen"} /\ CallFails
  /\ setHealthForGen(g, "rebuilding")
  /\ pc' = [pc EXCEPT ![g] = "exit"]
  /\ UNCHANGED <<chan, wg, supFrame>>

\* ensureTopology or c.open failed: sleep and retry.
SupHealFails(g) ==
  /\ pc[g] \in {"topology", "reopen"} /\ CallFails
  /\ setHealthForGen(g, "rebuilding")
  /\ pc' = [pc EXCEPT ![g] = "backoff"]
  /\ UNCHANGED <<chan, wg, supFrame>>

SupReopens(g) ==
  /\ pc[g] = "reopen" /\ connOpen
  /\ chan' = [chan EXCEPT ![g] = "open"]
  /\ pc' = [pc EXCEPT ![g] = "recheck"]
  /\ UNCHANGED <<wg, state, connVars, supFrame>>

\* Superseded while opening, or back to the top of the loop.
SupRechecks(g) ==
  /\ pc[g] = "recheck"
  /\ IF g \in stop
     THEN chan' = [chan EXCEPT ![g] = "none"] /\ pc' = [pc EXCEPT ![g] = "exit"]
     ELSE UNCHANGED chan /\ pc' = [pc EXCEPT ![g] = "top"]
  /\ UNCHANGED <<wg, state, connVars, supFrame>>

\* The deferred calls, last one first: close the channel and wg.Done,
SupReleases(g) ==
  /\ pc[g] = "exit"
  /\ chan' = [chan EXCEPT ![g] = "none"]
  /\ wg' = wg \ {g}
  /\ pc' = [pc EXCEPT ![g] = "released"]
  /\ UNCHANGED <<state, connVars, supFrame>>

\* then the health, and close(done).
SupExits(g) ==
  /\ pc[g] = "released"
  /\ setHealthForGen(g, "stopped")
  /\ done' = done \cup {g}
  /\ pc' = [pc EXCEPT ![g] = "exited"]
  /\ UNCHANGED <<runGen, stop, chan, timedOut, wg, connVars, restoreVars, appVars>>
-----------------------------------------------------------------------------
(* The reconnect hook and restoreWithBackoff, run by restore r.            *)
restoreFrame == <<healthVars, supVars, appVars>>

\* Mutant: restore even when the shutdown has begun.
HookUnchecked(r) ==
  /\ rpc[r] = "hook"
  /\ IF hooked
     THEN /\ restoreGen' = restoreGen + 1
          /\ rgen' = [rgen EXCEPT ![r] = restoreGen + 1]
          /\ rpc' = [rpc EXCEPT ![r] = "try"]
     ELSE rpc' = [rpc EXCEPT ![r] = "skipped"] /\ UNCHANGED <<rgen, restoreGen>>
  /\ UNCHANGED <<rstart, connVars, restoreFrame>>

\* The hook of a reconnect.  A reconnect that finds no hook registered runs
\* none, and a hook that finds the shutdown begun restores nothing.
Hook(r) ==
  /\ rpc[r] = "hook"
  /\ IF hooked
     THEN /\ restoreGen' = restoreGen + 1
          /\ rgen' = [rgen EXCEPT ![r] = restoreGen + 1]
          /\ rpc' = [rpc EXCEPT ![r] = IF shuttingDown THEN "refused" ELSE "try"]
     ELSE rpc' = [rpc EXCEPT ![r] = "skipped"] /\ UNCHANGED <<rgen, restoreGen>>
  /\ UNCHANGED <<rstart, connVars, restoreFrame>>

\* A newer reconnect ends the loop.
RestoreTries(r) ==
  /\ rpc[r] = "try"
  /\ rpc' = [rpc EXCEPT ![r] = IF restoreGen # rgen[r] THEN "done" ELSE "declare"]
  /\ UNCHANGED <<rgen, rstart, restoreGen, connVars, restoreFrame>>

\* declareTopology succeeds; startListeners comes to this listener.
RestoreDeclares(r) ==
  /\ rpc[r] = "declare" /\ connOpen
  /\ rpc' = [rpc EXCEPT ![r] = "start"]
  /\ UNCHANGED <<rgen, rstart, restoreGen, connVars, restoreFrame>>

\* declareTopology fails, or another listener does not start.
RestoreFails(r) ==
  /\ rpc[r] \in {"declare", "others"}
  /\ CallFails
  /\ rpc' = [rpc EXCEPT ![r] = "failed"]
  /\ UNCHANGED <<rgen, rstart, restoreGen, restoreFrame>>

\* All listeners have started.
RestoreSucceeds(r) ==
  /\ rpc[r] = "others"
  /\ rpc' = [rpc EXCEPT ![r] = "done"]
  /\ UNCHANGED <<rgen, rstart, restoreGen, connVars, restoreFrame>>

\* The attempt failed: sleep before the next one.
RestoreBacksOff(r) ==
  /\ r > 0 /\ rpc[r] = "failed"
  /\ rpc' = [rpc EXCEPT ![r] = "backoff"]
  /\ UNCHANGED <<rgen, rstart, restoreGen, connVars, restoreFrame>>

\* The sleep is over before the context is done,
RestoreWakes(r) ==
  /\ rpc[r] = "backoff" /\ ~ctxDone
  /\ rpc' = [rpc EXCEPT ![r] = "try"]
  /\ UNCHANGED <<rgen, rstart, restoreGen, connVars, restoreFrame>>

\* or cut short by it.
RestoreGivesUp(r) ==
  /\ rpc[r] = "backoff" /\ ctxDone
  /\ rpc' = [rpc EXCEPT ![r] = "done"]
  /\ UNCHANGED <<rgen, rstart, restoreGen, connVars, restoreFrame>>
-----------------------------------------------------------------------------
(* Start, its shutdown, and the connection.                                *)
appFrame == <<healthVars, supVars, restoreVars>>

\* conn.Close, or the loss of the connection: every channel on it dies.
KillChannels ==
  chan' = [g \in Gens |-> IF chan[g] = "open" THEN "dead" ELSE chan[g]]

\* bringUpConsumers failed: close the connection and return the error.
StartErrs ==
  /\ mpc = "boot" /\ rpc[0] = "failed"
  /\ mpc' = "returned" /\ connOpen' = FALSE /\ KillChannels
  /\ UNCHANGED <<drops, faults, healthVars, pc, timedOut, wg, restoreVars,
                 hooked, ctxDone, shuttingDown, dpc>>

\* Only now are the hooks registered; then Ready is closed.
StartReady ==
  /\ mpc = "boot" /\ rpc[0] = "done"
  /\ hooked' = TRUE /\ mpc' = "serving"
  /\ UNCHANGED <<ctxDone, shuttingDown, dpc, connVars, appFrame>>

CtxCancelled ==
  /\ ~ctxDone /\ ctxDone' = TRUE
  /\ UNCHANGED <<hooked, shuttingDown, mpc, dpc, connVars, appFrame>>

ShutdownBegins ==
  /\ mpc = "serving" /\ ctxDone
  /\ shuttingDown' = TRUE /\ mpc' = "draining" /\ dpc' = "restores"
  /\ UNCHANGED <<hooked, ctxDone, connVars, appFrame>>

\* restoreWg.Wait returns,
RestoresDrained ==
  /\ dpc = "restores" /\ \A r \in Restores : rpc[r] \notin Restoring
  /\ dpc' = "supervisors"
  /\ UNCHANGED <<hooked, ctxDone, shuttingDown, mpc, connVars, appFrame>>

\* then shutdownWg.Wait.
SupervisorsDrained ==
  /\ dpc = "supervisors" /\ wg = {}
  /\ dpc' = "done"
  /\ UNCHANGED <<hooked, ctxDone, shuttingDown, mpc, connVars, appFrame>>

\* shutdownDone is closed, or thirty seconds are over and all that is left sits
\* in a handler or a call to the broker: markConsumersStopped,
MarkConsumersStopped ==
  /\ mpc = "draining"
  /\ \/ dpc = "done"
     \/ /\ \A g \in Gens : pc[g] \in LongSteps \cup {"none", "abandoned", "exited"}
        /\ \A r \in Restores : rpc[r] \notin {"try", "start", "failed", "backoff"}
  /\ state' = "stopped" /\ mpc' = "closing"
  /\ UNCHANGED <<runGen, stop, done, supVars, restoreVars, connVars,
                 hooked, ctxDone, shuttingDown, dpc>>

\* then conn.Close.
StartReturns ==
  /\ mpc = "closing"
  /\ connOpen' = FALSE /\ KillChannels /\ mpc' = "returned"
  /\ UNCHANGED <<drops, faults, healthVars, pc, timedOut, wg, restoreVars,
                 hooked, ctxDone, shuttingDown, dpc>>

\* The broker or the network ends the connection,
ConnectionDrops ==
  /\ connOpen /\ drops < MaxDrops
  /\ connOpen' = FALSE /\ drops' = drops + 1 /\ KillChannels
  /\ UNCHANGED <<faults, healthVars, pc, timedOut, wg, restoreVars, appVars>>

\* and reconnectLoop replaces it, unless it was closed on purpose.
ConnectionRestored ==
  /\ ~connOpen /\ mpc # "returned"
  /\ connOpen' = TRUE
  /\ rpc' = [rpc EXCEPT ![drops] = "hook"]
  /\ UNCHANGED <<drops, faults, rgen, rstart, restoreGen, healthVars, supVars, appVars>>

\* The broker closes one channel or cancels its consumer.
ChannelDies(g) ==
  /\ chan[g] = "open" /\ faults < MaxFaults
  /\ faults' = faults + 1
  /\ chan' = [chan EXCEPT ![g] = "dead"]
  /\ UNCHANGED <<connOpen, drops, healthVars, pc, timedOut, wg, restoreVars, appVars>>
-----------------------------------------------------------------------------
StartStep(g) ==
  \/ StartProceeds(g) \/ StartFails(g) \/ StartOpens(g)
  \/ StartSuperseded(g) \/ StartLaunches(g)

SuperviseStep(g) ==
  \/ SupTop(g) \/ SupDecides(g) \/ SupWakes(g) \/ SupRedeclares(g) \/ SupHealFails(g)
  \/ SupReopens(g) \/ SupRechecks(g) \/ SupReleases(g) \/ SupExits(g)

RestoreStep(r) ==
  \/ Hook(r) \/ RestoreTries(r) \/ RestoreDeclares(r) \/ start(r) \/ RestoreFails(r)
  \/ RestoreSucceeds(r) \/ RestoreBacksOff(r) \/ RestoreWakes(r) \/ RestoreGivesUp(r)

AppStep ==
  \/ StartErrs \/ StartReady \/ ShutdownBegins
  \/ RestoresDrained \/ SupervisorsDrained \/ MarkConsumersStopped \/ StartReturns

Next ==
  \/ \E g \in Gens : \/ StartStep(g) \/ SuperviseStep(g) \/ SupStops(g) \/ SupDies(g)
                      \/ SupDispatch(g) \/ SupHandled(g) \/ ChannelDies(g)
  \/ \E r \in Restores : RestoreStep(r)
  \/ AppStep \/ CtxCancelled \/ ConnectionDrops \/ ConnectionRestored

Spec == Init /\ [][Next]_vars

\* Every goroutine that can step does, timers fire, and a select that is offered
\* a case again and again takes it.  The steps that share a fairness condition
\* happen only finitely often, so sharing is as good as one condition each.
\* Handlers need not return, and nothing obliges the environment to cancel, to
\* drop or to restore the connection.
FairSpec ==
  /\ Spec
  /\ WF_vars(\E g \in Gens : StartStep(g))
  /\ \A g \in Gens : WF_vars(SuperviseStep(g))
  /\ SF_vars(\E g \in Gens : SupStops(g) \/ SupDies(g))
  /\ \A r \in Restores : WF_vars(RestoreStep(r))
  /\ WF_vars(AppStep)
-----------------------------------------------------------------------------
(* Properties.                                                             *)

\* Two generations hold a consuming channel at once only after a start between
\* them ran into supersedeWait: start opens its consumer after the exit of the
\* supervisor it supersedes, whatever the order of starts and self-heals.
OneConsumer ==
  \A g, h \in Gens :
    g < h /\ chan[g] = "open" /\ chan[h] = "open" => \E k \in timedOut : g < k /\ k <= h

\* Until the shutdown ends, Health speaks of the newest generation: running means
\* that its supervisor is in the consume loop, or leaving it because the context
\* is done; stopped that it has ended.  A superseded supervisor that exits late
\* changes nothing.
HealthTracksNewest ==
  mpc \notin {"closing", "returned"} /\ runGen > 0 =>
    /\ state = "running" =>
         \/ pc[runGen] \in {"top", "run", "dispatch"}
         \/ pc[runGen] \in {"exit", "released"} /\ ctxDone
    /\ pc[runGen] \in {"run", "dispatch"} => state = "running"
    /\ (state = "stopped") <=> (pc[runGen] \in {"abandoned", "exited"})

\* Nothing can be added to shutdownWg once its Wait is reached: no start is
\* under way then, and no restore or hook can begin one.
NoAddAfterWait ==
  dpc \in {"supervisors", "done"} =>
    /\ \A g \in Gens : pc[g] \notin Starting
    /\ \A r \in Restores : rpc[r] \notin Restoring

\* When the drain completes, no supervisor is left that consumes or runs a
\* handler, so conn.Close interrupts nothing.
DrainIsComplete ==
  dpc = "done" => \A g \in Gens : chan[g] = "none" /\ pc[g] \notin Supervising \ {"released"}

\* The connection stays up, the application serves, and every reconnect so far
\* has found its hook registered.
Steady ==
  /\ connOpen /\ mpc = "serving" /\ ~ctxDone
  /\ \A r \in Restores : rpc[r] # "skipped"

\* A consumer comes back by itself: once the connection stays up, the newest
\* generation ends up consuming, or inside a handler, and reported running.
ConsumerRecovers ==
  <>[]Steady =>
    <>[]( /\ runGen > 0 /\ state = "running" /\ pc[runGen] \in {"run", "dispatch"}
          /\ chan[runGen] = "open" \/ pc[runGen] = "dispatch" )

\* No handler hangs for good.
HandlersReturn == \A g \in Gens : []<>(pc[g] # "dispatch")

\* When handlers return, the drain of the shutdown completes without help from
\* its deadline, and Health ends up reporting stopped for good, whatever the
\* supervisors still do between markConsumersStopped and their exit.
DrainCompletes ==
  HandlersReturn => <>[](shuttingDown => dpc = "done" /\ state = "stopped")
=============================================================================
