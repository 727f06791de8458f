----------------------------- MODULE Connection -----------------------------
(***************************************************************************)
(* The connection of internal/rabbit/connection.go: DialContext and Close, *)
(* called by Start; the goroutine that DialContext starts to run Dial; and *)
(* for every connection the goroutine that runs watchClose and turns into  *)
(* reconnectLoop.  Connections are numbered as they are dialled; 0 stands  *)
(* for a nil c.conn and for the goroutine that runs Dial, and k for the    *)
(* watcher started with connection k.  One action is one critical section, *)
(* one access to the atomic flag stopped, or one call into the library.    *)
(***************************************************************************)
EXTENDS Naturals, FiniteSets

CONSTANT MaxConns    \* connections ever dialled

ASSUME ConnectionAssumption == MaxConns \in Nat

ConnIds == 1..MaxConns
Goroutines == 0..MaxConns

VARIABLES
  conn,        \* c.conn
  stopped,     \* c.stopped
  health,      \* c.health.State
  cstate,      \* per connection: not dialled, open, lost, or closed by us
  dialled,     \* connections dialled so far
  pc,          \* goroutines: position
  held,        \* goroutines: the connection in the local variable conn
  mpc, mheld   \* Start: position, and the connection it is about to close

vars == <<conn, stopped, health, cstate, dialled, pc, held, mpc, mheld>>

\* A goroutine that may still dial, or has dialled and not yet handed over.
Dialling == {"begin", "dialling", "store", "discard", "announce", "attach", "watching",
             "loop", "sleeping", "recheck"}

\* Every variable keeps its type.
TypeOK ==
  /\ conn \in Goroutines /\ stopped \in BOOLEAN
  /\ health \in {"idle", "connected", "reconnecting", "stopped"}
  /\ cstate \in [ConnIds -> {"new", "open", "lost", "closed"}]
  /\ dialled \in Goroutines
  /\ pc \in [Goroutines -> Dialling \cup {"none", "hooks", "ok", "failed", "done"}]
  /\ held \in [Goroutines -> Goroutines]
  /\ mpc \in {"dial", "serving", "errored", "cancel", "cancelTaken", "cancelClosed",
              "close", "closeHealth", "closeTaken", "returned"}
  /\ mheld \in Goroutines

\* NewConnection, and DialContext has started the goroutine.
Init ==
  /\ conn = 0 /\ stopped = FALSE /\ health = "idle"
  /\ cstate = [k \in ConnIds |-> "new"] /\ dialled = 0
  /\ pc = [w \in Goroutines |-> IF w = 0 THEN "begin" ELSE "none"]
  /\ held = [w \in Goroutines |-> 0]
  /\ mpc = "dial" /\ mheld = 0

IsOpen == ~stopped /\ conn # 0 /\ cstate[conn] = "open"

\* Mutant: stopped is not terminal.
setHealthAlways(s) == health' = s

\* Stopped is terminal.
setHealth(s) == health' = IF health = "stopped" THEN health ELSE s

\* closeConn: nil and dead connections are left alone.
closeConn(k) ==
  cstate' = [c \in ConnIds |-> IF c = k /\ cstate[c] = "open" THEN "closed" ELSE cstate[c]]

Goto(w, p) == pc' = [pc EXCEPT ![w] = p]

mainVars == <<mpc, mheld>>
-----------------------------------------------------------------------------
(* Dial, run by goroutine 0, and the dialling of reconnectLoop.            *)
DialBegins ==
  /\ pc[0] = "begin"
  /\ Goto(0, IF stopped THEN "failed" ELSE "dialling")
  /\ UNCHANGED <<conn, stopped, health, cstate, dialled, held, mainVars>>

\* dial returns a connection, to Dial or to reconnectLoop,
DialSucceeds(w) ==
  /\ pc[w] = "dialling" /\ dialled < MaxConns
  /\ dialled' = dialled + 1
  /\ cstate' = [cstate EXCEPT ![dialled + 1] = "open"]
  /\ held' = [held EXCEPT ![w] = dialled + 1]
  /\ Goto(w, "store")
  /\ UNCHANGED <<conn, stopped, health, mainVars>>

\* or an error.
DialFails(w) ==
  /\ pc[w] = "dialling"
  /\ setHealth(IF w = 0 THEN "idle" ELSE "reconnecting")
  /\ Goto(w, IF w = 0 THEN "failed" ELSE "loop")
  /\ UNCHANGED <<conn, stopped, cstate, dialled, held, mainVars>>

\* Mutant: Dial does not look at stopped again.
DialStoresBlindly ==
  /\ pc[0] = "store"
  /\ conn' = held[0] /\ Goto(0, "announce")
  /\ UNCHANGED <<stopped, health, cstate, dialled, held, mainVars>>

\* Dial stores the connection unless Close raced it.
DialStores ==
  /\ pc[0] = "store"
  /\ IF stopped THEN UNCHANGED conn /\ Goto(0, "discard")
     ELSE conn' = held[0] /\ Goto(0, "announce")
  /\ UNCHANGED <<stopped, health, cstate, dialled, held, mainVars>>

DialDiscards ==
  /\ pc[0] = "discard"
  /\ closeConn(held[0]) /\ setHealth("stopped") /\ Goto(0, "failed")
  /\ UNCHANGED <<conn, stopped, dialled, held, mainVars>>

\* Dial ends: go watchClose.
DialAnnounces ==
  /\ pc[0] = "announce"
  /\ setHealth("connected")
  /\ pc' = [pc EXCEPT ![0] = "ok", ![held[0]] = "attach"]
  /\ UNCHANGED <<conn, stopped, cstate, dialled, held, mainVars>>
-----------------------------------------------------------------------------
(* watchClose and reconnectLoop, run by goroutine k.                       *)

\* watchClose reads c.conn, nil after a cancelled DialContext.
WatchAttaches(k) ==
  /\ pc[k] = "attach"
  /\ held' = [held EXCEPT ![k] = conn]
  /\ Goto(k, IF conn = 0 THEN "done" ELSE "watching")
  /\ UNCHANGED <<conn, stopped, health, cstate, dialled, mainVars>>

\* Mutant: every nil error is taken for an intentional close.
WatchNotifiedNilIsClose(k) ==
  /\ pc[k] = "watching" /\ cstate[held[k]] \in {"lost", "closed"}
  /\ \E nilErr \in IF cstate[held[k]] = "closed" THEN {TRUE} ELSE BOOLEAN :
       IF nilErr THEN UNCHANGED health /\ Goto(k, "done")
       ELSE setHealth("reconnecting") /\ Goto(k, "loop")
  /\ UNCHANGED <<conn, stopped, cstate, dialled, held, mainVars>>

\* NotifyClose reports.  The error is nil after our own close, and when the
\* connection was lost before the listener was registered.
WatchNotified(k) ==
  /\ pc[k] = "watching" /\ cstate[held[k]] \in {"lost", "closed"}
  /\ \E nilErr \in IF cstate[held[k]] = "closed" THEN {TRUE} ELSE BOOLEAN :
       IF nilErr /\ stopped THEN UNCHANGED health /\ Goto(k, "done")
       ELSE setHealth("reconnecting") /\ Goto(k, "loop")
  /\ UNCHANGED <<conn, stopped, cstate, dialled, held, mainVars>>

\* The two looks at stopped around the sleep.
LoopChecks(k) ==
  /\ pc[k] \in {"loop", "sleeping"}
  /\ Goto(k, IF stopped THEN "done" ELSE IF pc[k] = "loop" THEN "sleeping" ELSE "dialling")
  /\ UNCHANGED <<conn, stopped, health, cstate, dialled, held, mainVars>>

LoopStores(k) ==
  /\ k # 0 /\ pc[k] = "store"
  /\ conn' = held[k] /\ Goto(k, "recheck")
  /\ UNCHANGED <<stopped, health, cstate, dialled, held, mainVars>>

\* Close may have raced the dial.
LoopRechecks(k) ==
  /\ pc[k] = "recheck"
  /\ IF stopped THEN closeConn(held[k]) /\ Goto(k, "done")
     ELSE UNCHANGED cstate /\ Goto(k, "announce")
  /\ UNCHANGED <<conn, stopped, health, dialled, held, mainVars>>

\* Mutant: after the handover the old goroutine goes back to watching.
LoopAnnouncesAndWatches(k) ==
  /\ k # 0 /\ pc[k] = "announce"
  /\ setHealth("connected")
  /\ pc' = [pc EXCEPT ![k] = "attach", ![held[k]] = "attach"]
  /\ UNCHANGED <<conn, stopped, cstate, dialled, held, mainVars>>

\* The fresh connection gets its own watcher before the hooks run.
LoopAnnounces(k) ==
  /\ k # 0 /\ pc[k] = "announce"
  /\ setHealth("connected")
  /\ pc' = [pc EXCEPT ![k] = "hooks", ![held[k]] = "attach"]
  /\ UNCHANGED <<conn, stopped, cstate, dialled, held, mainVars>>

\* The hooks have run; they do not touch the connection.
LoopEnds(k) ==
  /\ pc[k] = "hooks" /\ Goto(k, "done")
  /\ UNCHANGED <<conn, stopped, health, cstate, dialled, held, mainVars>>
-----------------------------------------------------------------------------
(* Start: DialContext, then Close.                                         *)
goFrame == <<dialled, pc, held>>

\* Dial's result arrives.
DialContextReturns ==
  /\ mpc = "dial" /\ pc[0] \in {"ok", "failed"}
  /\ mpc' = IF pc[0] = "ok" THEN "serving" ELSE "errored"
  /\ UNCHANGED <<conn, stopped, health, cstate, mheld, goFrame>>

\* The context is done first: set stopped,
DialContextCancelled ==
  /\ mpc = "dial" /\ stopped' = TRUE /\ mpc' = "cancel"
  /\ UNCHANGED <<conn, health, cstate, mheld, goFrame>>

\* take whatever the dial has stored,
CancelTakes ==
  /\ mpc = "cancel" /\ mheld' = conn /\ conn' = 0 /\ mpc' = "cancelTaken"
  /\ UNCHANGED <<stopped, health, cstate, goFrame>>

\* close it,
CancelCloses ==
  /\ mpc = "cancelTaken" /\ closeConn(mheld) /\ mpc' = "cancelClosed"
  /\ UNCHANGED <<conn, stopped, health, mheld, goFrame>>

\* and report stopped.
CancelReturns ==
  /\ mpc = "cancelClosed" /\ setHealth("stopped") /\ mpc' = "returned"
  /\ UNCHANGED <<conn, stopped, cstate, mheld, goFrame>>

\* Close sets stopped,
CloseBegins ==
  /\ mpc = "serving" /\ stopped' = TRUE /\ mpc' = "close"
  /\ UNCHANGED <<conn, health, cstate, mheld, goFrame>>

\* reports it,
CloseReports ==
  /\ mpc = "close" /\ setHealth("stopped") /\ mpc' = "closeHealth"
  /\ UNCHANGED <<conn, stopped, cstate, mheld, goFrame>>

\* reads c.conn,
CloseReads ==
  /\ mpc = "closeHealth" /\ mheld' = conn /\ mpc' = "closeTaken"
  /\ UNCHANGED <<conn, stopped, health, cstate, goFrame>>

\* and closes what it read.
CloseCloses ==
  /\ mpc = "closeTaken" /\ closeConn(mheld) /\ mpc' = "returned"
  /\ UNCHANGED <<conn, stopped, health, mheld, goFrame>>

\* The broker or the network ends a connection; the last one of the instance
\* stays up.
ConnectionLost(k) ==
  /\ cstate[k] = "open" /\ dialled < MaxConns
  /\ cstate' = [cstate EXCEPT ![k] = "lost"]
  /\ UNCHANGED <<conn, stopped, health, dialled, pc, held, mainVars>>
-----------------------------------------------------------------------------
DialStep == DialBegins \/ DialStores \/ DialDiscards \/ DialAnnounces

WatchStep(k) ==
  \/ WatchAttaches(k) \/ WatchNotified(k) \/ LoopChecks(k) \/ LoopStores(k)
  \/ LoopRechecks(k) \/ LoopAnnounces(k) \/ LoopEnds(k)

CloseStep ==
  \/ DialContextReturns \/ CancelTakes \/ CancelCloses \/ CancelReturns
  \/ CloseReports \/ CloseReads \/ CloseCloses

Next ==
  \/ DialStep \/ CloseStep \/ DialContextCancelled \/ CloseBegins
  \/ \E w \in Goroutines : DialSucceeds(w) \/ DialFails(w)
  \/ \E k \in ConnIds : WatchStep(k) \/ ConnectionLost(k)

Spec == Init /\ [][Next]_vars
-----------------------------------------------------------------------------
(* Properties.                                                             *)

\* At most one broker connection is open, and at most one goroutine watches or
\* dials: a reconnect never doubles the watcher.
OneConnection ==
  /\ Cardinality({k \in ConnIds : cstate[k] = "open"}) <= 1
  /\ Cardinality({w \in Goroutines : pc[w] \in Dialling}) <= 1

\* Health reports connected only while c.conn is open, or its loss has yet to be
\* noticed by the watcher of that connection or by Close; and stopped once Start
\* has returned.
HealthHonest ==
  /\ health = "connected" =>
       \/ IsOpen
       \/ stopped
       \/ conn # 0 /\ pc[conn] \in {"attach", "watching"}
  /\ mpc = "returned" => health = "stopped"

\* A lost connection is replaced until Close or a cancelled DialContext says
\* otherwise, even when it died before its watcher was attached.
ConnectionRecovers == <>[](stopped \/ IsOpen \/ pc[0] = "failed")

\* After a shutdown every connection ends up closed and every goroutine ended: no
\* zombie survives Close or a cancelled DialContext, whichever dial they raced.
ShutdownReleasesAll ==
  stopped ~> /\ \A k \in ConnIds : cstate[k] # "open"
             /\ \A w \in Goroutines : pc[w] \notin Dialling
=============================================================================
