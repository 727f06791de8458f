-------------------------- MODULE ConnectionProofs --------------------------
(***************************************************************************)
(* The connection and its socket, for any number of connections and any    *)
(* timeouts.  Who may dial is a token: the goroutine of Dial starts with   *)
(* it and every handover passes it on to the watcher of the connection     *)
(* dialled last, the only one that can be open.                            *)
(***************************************************************************)
EXTENDS SocketConnection, FiniteSetTheorems, TLAPS

\* Positions without a live connection, and with a fresh one in hand.
Without == {"begin", "dialling", "loop", "sleeping"}
Holding == {"store", "discard", "announce", "recheck"}
Stored == {"announce", "recheck", "attach"}

\* One goroutine at most has the token, and it came with a connection dialled.
Token ==
  /\ \A w, v \in Goroutines : pc[w] \in Dialling /\ pc[v] \in Dialling => w = v
  /\ \A w \in Goroutines : pc[w] \in Dialling => w <= dialled

\* What goroutine w knows at position p with h in its variable conn.
Knows(w, p, h) ==
  /\ p \in Without => \A k \in ConnIds : cstate[k] # "open"
  /\ p \in Holding => h = dialled /\ w < dialled
  /\ p = "attach" => w = dialled /\ w # 0
  /\ p = "watching" => h = dialled
  /\ p \in Stored => conn = dialled \/ (conn = 0 /\ stopped)

Handover == \A w \in Goroutines : Knows(w, pc[w], held[w])

OnlyLastOpen == \A k \in ConnIds : cstate[k] = "open" => k = dialled

\* Before a shutdown, health says connected only while the connection is watched.
WatchedWhenConnected ==
  health = "connected" /\ ~stopped => conn # 0 /\ pc[conn] \in {"attach", "watching"}

\* Where Start is in a shutdown.
ShutdownInv ==
  /\ mpc \notin {"dial", "serving", "errored"} => stopped
  /\ mpc \in {"closeHealth", "closeTaken", "returned"} => health = "stopped"

TokenInv == Token /\ Handover /\ OnlyLastOpen
IInv == TypeOK /\ TokenInv /\ WatchedWhenConnected /\ ShutdownInv

\* Nothing has been dialled yet.
LEMMA InitInv == ASSUME Init PROVE IInv
<1>1. 0 \in Goroutines /\ \A w \in Goroutines : w # 0 \/ w <= 0
  BY ConnectionAssumption DEF Goroutines
<1>2. TypeOK
  <2>1. pc \in [Goroutines -> Dialling \cup {"none", "hooks", "ok", "failed", "done"}]
    BY Zenon DEF Init, Dialling
  <2> QED
    BY <1>1, <2>1, Zenon DEF Init, TypeOK
<1>3. \A w \in Goroutines : pc[w] = (IF w = 0 THEN "begin" ELSE "none") /\ held[w] = 0
  BY Zenon DEF Init
<1>4. TokenInv
  BY <1>1, <1>3, SMT
     DEF Init, TokenInv, Token, Handover, Knows, OnlyLastOpen, Dialling, Without, Holding, Stored
<1>5. WatchedWhenConnected /\ ShutdownInv
  BY SMT DEF Init, WatchedWhenConnected, ShutdownInv
<1> QED
  BY <1>2, <1>4, <1>5, Zenon DEF IInv
-----------------------------------------------------------------------------
(* The token.                                                              *)

\* A connection in the table is closed or lost, never reopened.
Closes == \A k \in ConnIds : cstate'[k] = "open" => cstate[k] = "open"

\* closeConn closes.
LEMMA CloseConnCloses ==
  ASSUME TypeOK, NEW k, closeConn(k)
  PROVE  Closes /\ cstate' \in [ConnIds -> {"new", "open", "lost", "closed"}]
BY SMT DEF TypeOK, closeConn, Closes

\* Goto moves one goroutine.
LEMMA GotoMoves ==
  ASSUME TypeOK, NEW w \in Goroutines,
         NEW p \in Dialling \cup {"none", "hooks", "ok", "failed", "done"}, Goto(w, p)
  PROVE  /\ pc' \in [Goroutines -> Dialling \cup {"none", "hooks", "ok", "failed", "done"}]
         /\ \A v \in Goroutines : pc'[v] = IF v = w THEN p ELSE pc[v]
<1> DEFINE P == Dialling \cup {"none", "hooks", "ok", "failed", "done"}
<1>1. pc \in [Goroutines -> P] /\ p \in P /\ pc' = [pc EXCEPT ![w] = p]
  BY Zenon DEF TypeOK, Goto
<1> HIDE DEF P
<1>2. pc' \in [Goroutines -> P] /\ \A v \in Goroutines : pc'[v] = IF v = w THEN p ELSE pc[v]
  BY <1>1, Zenon
<1> QED
  BY <1>2, Zenon DEF P

\* The goroutine that has the token moves on, or ends and drops it.
LEMMA TokenMoves ==
  ASSUME TypeOK, TokenInv, NEW w \in Goroutines,
         NEW p \in Dialling \cup {"none", "hooks", "ok", "failed", "done"},
         pc[w] \in Dialling, Goto(w, p), Closes, dialled' = dialled,
         Knows(w, p, held[w])'
  PROVE  TokenInv'
<1>1. \A v \in Goroutines : pc'[v] = IF v = w THEN p ELSE pc[v]
  BY GotoMoves, Zenon
<1>2. \A v \in Goroutines : pc'[v] \in Dialling => v = w
  BY <1>1, Zenon DEF TokenInv, Token
<1>3. Token'
  BY <1>1, <1>2, Zenon DEF TokenInv, Token
<1>4. Without \subseteq Dialling /\ Holding \subseteq Dialling /\ Stored \subseteq Dialling
      /\ {"attach", "watching"} \subseteq Dialling
  BY SMT DEF Without, Holding, Stored, Dialling
<1>5. Handover'
  BY <1>1, <1>2, <1>4, Zenon DEF Handover, Knows
<1>6. OnlyLastOpen'
  BY Zenon DEF TokenInv, OnlyLastOpen, Closes
<1> QED
  BY <1>3, <1>5, <1>6, Zenon DEF TokenInv
-----------------------------------------------------------------------------
(* The steps of Dial and of the watchers.                                  *)

\* A step at which the goroutine with the token keeps its connection.
LEMMA LocalSteps ==
  ASSUME TypeOK, TokenInv, NEW w \in Goroutines,
         \/ w = 0 /\ (DialBegins \/ DialStores \/ DialDiscards)
         \/ DialFails(w) \/ LoopChecks(w) \/ LoopStores(w) \/ LoopRechecks(w)
         \/ WatchAttaches(w) \/ WatchNotified(w)
  PROVE  TokenInv'
<1> DEFINE P == Dialling \cup {"none", "hooks", "ok", "failed", "done"}
<1>0. /\ Knows(w, pc[w], held[w]) /\ dialled \in Goroutines /\ conn \in Goroutines
      /\ pc[w] \in Dialling => w <= dialled
      /\ stopped \in BOOLEAN
  BY Zenon DEF TypeOK, TokenInv, Handover, Token
<1>1. ASSUME UNCHANGED cstate PROVE Closes
  BY <1>1, Zenon DEF Closes
<1>2. CASE w = 0 /\ DialBegins
  <2>1. \E p \in {"failed", "dialling"} : Goto(w, p)
    BY <1>2, Zenon DEF DialBegins
  <2>2. \A p \in {"failed", "dialling"} : p \in P /\ Knows(w, p, held[w])'
    BY <1>0, <1>2 DEF DialBegins, Knows, Without, Holding, Stored, Dialling
  <2> QED
    BY <1>1, <1>2, <2>1, <2>2, TokenMoves, Zenon DEF DialBegins, Dialling
<1>3. CASE w = 0 /\ DialStores
  <2>1. \/ stopped /\ Goto(w, "discard") /\ UNCHANGED conn
        \/ ~stopped /\ Goto(w, "announce") /\ conn' = held[w]
    BY <1>3, Zenon DEF DialStores
  <2>2. Knows(w, IF stopped THEN "discard" ELSE "announce", held[w])'
    BY <1>0, <1>3, <2>1 DEF DialStores, Knows, Without, Holding, Stored, Dialling
  <2> QED
    BY <1>1, <1>3, <2>1, <2>2, TokenMoves, Zenon DEF DialStores, Dialling
<1>4. CASE w = 0 /\ DialDiscards
  <2>1. Knows(w, "failed", held[w])'
    BY SMT DEF Knows, Without, Holding, Stored
  <2> QED
    BY <1>4, <2>1, TokenMoves, CloseConnCloses, Zenon DEF DialDiscards, Dialling
<1>5. CASE DialFails(w)
  <2>1. \E p \in {"failed", "loop"} : Goto(w, p)
    BY <1>5, Zenon DEF DialFails
  <2>2. \A p \in {"failed", "loop"} : p \in P /\ Knows(w, p, held[w])'
    BY <1>0, <1>5 DEF DialFails, Knows, Without, Holding, Stored, Dialling
  <2> QED
    BY <1>1, <1>5, <2>1, <2>2, TokenMoves, Zenon DEF DialFails, Dialling
<1>6. CASE LoopChecks(w)
  <2>1. \E p \in {"done", "sleeping", "dialling"} : Goto(w, p)
    BY <1>6, Zenon DEF LoopChecks
  <2>2. \A p \in {"done", "sleeping", "dialling"} : p \in P /\ Knows(w, p, held[w])'
    BY <1>0, <1>6 DEF LoopChecks, Knows, Without, Holding, Stored, Dialling
  <2> QED
    BY <1>1, <1>6, <2>1, <2>2, TokenMoves, Zenon DEF LoopChecks, Dialling
<1>7. CASE LoopStores(w)
  <2>1. Knows(w, "recheck", held[w])'
    BY <1>0, <1>7 DEF LoopStores, Knows, Without, Holding, Stored, Dialling
  <2> QED
    BY <1>1, <1>7, <2>1, TokenMoves, Zenon DEF LoopStores, Dialling
<1>8. CASE LoopRechecks(w)
  <2>1. \/ Goto(w, "done") /\ closeConn(held[w])
        \/ Goto(w, "announce") /\ UNCHANGED cstate
    BY <1>8, Zenon DEF LoopRechecks
  <2>2. Knows(w, "done", held[w])' /\ Knows(w, "announce", held[w])'
    BY <1>0, <1>8 DEF LoopRechecks, Knows, Without, Holding, Stored, Dialling
  <2> QED
    BY <1>1, <1>8, <2>1, <2>2, TokenMoves, CloseConnCloses, Zenon DEF LoopRechecks, Dialling
<1>9. CASE WatchAttaches(w)
  <2>1. held'[w] = conn
    BY <1>9, Zenon DEF WatchAttaches, TypeOK
  <2>2. Knows(w, IF conn = 0 THEN "done" ELSE "watching", held[w])'
    BY <1>0, <1>9, <2>1 DEF WatchAttaches, Knows, Without, Holding, Stored, Dialling
  <2> QED
    BY <1>1, <1>9, <2>2, TokenMoves, Zenon DEF WatchAttaches, Dialling
<1>10. CASE WatchNotified(w)
  <2>1. \E p \in {"done", "loop"} : Goto(w, p)
    BY <1>10, Zenon DEF WatchNotified
  <2>2. \A k \in ConnIds : cstate[k] # "open"
    BY <1>0, <1>10, Zenon DEF WatchNotified, Knows, TokenInv, OnlyLastOpen
  <2>3. \A p \in {"done", "loop"} : p \in P /\ Knows(w, p, held[w])'
    BY <1>10, <2>2 DEF WatchNotified, Knows, Without, Holding, Stored, Dialling
  <2> QED
    BY <1>1, <1>10, <2>1, <2>3, TokenMoves, Zenon DEF WatchNotified, Dialling
<1> QED
  BY <1>2, <1>3, <1>4, <1>5, <1>6, <1>7, <1>8, <1>9, <1>10, Zenon

\* Nothing is open when a dial succeeds, so the new connection is the only one.
LEMMA DialStepToken ==
  ASSUME TypeOK, TokenInv, NEW w \in Goroutines, DialSucceeds(w)
  PROVE  TokenInv'
<1>0. /\ pc[w] = "dialling" /\ w <= dialled /\ w \in Nat /\ dialled \in Nat
      /\ \A k \in ConnIds : cstate[k] # "open"
      /\ dialled' = dialled + 1 /\ dialled + 1 \in ConnIds
  BY ConnectionAssumption
     DEF DialSucceeds, TypeOK, TokenInv, Token, Handover, Knows, Without, Dialling, Goroutines,
         ConnIds
<1>1. \A v \in Goroutines : pc'[v] = IF v = w THEN "store" ELSE pc[v]
  BY GotoMoves, Zenon DEF DialSucceeds, Dialling
<1>2. \A v \in Goroutines : pc'[v] \in Dialling => v = w
  BY <1>0, <1>1, Zenon DEF TokenInv, Token, Dialling
<1>3. w < dialled' /\ w <= dialled'
  BY <1>0
<1>4. Token'
  BY <1>2, <1>3, Zenon DEF Token
<1>5. \A k \in ConnIds : cstate'[k] = "open" => k = dialled'
  BY <1>0, Zenon DEF DialSucceeds, TypeOK
<1>6. held'[w] = dialled'
  BY <1>0, Zenon DEF DialSucceeds, TypeOK
<1>7. Knows(w, "store", held[w])'
  BY <1>3, <1>6, SMT DEF Knows, Without, Holding, Stored
<1>8. /\ Without \subseteq Dialling /\ Holding \subseteq Dialling /\ Stored \subseteq Dialling
      /\ {"attach", "watching"} \subseteq Dialling
  BY SMT DEF Without, Holding, Stored, Dialling
<1>9. Handover'
  BY <1>1, <1>2, <1>7, <1>8, Zenon DEF Handover, Knows
<1> QED
  BY <1>4, <1>5, <1>9, Zenon DEF TokenInv, OnlyLastOpen

\* The token goes to the watcher of the connection that was dialled.
LEMMA AnnounceToken ==
  ASSUME TypeOK, TokenInv, NEW w \in Goroutines,
         (w = 0 /\ DialAnnounces) \/ LoopAnnounces(w)
  PROVE  /\ TokenInv' /\ held[w] = dialled /\ dialled # 0
         /\ pc' \in [Goroutines -> Dialling \cup {"none", "hooks", "ok", "failed", "done"}]
         /\ pc'[dialled] = "attach" /\ (conn = dialled \/ stopped)
<1> DEFINE P == Dialling \cup {"none", "hooks", "ok", "failed", "done"}
<1>0. /\ held[w] = dialled /\ w < dialled /\ (conn = dialled \/ (conn = 0 /\ stopped))
      /\ dialled \in Goroutines
  BY SMT DEF DialAnnounces, LoopAnnounces, TypeOK, TokenInv, Handover, Knows, Holding, Stored
<1>1. dialled # w /\ dialled # 0 /\ dialled <= dialled
  BY <1>0, ConnectionAssumption DEF Goroutines
<1>2. PICK q \in {"ok", "hooks"} :
        pc' = [pc EXCEPT ![w] = q, ![dialled] = "attach"]
  BY <1>0, Zenon DEF DialAnnounces, LoopAnnounces
<1>3. pc \in [Goroutines -> P] /\ q \in P /\ "attach" \in P /\ q \notin Dialling
  BY SMT DEF TypeOK, Dialling
<1> HIDE DEF P
<1>4. /\ pc' \in [Goroutines -> P]
      /\ \A v \in Goroutines : pc'[v] = IF v = dialled THEN "attach" ELSE IF v = w THEN q ELSE pc[v]
  BY <1>0, <1>2, <1>3, Zenon
<1>5. pc[w] \in Dialling /\ UNCHANGED <<conn, stopped, cstate, dialled, held>>
  BY Zenon DEF DialAnnounces, LoopAnnounces, Dialling
<1>6. \A v \in Goroutines : pc'[v] \in Dialling => v = dialled
  BY <1>3, <1>4, <1>5, Zenon DEF TokenInv, Token
<1>7. Token'
  BY <1>1, <1>5, <1>6, Zenon DEF Token
<1>8. Knows(dialled, "attach", held[dialled])'
  BY <1>0, <1>1, <1>5, ZenonT(30) DEF Knows, Without, Holding, Stored
<1>9. /\ Without \subseteq Dialling /\ Holding \subseteq Dialling /\ Stored \subseteq Dialling
      /\ {"attach", "watching"} \subseteq Dialling
  BY SMT DEF Without, Holding, Stored, Dialling
<1>10. Handover'
  BY <1>0, <1>4, <1>5, <1>6, <1>8, <1>9, Zenon DEF Handover, Knows
<1> QED
  BY <1>0, <1>1, <1>4, <1>5, <1>7, <1>10, Zenon DEF TokenInv, OnlyLastOpen, P

\* Start, the network and a goroutine past its handover leave the token alone:
\* they close connections, and take c.conn away only in a shutdown.
LEMMA OtherStepsToken ==
  ASSUME TypeOK, TokenInv, UNCHANGED <<held, dialled>>, Closes, stopped => stopped',
         conn' = conn \/ (conn' = 0 /\ stopped'),
         \A w \in Goroutines : pc'[w] = pc[w] \/ pc'[w] = "done"
  PROVE  TokenInv'
<1>1. /\ "done" \notin Dialling /\ "done" \notin Without /\ "done" \notin Holding
      /\ "done" \notin Stored
  BY SMT DEF Without, Holding, Stored, Dialling
<1>2. Token'
  BY <1>1, Zenon DEF TokenInv, Token
<1>3. OnlyLastOpen'
  BY Zenon DEF TokenInv, OnlyLastOpen, Closes
<1>4. Handover'
  <2>1. ASSUME NEW w \in Goroutines PROVE Knows(w, pc[w], held[w])'
    <3>1. Knows(w, pc[w], held[w])
      BY Zenon DEF TokenInv, Handover
    <3>2. CASE pc'[w] = pc[w]
      BY <3>1, <3>2, Zenon DEF Knows, Closes
    <3>3. CASE pc'[w] = "done"
      BY <1>1, <3>3 DEF Knows
    <3> QED
      BY <3>2, <3>3, Zenon
  <2> QED
    BY <2>1, Zenon DEF Handover
<1> QED
  BY <1>2, <1>3, <1>4, Zenon DEF TokenInv
-----------------------------------------------------------------------------
(* The whole of Connection.                                                *)

\* A step of Start or of the network.
MainStep ==
  \/ CloseStep \/ DialContextCancelled \/ CloseBegins
  \/ \E k \in ConnIds : ConnectionLost(k)

\* What such a step leaves alone.
LEMMA MainStepFrame ==
  ASSUME TypeOK, ShutdownInv, MainStep
  PROVE  /\ UNCHANGED <<held, dialled, pc>> /\ Closes /\ (stopped => stopped')
         /\ (conn' = conn \/ (conn' = 0 /\ stopped'))
         /\ (health' = health \/ health' = "stopped")
         /\ cstate' \in [ConnIds -> {"new", "open", "lost", "closed"}]
<1>0. cstate \in [ConnIds -> {"new", "open", "lost", "closed"}]
  BY Zenon DEF TypeOK
<1>1. /\ UNCHANGED <<held, dialled, pc>> /\ (stopped => stopped')
      /\ (conn' = conn \/ (conn' = 0 /\ stopped'))
      /\ (health' = health \/ health' = "stopped")
  BY Zenon DEF MainStep, CloseStep, DialContextReturns, DialContextCancelled, CancelTakes,
               CancelCloses, CancelReturns, CloseBegins, CloseReports, CloseReads, CloseCloses,
               ConnectionLost, goFrame, ShutdownInv, setHealth
<1>2. \/ UNCHANGED cstate \/ closeConn(mheld)
      \/ \E k \in ConnIds : cstate' = [cstate EXCEPT ![k] = "lost"]
  BY Zenon DEF MainStep, CloseStep, DialContextReturns, DialContextCancelled, CancelTakes,
               CancelCloses, CancelReturns, CloseBegins, CloseReports, CloseReads, CloseCloses,
               ConnectionLost
<1>3. ASSUME NEW k \in ConnIds, cstate' = [cstate EXCEPT ![k] = "lost"]
      PROVE  Closes /\ cstate' \in [ConnIds -> {"new", "open", "lost", "closed"}]
  BY <1>0, <1>3 DEF Closes
<1>4. Closes /\ cstate' \in [ConnIds -> {"new", "open", "lost", "closed"}]
  BY <1>0, <1>2, <1>3, CloseConnCloses, Zenon DEF Closes
<1> QED
  BY <1>1, <1>4, Zenon

\* A step of a goroutine that has the token, or has just handed it over.
TokenStep(w) ==
  \/ w = 0 /\ (DialBegins \/ DialStores \/ DialDiscards \/ DialAnnounces)
  \/ DialSucceeds(w) \/ DialFails(w)
  \/ w # 0 /\ WatchStep(w)

\* Every step of Connection is one or the other.
LEMMA ConnectionSteps ==
  ASSUME Next
  PROVE  MainStep \/ \E w \in Goroutines : TokenStep(w)
<1>1. 0 \in Goroutines /\ \A k \in ConnIds : k \in Goroutines /\ k # 0
  BY ConnectionAssumption DEF Goroutines, ConnIds
<1> QED
  BY <1>1, Zenon DEF Next, DialStep, MainStep, TokenStep

\* Every step keeps the token in one hand.
LEMMA TokenInvStep ==
  ASSUME TypeOK, TokenInv, ShutdownInv, Next
  PROVE  TokenInv'
<1>1. CASE MainStep
  BY <1>1, MainStepFrame, OtherStepsToken, Zenon
<1>2. ASSUME NEW w \in Goroutines, LoopEnds(w) PROVE TokenInv'
  <2>1. \A v \in Goroutines : pc'[v] = IF v = w THEN "done" ELSE pc[v]
    BY <1>2, GotoMoves, Zenon DEF LoopEnds
  <2> QED
    BY <1>2, <2>1, OtherStepsToken, Zenon DEF LoopEnds, Closes
<1> QED
  BY <1>1, <1>2, ConnectionSteps, LocalSteps, DialStepToken, AnnounceToken, Zenon
     DEF TokenStep, WatchStep

\* The goroutines leave Start alone, and health changes as setHealth says.
LEMMA TokenStepFrame ==
  ASSUME NEW w, TokenStep(w)
  PROVE  /\ UNCHANGED <<stopped, mpc, mheld>>
         /\ health' = health \/ health # "stopped"
         /\ health' \in {health, "idle", "connected", "reconnecting", "stopped"}
BY Zenon DEF TokenStep, DialBegins, DialStores, DialDiscards, DialAnnounces, DialSucceeds,
             DialFails, WatchStep, WatchAttaches, WatchNotified, LoopChecks, LoopStores,
             LoopRechecks, LoopAnnounces, LoopEnds, setHealth, mainVars

\* Start sets stopped before it reports it, and stopped is terminal.
LEMMA ShutdownInvStep ==
  ASSUME TypeOK, ShutdownInv, Next
  PROVE  ShutdownInv'
<1>1. CASE MainStep
  BY <1>1, Zenon
     DEF MainStep, CloseStep, DialContextReturns, DialContextCancelled, CancelTakes, CancelCloses,
         CancelReturns, CloseBegins, CloseReports, CloseReads, CloseCloses, ConnectionLost,
         mainVars, setHealth, ShutdownInv
<1>2. ASSUME NEW w \in Goroutines, TokenStep(w) PROVE ShutdownInv'
  BY <1>2, TokenStepFrame, Zenon DEF ShutdownInv
<1> QED
  BY <1>1, <1>2, ConnectionSteps, Zenon

\* Health turns connected at the handover to the watcher, which reports the loss.
LEMMA WatchedStep ==
  ASSUME TypeOK, TokenInv, ShutdownInv, WatchedWhenConnected, Next
  PROVE  WatchedWhenConnected'
<1>1. CASE MainStep
  BY <1>1, MainStepFrame, Zenon DEF WatchedWhenConnected
<1>2. ASSUME NEW w \in Goroutines, TokenStep(w), health' = "connected", ~stopped'
      PROVE  conn' # 0 /\ pc'[conn'] \in {"attach", "watching"}
  <2>0. ~stopped /\ conn \in Goroutines
    BY <1>2, TokenStepFrame, Zenon DEF TypeOK
  <2>1. CASE (w = 0 /\ DialAnnounces) \/ LoopAnnounces(w)
    BY <2>0, <2>1, AnnounceToken, Zenon DEF DialAnnounces, LoopAnnounces
  <2>2. CASE ~((w = 0 /\ DialAnnounces) \/ LoopAnnounces(w))
    <3>1. health' = health
      BY <1>2, <2>2, Zenon
         DEF TokenStep, DialBegins, DialStores, DialDiscards, DialSucceeds, DialFails, WatchStep,
             WatchAttaches, WatchNotified, LoopChecks, LoopStores, LoopRechecks, LoopEnds, setHealth
    <3>2. conn # 0 /\ pc[conn] \in {"attach", "watching"}
      BY <1>2, <2>0, <3>1, Zenon DEF WatchedWhenConnected
    <3>3. pc[w] \in Dialling => w = conn
      BY <2>0, <3>2, Zenon DEF TokenInv, Token, Dialling
    <3>4. CASE LoopEnds(w)
      <4>1. \A v \in Goroutines : pc'[v] = IF v = w THEN "done" ELSE pc[v]
        BY <3>4, GotoMoves, Zenon DEF LoopEnds
      <4>2. conn # w
        BY <3>2, <3>4, SMT DEF LoopEnds
      <4> QED
        BY <2>0, <3>2, <3>4, <4>1, <4>2, Zenon DEF LoopEnds
    <3>5. CASE WatchAttaches(w)
      <4>1. pc'[w] = "watching" /\ w = conn /\ conn' = conn
        BY <3>2, <3>3, <3>5, GotoMoves, Zenon DEF WatchAttaches, Dialling
      <4> QED
        BY <3>2, <4>1, Zenon
    <3>6. CASE WatchNotified(w)
      <4>1. health' # "connected"
        BY <2>0, <3>6, SMT DEF WatchNotified, setHealth
      <4> QED
        BY <1>2, <4>1, Zenon
    <3>7. CASE \/ w = 0 /\ (DialBegins \/ DialStores \/ DialDiscards)
               \/ DialSucceeds(w) \/ DialFails(w)
               \/ LoopChecks(w) \/ LoopStores(w) \/ LoopRechecks(w)
      <4>1. pc[w] \in {"begin", "store", "discard", "dialling", "loop", "sleeping", "recheck"}
        BY <3>7, Zenon
           DEF DialBegins, DialStores, DialDiscards, DialSucceeds, DialFails, LoopChecks,
               LoopStores, LoopRechecks
      <4> QED
        BY <3>2, <3>3, <4>1, SMT DEF Dialling
    <3> QED
      BY <1>2, <2>2, <3>4, <3>5, <3>6, <3>7, Zenon DEF TokenStep, WatchStep
  <2> QED
    BY <2>1, <2>2, Zenon
<1> QED
  BY <1>1, <1>2, ConnectionSteps, Zenon DEF WatchedWhenConnected

\* The positions of the goroutines and what they hold keep their types.
LEMMA PcTypes ==
  ASSUME TypeOK, TokenInv, ShutdownInv, Next
  PROVE  /\ pc' \in [Goroutines -> Dialling \cup {"none", "hooks", "ok", "failed", "done"}]
         /\ held' \in [Goroutines -> Goroutines] /\ dialled' \in Goroutines
         /\ cstate' \in [ConnIds -> {"new", "open", "lost", "closed"}]
<1> DEFINE P == Dialling \cup {"none", "hooks", "ok", "failed", "done"}
           C == {"new", "open", "lost", "closed"}
<1>0. /\ pc \in [Goroutines -> P] /\ held \in [Goroutines -> Goroutines]
      /\ dialled \in Goroutines /\ cstate \in [ConnIds -> C] /\ conn \in Goroutines
  BY Zenon DEF TypeOK
<1>1. CASE MainStep
  BY <1>0, <1>1, MainStepFrame, Zenon
<1>2. ASSUME NEW w \in Goroutines, TokenStep(w)
      PROVE  /\ pc' \in [Goroutines -> P] /\ held' \in [Goroutines -> Goroutines]
             /\ dialled' \in Goroutines /\ cstate' \in [ConnIds -> C]
  <2>1. CASE (w = 0 /\ DialAnnounces) \/ LoopAnnounces(w)
    BY <1>0, <2>1, AnnounceToken, Zenon DEF DialAnnounces, LoopAnnounces
  <2>2. CASE ~((w = 0 /\ DialAnnounces) \/ LoopAnnounces(w))
    <3>1. \E p \in P : Goto(w, p)
      BY <1>2, <2>2, Zenon
         DEF TokenStep, DialBegins, DialStores, DialDiscards, DialSucceeds, DialFails, WatchStep,
             WatchAttaches, WatchNotified, LoopChecks, LoopStores, LoopRechecks, LoopEnds, Dialling
    <3>2. pc' \in [Goroutines -> P]
      BY <3>1, GotoMoves, Zenon
    <3>3. CASE DialSucceeds(w)
      <4>1. dialled + 1 \in Goroutines /\ dialled' = dialled + 1
        BY <1>0, <3>3, ConnectionAssumption DEF DialSucceeds, Goroutines
      <4>2. held' \in [Goroutines -> Goroutines] /\ cstate' \in [ConnIds -> C]
        BY <1>0, <3>3, <4>1, Zenon DEF DialSucceeds
      <4> QED
        BY <3>2, <4>1, <4>2, Zenon
    <3>4. CASE ~DialSucceeds(w)
      <4>1. /\ dialled' = dialled
            /\ held' = held \/ held' = [held EXCEPT ![w] = conn]
            /\ cstate' = cstate \/ closeConn(held[w])
        BY <1>2, <2>2, <3>4, Zenon
           DEF TokenStep, DialBegins, DialStores, DialDiscards, DialFails, WatchStep,
               WatchAttaches, WatchNotified, LoopChecks, LoopStores, LoopRechecks, LoopEnds
      <4>2. held' \in [Goroutines -> Goroutines]
        BY <1>0, <4>1
      <4>3. cstate' \in [ConnIds -> C]
        BY <1>0, <4>1, CloseConnCloses, Zenon
      <4> QED
        BY <1>0, <3>2, <4>1, <4>2, <4>3, Zenon
    <3> QED
      BY <3>3, <3>4, Zenon
  <2> QED
    BY <2>1, <2>2, Zenon
<1> QED
  BY <1>1, <1>2, ConnectionSteps, Zenon

\* Every step preserves the invariant.
LEMMA Inductive == ASSUME IInv, [Next]_vars PROVE IInv'
<1>0. TypeOK /\ TokenInv /\ WatchedWhenConnected /\ ShutdownInv
  BY Zenon DEF IInv
<1>1. CASE UNCHANGED vars
  BY <1>0, <1>1, Zenon
     DEF vars, IInv, TypeOK, TokenInv, Token, Handover, Knows, OnlyLastOpen, WatchedWhenConnected,
         ShutdownInv
<1>2. CASE Next
  <2>1. conn' \in Goroutines
    <3>1. 0 \in Goroutines
      BY ConnectionAssumption DEF Goroutines
    <3>2. ASSUME NEW w \in Goroutines, TokenStep(w) PROVE conn' \in Goroutines
      <4>1. conn' = conn \/ conn' = held[w]
        BY <3>2, Zenon
           DEF TokenStep, DialBegins, DialStores, DialDiscards, DialAnnounces, DialSucceeds,
               DialFails, WatchStep, WatchAttaches, WatchNotified, LoopChecks, LoopStores,
               LoopRechecks, LoopAnnounces, LoopEnds
      <4> QED
        BY <1>0, <4>1, ZenonT(30) DEF TypeOK
    <3>3. CASE MainStep
      BY <1>0, <3>1, <3>3, MainStepFrame, Zenon DEF TypeOK
    <3> QED
      BY <1>2, <3>2, <3>3, ConnectionSteps, Zenon
  <2>2. /\ stopped' \in BOOLEAN /\ health' \in {"idle", "connected", "reconnecting", "stopped"}
        /\ mpc' \in {"dial", "serving", "errored", "cancel", "cancelTaken", "cancelClosed",
                     "close", "closeHealth", "closeTaken", "returned"}
        /\ mheld' \in Goroutines
    <3>1. CASE MainStep
      BY <1>0, <3>1, Zenon
         DEF TypeOK, MainStep, CloseStep, DialContextReturns, DialContextCancelled, CancelTakes,
             CancelCloses, CancelReturns, CloseBegins, CloseReports, CloseReads, CloseCloses,
             ConnectionLost, mainVars, setHealth
    <3>2. ASSUME NEW w \in Goroutines, TokenStep(w)
          PROVE  /\ UNCHANGED <<stopped, mpc, mheld>>
                 /\ health' \in {"idle", "connected", "reconnecting", "stopped"}
      BY <1>0, <3>2, TokenStepFrame, Zenon DEF TypeOK
    <3> QED
      BY <1>0, <1>2, <3>1, <3>2, ConnectionSteps, Zenon DEF TypeOK
  <2>3. TypeOK'
    BY <1>0, <1>2, <2>1, <2>2, PcTypes, Zenon DEF TypeOK
  <2> QED
    BY <1>0, <1>2, <2>3, TokenInvStep, ShutdownInvStep, WatchedStep, Zenon DEF IInv
<1> QED
  BY <1>1, <1>2, Zenon

\* A set no two members of which differ has at most one.
LEMMA AtMostOne ==
  ASSUME NEW A, \A x, y \in A : x = y
  PROVE  Cardinality(A) <= 1
<1>1. CASE A = {}
  BY <1>1, FS_EmptySet
<1>2. ASSUME NEW x \in A PROVE Cardinality(A) <= 1
  <2>1. A = {x}
    BY <1>2, Zenon
  <2> QED
    BY <2>1, FS_Singleton
<1> QED
  BY <1>1, <1>2, Zenon

\* The invariant says what OneConnection and HealthHonest say.
LEMMA InvImplies == ASSUME IInv PROVE OneConnection /\ HealthHonest
<1>1. Cardinality({k \in ConnIds : cstate[k] = "open"}) <= 1
  <2> DEFINE A == {k \in ConnIds : cstate[k] = "open"}
  <2>1. \A x, y \in A : x = y
    BY Zenon DEF IInv, TokenInv, OnlyLastOpen
  <2> QED
    BY <2>1, AtMostOne, Zenon
<1>2. Cardinality({w \in Goroutines : pc[w] \in Dialling}) <= 1
  <2> DEFINE A == {w \in Goroutines : pc[w] \in Dialling}
  <2>1. \A x, y \in A : x = y
    BY Zenon DEF IInv, TokenInv, Token
  <2> QED
    BY <2>1, AtMostOne, Zenon
<1>3. HealthHonest
  BY Zenon DEF IInv, WatchedWhenConnected, ShutdownInv, HealthHonest
<1> QED
  BY <1>1, <1>2, <1>3, Zenon DEF OneConnection
-----------------------------------------------------------------------------
(* The socket below the connection.                                        *)

\* The deadline of a write, from its first critical section to its return.
WriteInv ==
  /\ wpc = "arm" /\ ~overlapped =>
       lasted = 0 /\ wdeadline <= WriteTimeout /\ wdeadline <= baseDeadline
  /\ WriteBounded

\* The version counts the deadlines amqp091 has set on this socket, which is
\* written to only while there is a connection.
PhaseInv ==
  /\ phase \in {"none", "down"} => version = 0
  /\ phase = "handshake" => version = 1
  /\ phase \in {"opened", "open"} => version = 2
  /\ phase \in {"closing", "sent"} => version = 3
  /\ phase \in {"none", "down"} => wpc = "idle"
  /\ closeFrame => phase = "closing"
  /\ phase \in {"open", "closing", "sent"} => dialled # 0

JointInv == JointTypeOK /\ IInv /\ WriteInv /\ PhaseInv

\* A step of the whole is a step of Connection, or none of its steps: the socket
\* delays what the connection does and adds nothing to it.
LEMMA JointStepsConnection ==
  ASSUME TypeOK, PhaseInv, [JointNext]_allVars
  PROVE  [Next]_vars
<1>1. phase = "open" => dialled \in ConnIds
  BY ConnectionAssumption, SMT DEF PhaseInv, TypeOK, Goroutines, ConnIds
<1>2. CASE WriteTimesOut
  BY <1>1, <1>2, Zenon DEF WriteTimesOut, ShutDown, Next
<1>3. CASE \/ Joint(DialStep) \/ Joint(CloseStep) \/ Joint(DialContextCancelled \/ CloseBegins)
           \/ \E w \in Goroutines : DialsOn(w)
           \/ \E k \in ConnIds : Joint(WatchStep(k)) \/ SocketLost(k)
  BY <1>3, Zenon DEF Joint, DialsOn, DialsSocket, SocketDialSucceeds, SocketDialFails, SocketLost,
                     Next
<1>4. CASE \/ HandshakeEnds \/ CloseDeadline \/ CloseAnswered \/ SetDeadlineApplies
           \/ WriteReturns \/ Tick \/ WriteEnds \/ \E close \in BOOLEAN : Writes(close)
           \/ S!WriteArms /\ UNCHANGED <<vars, phase, closeFrame>>
           \/ UNCHANGED allVars
  BY <1>4, Zenon
     DEF HandshakeEnds, CloseDeadline, CloseAnswered, ShutDown, SetDeadlineApplies, WriteReturns,
         Tick, WriteEnds, Writes, allVars
<1> QED
  BY <1>2, <1>3, <1>4, Zenon DEF JointNext, WriteStep

\* What a step of the whole does to the socket, in which phase.
SocketMove ==
  \/ UNCHANGED <<socketVars, phase, closeFrame>>
  \/ phase = "none" /\ S!handshakeDial /\ phase' = "handshake" /\ UNCHANGED closeFrame
  \/ phase = "handshake" /\ S!SetDeadline(S!Never) /\ phase' = "opened" /\ UNCHANGED closeFrame
  \/ /\ phase = "opened" /\ phase' = "open" /\ dialled' = dialled + 1
     /\ UNCHANGED <<socketVars, closeFrame>>
  \/ S!Closed /\ phase' \in {"none", "down"} /\ closeFrame' = FALSE
  \/ /\ phase \in {"handshake", "opened", "open", "closing", "sent"}
     /\ S!WriteBegins /\ closeFrame' \in BOOLEAN /\ (closeFrame' => phase = "closing")
     /\ UNCHANGED phase
  \/ /\ S!WriteArms \/ S!WriteReturns \/ S!SetDeadlineApplies \/ S!Tick
     /\ UNCHANGED <<phase, closeFrame>>
  \/ /\ S!WriteRestores /\ phase' = (IF closeFrame THEN "sent" ELSE phase)
     /\ closeFrame' = FALSE
  \/ phase = "open" /\ S!SetDeadline(CloseTimeout) /\ phase' = "closing" /\ UNCHANGED closeFrame

\* Every step does one of these.
LEMMA SocketMoves == ASSUME [JointNext]_allVars PROVE SocketMove
<1>1. CASE \/ Joint(DialStep) \/ Joint(CloseStep) \/ Joint(DialContextCancelled \/ CloseBegins)
           \/ \E k \in ConnIds : Joint(WatchStep(k)) \/ SocketLost(k)
           \/ CloseAnswered \/ WriteTimesOut \/ UNCHANGED allVars
  BY <1>1, Zenon
     DEF Joint, SocketLost, CloseAnswered, WriteTimesOut, Gone, ShutDown, allVars, SocketMove
<1>2. CASE \E w \in Goroutines : DialsOn(w)
  BY <1>2, Zenon DEF DialsOn, DialsSocket, SocketDialSucceeds, SocketDialFails, Gone, DialSucceeds,
                     SocketMove
<1>3. ASSUME NEW close \in BOOLEAN, Writes(close) PROVE SocketMove
  <2>1. /\ phase \in {"handshake", "opened", "open", "closing", "sent"}
        /\ close => phase = "closing"
    BY <1>3, SMT DEF Writes
  <2> QED
    BY <1>3, <2>1, Zenon DEF Writes, SocketMove
<1>4. CASE \/ HandshakeEnds \/ CloseDeadline \/ SetDeadlineApplies
           \/ WriteReturns \/ Tick \/ WriteEnds
           \/ S!WriteArms /\ UNCHANGED <<vars, phase, closeFrame>>
  BY <1>4, Zenon
     DEF HandshakeEnds, CloseDeadline, SetDeadlineApplies, WriteReturns, Tick, WriteEnds,
         SocketMove
<1> QED
  BY <1>1, <1>2, <1>3, <1>4, Zenon DEF JointNext, WriteStep

\* The types of the deadlines and positions of the socket.
SocketTypes ==
  /\ baseDeadline \in S!Deadlines /\ sockDeadline \in S!Deadlines
  /\ wpc \in {"idle", "arm", "flight", "after"} /\ wdeadline \in S!Deadlines
  /\ spc \in {"idle", "apply"} /\ sdeadline \in S!Deadlines
  /\ lasted \in S!Deadlines /\ overlapped \in BOOLEAN

\* Write, SetDeadline and the passing of time keep them.
LEMMA SocketTypesStep ==
  ASSUME SocketTypes, SocketMove
  PROVE  SocketTypes'
<1>1. /\ 0 \in S!Deadlines /\ S!Never \in S!Deadlines /\ WriteTimeout \in S!Deadlines
      /\ HandshakeTimeout \in S!Deadlines /\ CloseTimeout \in S!Deadlines
      /\ \A d \in S!Deadlines : S!Less(d) \in S!Deadlines
      /\ \A d \in S!Deadlines : S!Earlier(d, WriteTimeout) \in S!Deadlines
      /\ \A d \in S!Deadlines : d < S!Never => d + 1 \in S!Deadlines
  BY SocketAssumption DEF S!Deadlines, S!Never, S!Less, S!Earlier
<1>2. CASE UNCHANGED socketVars
  BY <1>2, Zenon DEF socketVars, SocketTypes
<1>3. CASE S!handshakeDial
  BY <1>1, <1>3, Zenon DEF S!handshakeDial, S!writeVars, S!setVars, SocketTypes
<1>4. ASSUME NEW d \in S!Deadlines, S!SetDeadline(d) PROVE SocketTypes'
  <2>1. (wpc # "idle") \in BOOLEAN
    OBVIOUS
  <2> QED
    BY <1>4, <2>1, Zenon DEF S!SetDeadline, S!writeVars, SocketTypes
<1>5. CASE S!Closed
  BY <1>1, <1>5, Zenon DEF S!Closed, SocketTypes
<1>6. CASE S!WriteBegins
  BY <1>1, <1>6, Zenon DEF S!WriteBegins, S!setVars, SocketTypes
<1>7. CASE S!WriteArms \/ S!WriteReturns
  BY <1>1, <1>7, Zenon DEF S!WriteArms, S!WriteReturns, S!setVars, SocketTypes
<1>8. CASE S!SetDeadlineApplies
  <2>1. (wpc # "idle") \in BOOLEAN
    OBVIOUS
  <2> QED
    BY <1>1, <1>8, <2>1, Zenon DEF S!SetDeadlineApplies, S!writeVars, SocketTypes
<1>9. CASE S!Tick
  BY <1>1, <1>9, Zenon DEF S!Tick, S!setVars, SocketTypes
<1>10. CASE S!WriteRestores
  BY <1>10, Zenon DEF S!WriteRestores, S!setVars, SocketTypes
<1> QED
  BY <1>1, <1>2, <1>3, <1>4, <1>5, <1>6, <1>7, <1>8, <1>9, <1>10, Zenon DEF SocketMove

\* amqp091 sets three deadlines at most, and the phase says how many.
LEMMA PhaseStep ==
  ASSUME PhaseInv, SocketMove, dialled # 0 => dialled' # 0, dialled + 1 # 0,
         phase \in {"none", "handshake", "opened", "open", "closing", "sent", "down"},
         closeFrame \in BOOLEAN, version \in 0..3, wversion \in 0..3
  PROVE  /\ PhaseInv' /\ closeFrame' \in BOOLEAN /\ version' \in 0..3 /\ wversion' \in 0..3
         /\ phase' \in {"none", "handshake", "opened", "open", "closing", "sent", "down"}
<1>1. CASE UNCHANGED <<socketVars, phase, closeFrame>>
  BY <1>1, Zenon DEF socketVars, PhaseInv
<1>2. CASE phase = "none" /\ S!handshakeDial /\ phase' = "handshake" /\ UNCHANGED closeFrame
  BY <1>2 DEF S!handshakeDial, S!writeVars, PhaseInv
<1>3. CASE phase = "handshake" /\ S!SetDeadline(S!Never) /\ phase' = "opened"
           /\ UNCHANGED closeFrame
  BY <1>3 DEF S!SetDeadline, S!writeVars, PhaseInv
<1>4. CASE /\ phase = "opened" /\ phase' = "open" /\ dialled' = dialled + 1
           /\ UNCHANGED <<socketVars, closeFrame>>
  BY <1>4 DEF socketVars, PhaseInv
<1>5. CASE S!Closed /\ phase' \in {"none", "down"} /\ closeFrame' = FALSE
  <2>1. /\ 0 \in 0..3
        /\ phase' \notin {"handshake", "opened", "open", "closing", "sent"}
    BY <1>5
  <2> QED
    BY <1>5, <2>1, Zenon DEF S!Closed, PhaseInv
<1>6. CASE /\ phase \in {"handshake", "opened", "open", "closing", "sent"}
           /\ S!WriteBegins /\ closeFrame' \in BOOLEAN /\ (closeFrame' => phase = "closing")
           /\ UNCHANGED phase
  BY <1>6, Zenon DEF S!WriteBegins, PhaseInv
<1>7. CASE /\ S!WriteArms \/ S!WriteReturns \/ S!SetDeadlineApplies \/ S!Tick
           /\ UNCHANGED <<phase, closeFrame>>
  BY <1>7 DEF S!WriteArms, S!WriteReturns, S!SetDeadlineApplies, S!Tick, S!writeVars, PhaseInv
<1>8. CASE /\ S!WriteRestores /\ phase' = (IF closeFrame THEN "sent" ELSE phase)
           /\ closeFrame' = FALSE
  <2>1. 0 \in 0..3
    OBVIOUS
  <2> QED
    BY <1>8, <2>1, Zenon DEF S!WriteRestores, PhaseInv
<1>9. CASE phase = "open" /\ S!SetDeadline(CloseTimeout) /\ phase' = "closing"
           /\ UNCHANGED closeFrame
  BY <1>9 DEF S!SetDeadline, S!writeVars, PhaseInv
<1> QED
  BY <1>1, <1>2, <1>3, <1>4, <1>5, <1>6, <1>7, <1>8, <1>9, Zenon DEF SocketMove

\* The deadline of a write is armed as the earlier one and both run down together.
LEMMA WriteInvStep ==
  ASSUME SocketTypes, WriteInv, PhaseInv, SocketMove
  PROVE  WriteInv'
<1>0. /\ baseDeadline \in Nat /\ sockDeadline \in Nat /\ wdeadline \in Nat /\ lasted \in Nat
      /\ WriteTimeout \in Nat /\ S!Never \in Nat /\ WriteTimeout < S!Never
      /\ baseDeadline <= S!Never
  BY SocketAssumption DEF SocketTypes, S!Deadlines, S!Never
<1>1. CASE UNCHANGED socketVars
  BY <1>1, Zenon DEF socketVars, WriteInv, WriteBounded
<1>2. CASE phase = "none" /\ S!handshakeDial
  BY <1>2, SMT DEF S!handshakeDial, S!writeVars, PhaseInv, WriteInv, WriteBounded
<1>3. ASSUME NEW d, S!SetDeadline(d) PROVE WriteInv'
  BY <1>3, Zenon DEF S!SetDeadline, S!writeVars, WriteInv, WriteBounded
<1>4. CASE S!Closed
  BY <1>4, SMT DEF S!Closed, WriteInv, WriteBounded
<1>5. CASE S!WriteBegins
  BY <1>0, <1>5, SMT DEF S!WriteBegins, S!Earlier, WriteInv, WriteBounded
<1>6. CASE S!WriteArms
  BY <1>0, <1>6, SMT DEF S!WriteArms, WriteInv, WriteBounded
<1>7. CASE S!WriteReturns \/ S!WriteRestores
  BY <1>7, SMT DEF S!WriteReturns, S!WriteRestores, WriteInv, WriteBounded
<1>8. CASE S!SetDeadlineApplies
  BY <1>8, Zenon DEF S!SetDeadlineApplies, S!writeVars, WriteInv, WriteBounded
<1>9. CASE S!Tick
  BY <1>0, <1>9, SMT DEF S!Tick, S!TimesOut, S!Less, WriteInv, WriteBounded
<1> QED
  BY <1>1, <1>2, <1>3, <1>4, <1>5, <1>6, <1>7, <1>8, <1>9, Zenon DEF SocketMove

\* Connections are only counted up.
LEMMA DialledGrows ==
  ASSUME IInv, [Next]_vars
  PROVE  dialled # 0 => dialled' # 0
<1>1. UNCHANGED dialled \/ dialled' = dialled + 1
  BY Zenon DEF vars, Next, DialStep, CloseStep, WatchStep, DialBegins, DialStores, DialDiscards,
               DialAnnounces, DialSucceeds, DialFails, WatchAttaches, WatchNotified, LoopChecks,
               LoopStores, LoopRechecks, LoopAnnounces, LoopEnds, DialContextReturns,
               DialContextCancelled, CancelTakes, CancelCloses, CancelReturns, CloseBegins,
               CloseReports, CloseReads, CloseCloses, ConnectionLost, goFrame
<1>2. dialled \in Nat
  BY ConnectionAssumption DEF IInv, TypeOK, Goroutines
<1> QED
  BY <1>1, <1>2, SMTT(20)

\* A connection without a socket starts well.
LEMMA JointInitInv == ASSUME JointInit PROVE JointInv
<1>1. IInv
  BY InitInv, Zenon DEF JointInit
<1>2. 0 \in S!Deadlines /\ S!Never \in S!Deadlines /\ 0 \in 0..3
  BY SocketAssumption DEF S!Deadlines, S!Never
<1>3. JointTypeOK
  BY <1>1, <1>2, Zenon DEF JointInit, S!Init, JointTypeOK, S!TypeOK, IInv
<1>4. WriteInv /\ PhaseInv
  BY SMT DEF JointInit, S!Init, WriteInv, WriteBounded, PhaseInv
<1> QED
  BY <1>1, <1>3, <1>4, Zenon DEF JointInv

\* Every step of the whole preserves the joint invariant.
LEMMA JointInductive == ASSUME JointInv, [JointNext]_allVars PROVE JointInv' /\ [Next]_vars
<1>0. JointTypeOK /\ TypeOK /\ IInv /\ WriteInv /\ PhaseInv /\ SocketTypes
  BY Zenon DEF JointInv, JointTypeOK, S!TypeOK, SocketTypes
<1>1. [Next]_vars
  BY <1>0, JointStepsConnection, Zenon
<1>2. IInv'
  BY <1>0, <1>1, Inductive, Zenon
<1>3. SocketTypes' /\ WriteInv'
  BY <1>0, SocketMoves, SocketTypesStep, WriteInvStep, Zenon
<1>4. dialled + 1 # 0
  BY <1>0, ConnectionAssumption DEF TypeOK, Goroutines
<1>5. /\ PhaseInv' /\ closeFrame' \in BOOLEAN /\ version' \in 0..3 /\ wversion' \in 0..3
      /\ phase' \in {"none", "handshake", "opened", "open", "closing", "sent", "down"}
  BY <1>0, <1>1, <1>4, DialledGrows, SocketMoves, PhaseStep, Zenon DEF JointTypeOK, S!TypeOK
<1>6. JointTypeOK'
  BY <1>2, <1>3, <1>5, Zenon DEF JointTypeOK, S!TypeOK, IInv, SocketTypes
<1> QED
  BY <1>1, <1>2, <1>3, <1>5, <1>6, Zenon DEF JointInv
-----------------------------------------------------------------------------
\* The variables of the connection and of its socket keep their types.
THEOREM TypeCorrect == JointSpec => []JointTypeOK
<1>1. JointInv => JointTypeOK
  BY Zenon DEF JointInv
<1> QED
  BY <1>1, JointInitInv, JointInductive, PTL DEF JointSpec

\* The connection on its socket behaves as Connection says: whatever the timing
\* of writes and deadlines, it takes no step the connection alone could not take.
THEOREM SocketImplementsConnection == JointSpec => Spec
<1>1. JointInit => Init
  BY Zenon DEF JointInit
<1> QED
  BY <1>1, JointInitInv, JointInductive, PTL DEF JointSpec, Spec

\* However Close, a cancelled DialContext and the loss of connections interleave,
\* one connection at most is open, and one goroutine at most watches or dials.
THEOREM AtMostOneConnection == JointSpec => []OneConnection
<1>1. JointInv => OneConnection
  BY InvImplies, Zenon DEF JointInv
<1> QED
  BY <1>1, JointInitInv, JointInductive, PTL DEF JointSpec

\* Health says connected only while c.conn is open or its loss is about to be
\* noticed, and stopped once Start has returned.
THEOREM HealthIsHonest == JointSpec => []HealthHonest
<1>1. JointInv => HealthHonest
  BY InvImplies, Zenon DEF JointInv
<1> QED
  BY <1>1, JointInitInv, JointInductive, PTL DEF JointSpec

\* A write that no SetDeadline overlaps ends within WriteTimeout and within the
\* deadline amqp091 has set, for any values of the timeouts.
THEOREM WritesAreBounded == JointSpec => []WriteBounded
<1>1. JointInv => WriteBounded
  BY Zenon DEF JointInv, WriteInv
<1> QED
  BY <1>1, JointInitInv, JointInductive, PTL DEF JointSpec
=============================================================================
