-------------------------- MODULE SenderLayerProofs -------------------------
(***************************************************************************)
(* The first layers of the invariant of Sender, for any number of calls,   *)
(* channels, connections and faults.                                       *)
(***************************************************************************)
EXTENDS SenderInv, TLAPS
-----------------------------------------------------------------------------
(* Type correctness, and what the steps of a call and of a watcher leave   *)
(* alone.                                                                  *)

\* What a drain of s.pending leaves behind.
LEMMA DrainType ==
  ASSUME TypeOK, failPendingLocked
  PROVE  /\ pending' = {} /\ nextTag' = 0
         /\ resultCh' \in [Senders -> Results \cup {"empty"}]
         /\ \A p \in Senders : resultCh'[p] =
              IF p \in pending /\ resultCh[p] = "empty" THEN "closed" ELSE resultCh[p]
BY Zenon DEF failPendingLocked, TypeOK, Results

\* Calls and confirms touch channels only through callCh.
LEMMA CallFootprint ==
  ASSUME TypeOK, CallerStep
  PROVE  /\ UNCHANGED <<envVars, workVars, structVars, chState, chConn>>
         /\ \A c \in Channels : (\A m \in Messages : callCh[m] # c) /\ c # ch =>
              /\ seq'[c] = seq[c] /\ (c \in desync' <=> c \in desync)
              /\ \A m \in Messages : callCh'[m] # c
<1> DEFINE Footprint ==
      /\ UNCHANGED <<envVars, workVars, structVars, chState, chConn>>
      /\ \A c \in Channels : (\A m \in Messages : callCh[m] # c) /\ c # ch =>
           /\ seq'[c] = seq[c] /\ (c \in desync' <=> c \in desync)
           /\ \A m \in Messages : callCh'[m] # c
<1>0. seq \in [Channels -> Nat] /\ callCh \in [Messages -> Channels \cup {None}]
  BY Zenon DEF TypeOK
<1> USE DEF callFrame, envFrame, callVars, brokerVars, Messages
<1>1. ASSUME NEW m \in Messages, AcquireTimeout(m) PROVE Footprint
  BY <1>1, Zenon DEF AcquireTimeout
<1>2. ASSUME NEW p \in Senders, CallStep(p) PROVE Footprint
  <2>1. CASE Register(p)
    BY <1>0, <2>1, Zenon DEF Register
  <2>2. CASE Publish(p)
    BY <1>0, <2>2, Zenon DEF Publish, BrokerCounts
  <2>3. CASE ReturnResult(p) \/ ReturnTimeout(p)
    BY <2>3, Zenon DEF ReturnResult, ReturnTimeout
  <2>4. ASSUME NEW why \in {"ctx", "unavailable"}, SendAborted(p, why) PROVE Footprint
    BY <1>0, <2>4, Zenon DEF SendAborted
  <2> HIDE DEF Footprint
  <2> QED
    BY <1>2, <2>1, <2>2, <2>3, <2>4, Zenon DEF CallStep
<1>3. ASSUME NEW n \in Notifiers, NotifyStep(n) PROVE Footprint
  <2>1. CASE NotifyAcquire(n)
    BY <1>0, <2>1, Zenon DEF NotifyAcquire
  <2>2. CASE NotifyPublish(n)
    BY <1>0, <2>2, Zenon DEF NotifyPublish, BrokerCounts
  <2>3. CASE NotifyFails(n)
    BY <1>0, <2>3, Zenon DEF NotifyFails
  <2> HIDE DEF Footprint
  <2> QED
    BY <1>3, <2>1, <2>2, <2>3, Zenon DEF NotifyStep
<1>4. ASSUME NEW m \in Messages, NEW v \in Verdicts, BrokerConfirms(m, v) PROVE Footprint
  BY <1>4, Zenon DEF BrokerConfirms
<1>5. ASSUME UNCHANGED vars PROVE Footprint
  BY <1>5, Zenon DEF vars
<1>6. Footprint
  <2> HIDE DEF Footprint
  <2> QED
    BY <1>1, <1>2, <1>3, <1>4, <1>5, Zenon DEF CallerStep
<1> QED
  BY <1>6, Zenon

\* A watcher only moves itself on; it ends when its generation is over or the
\* connection is down.
LEMMA WatchFootprint ==
  ASSUME TypeOK, NEW c \in Channels, WatchStep(c)
  PROVE  /\ UNCHANGED <<wgen, wreq, wch, envVars, structVars, chState, chConn>>
         /\ UNCHANGED <<seq, callCh, desync>>
         /\ wpc[c] \in {"watch", "deliver", "drained"}
         /\ \E s \in {"watch", "deliver", "drained", "begin", "done"} :
              /\ wpc' = [wpc EXCEPT ![c] = s]
              /\ s = "done" => ~connOpen \/ gen # wgen[c]
<1>0. wpc' = wpc => wpc' = [wpc EXCEPT ![c] = wpc[c]]
  BY DEF TypeOK
<1> USE DEF workFrame, callVars, brokerVars
<1>1. CASE Deliver(c)
  BY <1>1, Zenon DEF Deliver
<1>2. CASE onChannelClosed(c)
  BY <1>2, Zenon DEF onChannelClosed
<1>3. CASE SelfHeal(c)
  BY <1>3, Zenon DEF SelfHeal
<1>4. ASSUME NEW m \in Messages, DispatchConfirm(c, m)
      PROVE  /\ UNCHANGED <<wgen, wreq, wch, envVars, structVars, chState, chConn>>
             /\ UNCHANGED <<seq, callCh, desync>> /\ wpc[c] = "watch"
             /\ wpc' = [wpc EXCEPT ![c] = "watch"] \/ wpc' = [wpc EXCEPT ![c] = "deliver"]
  BY <1>0, <1>4, Zenon DEF DispatchConfirm
<1> QED
  BY <1>1, <1>2, <1>3, <1>4, Zenon DEF WatchStep

\* The parts of the type invariant.
LEMMA TypeParts == TypeInv <=> EnvTypes /\ WorkTypes /\ CallTypes /\ BrokerTypes
BY Zenon DEF TypeInv, TypeOK, EnvTypes, WorkTypes, CallTypes, BrokerTypes

\* Every action keeps every variable in its type.
LEMMA TypeStep == TypeInv /\ [Next]_vars => TypeInv'
<1> SUFFICES ASSUME TypeInv, [Next]_vars
             PROVE  EnvTypes' /\ WorkTypes' /\ CallTypes' /\ BrokerTypes'
  BY Zenon DEF TypeInv, TypeOK, EnvTypes, WorkTypes, CallTypes, BrokerTypes
<1>0. TypeOK /\ EnvTypes /\ WorkTypes /\ CallTypes /\ BrokerTypes
  BY TypeParts, Zenon DEF TypeInv
<1> DEFINE Typed == EnvTypes' /\ WorkTypes' /\ CallTypes' /\ BrokerTypes'
<1> USE SenderAssumption DEF Messages, Workers
<1>1. CASE CallerStep
  <2>0. UNCHANGED <<envVars, workVars, structVars, chState, chConn>>
    BY <1>0, <1>1, CallFootprint, Zenon
  <2>1. EnvTypes' /\ WorkTypes'
    BY <1>0, <2>0, Zenon DEF EnvTypes, WorkTypes, envVars, workVars, structVars
  <2> DEFINE Rest == CallTypes' /\ BrokerTypes'
  <2>a. ch \in Channels \cup {None}
    BY <1>0, Zenon DEF WorkTypes
  <2> USE <1>0, <2>0, <2>a DEF CallTypes, BrokerTypes, Results, Returns, workVars
  <2>2. ASSUME NEW m \in Messages, AcquireTimeout(m) PROVE Rest
    BY <2>2, Zenon DEF AcquireTimeout, waitVars, callFrame, brokerVars, dispatchVars
  <2>3. ASSUME NEW p \in Senders, CallStep(p) PROVE Rest
    <3> USE DEF callFrame, brokerVars, dispatchVars, waitVars
    <3>1. CASE Register(p)
      BY <3>1, SMTT(20) DEF Register
    <3>2. CASE Publish(p)
      BY <3>2 DEF Publish, BrokerCounts
    <3>3. CASE ReturnResult(p)
      BY <3>3, ZenonT(30) DEF ReturnResult
    <3>4. CASE ReturnTimeout(p)
      BY <3>4, Zenon DEF ReturnTimeout
    <3>5. ASSUME NEW why \in {"ctx", "unavailable"}, SendAborted(p, why) PROVE Rest
      BY <3>5, SMTT(20) DEF SendAborted, rollbackTag
    <3> HIDE DEF Rest
    <3> QED
      BY <2>3, <3>1, <3>2, <3>3, <3>4, <3>5, Zenon DEF CallStep
  <2>4. ASSUME NEW n \in Notifiers, NotifyStep(n) PROVE Rest
    <3> USE DEF callFrame, brokerVars, dispatchVars, waitVars
    <3>1. CASE NotifyAcquire(n)
      BY <3>1, ZenonT(30) DEF NotifyAcquire
    <3>2. CASE NotifyPublish(n)
      BY <3>2, SMTT(20) DEF NotifyPublish, BrokerCounts
    <3>3. CASE NotifyFails(n)
      BY <3>3, ZenonT(30) DEF NotifyFails
    <3> HIDE DEF Rest
    <3> QED
      BY <2>4, <3>1, <3>2, <3>3, Zenon DEF NotifyStep
  <2>5. ASSUME NEW m \in Messages, NEW v \in Verdicts, BrokerConfirms(m, v) PROVE Rest
    BY <2>5, Zenon DEF BrokerConfirms, envFrame, callVars, dispatchVars, waitVars
  <2>6. ASSUME UNCHANGED vars PROVE Rest
    BY <2>6, Zenon DEF vars, callVars, brokerVars, dispatchVars, waitVars
  <2>7. Rest
    <3> HIDE DEF Rest
    <3> QED
      BY <1>1, <2>2, <2>3, <2>4, <2>5, <2>6, Zenon DEF CallerStep
  <2> QED
    BY <2>1, <2>7, Zenon
<1>2. ASSUME NEW c \in Channels, WatchStep(c) PROVE Typed
  <2>0. UNCHANGED <<wgen, wreq, wch, envVars, structVars, chState, chConn>>
        /\ \E s \in {"watch", "deliver", "drained", "begin", "done"} :
             wpc' = [wpc EXCEPT ![c] = s]
    BY <1>0, <1>2, WatchFootprint, Zenon
  <2>1. EnvTypes' /\ WorkTypes'
    BY <1>0, <2>0, SMTT(20) DEF EnvTypes, WorkTypes, envVars, structVars
  <2> DEFINE Rest == CallTypes' /\ BrokerTypes'
  <2> USE <1>0 DEF WorkTypes, CallTypes, BrokerTypes, Results, callVars, brokerVars, dispatchVars,
          waitVars, workFrame
  <2>2. ASSUME Deliver(c) PROVE Rest
    BY <2>2, ZenonT(30) DEF Deliver
  <2>3. ASSUME onChannelClosed(c) PROVE Rest
    BY <2>3, DrainType, SMTT(20) DEF onChannelClosed
  <2>4. ASSUME SelfHeal(c) PROVE Rest
    BY <2>4, Zenon DEF SelfHeal
  <2>5. ASSUME NEW m \in Messages, DispatchConfirm(c, m) PROVE Rest
    <3>1. CallTypes'
      BY <2>5, Zenon DEF DispatchConfirm
    <3>2. verdict[m] \in Verdicts /\ UNCHANGED <<seq, pos, verdict, desync>>
          /\ seen' \in [Channels -> Nat]
      BY <2>5, ZenonT(30) DEF DispatchConfirm
    <3>3. CASE UNCHANGED <<dto, dv, wpc>>
      BY <3>1, <3>2, <3>3, Zenon
    <3>4. ASSUME NEW p \in pending, dto' = [dto EXCEPT ![c] = p],
                 dv' = [dv EXCEPT ![c] = verdict[m]], wpc' = [wpc EXCEPT ![c] = "deliver"]
          PROVE  Rest
      BY <3>1, <3>2, <3>4
    <3> QED
      BY ONLY <2>5, <3>3, <3>4, Zenon DEF DispatchConfirm
  <2>6. Rest
    <3> HIDE DEF Rest
    <3> QED
      BY <1>2, <2>2, <2>3, <2>4, <2>5, Zenon DEF WatchStep
  <2> QED
    BY <2>1, <2>6, Zenon
<1>3. ASSUME NEW w \in Workers, RebuildStep(w) PROVE Typed
  <2>1. /\ UNCHANGED <<seq, pos, verdict, callVars, dispatchVars, desync, conn, connOpen, hooked>>
        /\ faults' = faults \/ (faults < MaxFaults /\ faults' = faults + 1)
        /\ UNCHANGED waitVars \/ failPendingLocked
    <3> USE DEF workFrame, envVars, brokerVars, RebuildFails
    <3>1. CASE RebuildBegin(w)
      BY ONLY <3>1, Zenon DEF RebuildBegin
    <3>2. CASE RebuildOpenFails(w)
      BY ONLY <3>2, Zenon DEF RebuildOpenFails
    <3>3. CASE RebuildCheck(w)
      BY ONLY <3>3, Zenon DEF RebuildCheck
    <3>4. CASE RebuildInstall(w)
      BY ONLY <3>4, Zenon DEF RebuildInstall
    <3>5. CASE RebuildFinish(w)
      BY ONLY <3>5, Zenon DEF RebuildFinish
    <3>6. ASSUME NEW c \in Channels, RebuildOpen(w, c)
          PROVE  /\ UNCHANGED <<seq, pos, verdict, callVars, dispatchVars, desync, waitVars>>
                 /\ UNCHANGED <<conn, connOpen, hooked, faults>>
      BY ONLY <3>6, Zenon DEF RebuildOpen
    <3> QED
      BY ONLY <1>3, <3>1, <3>2, <3>3, <3>4, <3>5, <3>6, Zenon DEF RebuildStep
  <2> DEFINE Work == WorkTypes' /\ \A c \in Channels : wpc'[c] = "deliver" => wpc[c] = "deliver"
  <2>2. Work
    <3>0. conn' = conn
      BY <2>1, Zenon
    <3> USE <1>0, <3>0 DEF WorkTypes, workFrame, brokerVars, structVars
    <3>1. ASSUME RebuildBegin(w) PROVE Work
      BY <3>1 DEF RebuildBegin
    <3>2. ASSUME RebuildFails(w) PROVE Work
      BY <3>2, Zenon DEF RebuildFails
    <3>3. ASSUME RebuildCheck(w) PROVE Work
      BY <3>2, <3>3, ZenonT(30) DEF RebuildCheck
    <3>4. ASSUME RebuildInstall(w) PROVE Work
      BY <3>4, SMTT(20) DEF RebuildInstall
    <3>5. ASSUME RebuildFinish(w) PROVE Work
      BY <3>5, Zenon DEF RebuildFinish
    <3>6. ASSUME NEW c \in Channels, RebuildOpen(w, c) PROVE Work
      BY <3>6, Zenon DEF RebuildOpen
    <3> HIDE DEF Work
    <3> QED
      BY ONLY <1>3, <3>1, <3>2, <3>3, <3>4, <3>5, <3>6, Zenon DEF RebuildStep, RebuildOpenFails
  <2>3. EnvTypes'
    BY <1>0, <2>1, SMTT(20) DEF EnvTypes
  <2>4. CallTypes'
    BY <1>0, <2>1, DrainType DEF CallTypes, callVars, waitVars
  <2>5. BrokerTypes'
    BY <1>0, <2>1, <2>2, Zenon DEF BrokerTypes, dispatchVars
  <2> QED
    BY <2>2, <2>3, <2>4, <2>5, Zenon
<1>4. ASSUME NEW k \in Conns, Reconnect(k) PROVE Typed
  <2>1. /\ UNCHANGED <<wreq, wch, callVars, brokerVars, envVars, dispatchVars, structVars, chState>>
        /\ UNCHANGED waitVars \/ failPendingLocked
        /\ \E s \in {"begin", "skipped"} : wpc' = [wpc EXCEPT ![k] = s]
        /\ wgen' = wgen \/ wgen' = [wgen EXCEPT ![k] = gen]
        /\ \A c \in desync' : c \in desync \cup Channels
    BY ONLY <1>4, ZenonT(30) DEF Reconnect
  <2>2. EnvTypes' /\ WorkTypes'
    BY <1>0, <2>1, SMTT(20) DEF EnvTypes, WorkTypes, envVars, structVars, brokerVars
  <2>3. CallTypes'
    BY <1>0, <2>1, DrainType DEF CallTypes, callVars, waitVars
  <2>4. BrokerTypes'
    BY <1>0, <2>1, Zenon DEF BrokerTypes, WorkTypes, brokerVars, dispatchVars
  <2> QED
    BY <2>2, <2>3, <2>4, Zenon
<1>5. CASE EnvironmentStep
  <2> USE <1>0 DEF EnvTypes, WorkTypes, CallTypes, BrokerTypes, envFrame, workFrame, callVars,
          brokerVars, envVars, workVars, dispatchVars, structVars, waitVars
  <2>1. CASE OnReconnect \/ ConnectionDrops
    <3>1. EnvTypes'
      BY <2>1, ZenonT(30) DEF OnReconnect, ConnectionDrops
    <3>2. WorkTypes' /\ CallTypes' /\ BrokerTypes'
      BY <2>1 DEF OnReconnect, ConnectionDrops
    <3> QED
      BY <3>1, <3>2, Zenon
  <2>2. ASSUME NEW k \in Conns, ConnectionRestored(k) PROVE Typed
    BY <2>2, Zenon DEF ConnectionRestored
  <2>3. ASSUME NEW c \in Channels, ChannelShutdown(c) PROVE Typed
    BY <2>3, ZenonT(30) DEF ChannelShutdown
  <2>4. ASSUME NEW c \in Channels, ChannelClosedByBroker(c) PROVE Typed
    BY <2>4, SMTT(20) DEF ChannelClosedByBroker
  <2> HIDE DEF EnvTypes, WorkTypes, CallTypes, BrokerTypes
  <2> QED
    BY <1>1, <1>5, <2>1, <2>2, <2>3, <2>4, ZenonT(30) DEF EnvironmentStep, CallerStep
<1> QED
  BY <1>1, <1>2, <1>3, <1>4, <1>5, Zenon DEF Next, CallerStep

\* The initial state is typed.
LEMMA TypeInit == Init => TypeInv
<1> SUFFICES ASSUME Init PROVE TypeInv
  BY Zenon
<1> USE SenderAssumption DEF Init, Messages, Workers, Verdicts, Results, Returns
<1>1. /\ wpc \in [Workers -> {"begin", "none"}]
      /\ resultCh \in [Senders -> {"empty"}] /\ ret \in [Messages -> {"none"}]
      /\ verdict \in [Messages -> {"none"}] /\ dv \in [Channels -> {"none"}]
      /\ \A c \in Channels : wpc[c] # "deliver"
  BY Zenon
<1>2. connOpen \in BOOLEAN /\ hooked \in BOOLEAN /\ wreq \in [Workers -> BOOLEAN]
  BY ZenonT(30)
<1>3. faults \in 0..MaxFaults
  OBVIOUS
<1>4. TypeOK
  BY <1>1, <1>2, <1>3, Zenon DEF TypeOK
<1> QED
  BY <1>1, <1>4, Zenon DEF TypeInv

\* The type invariant of the sender, for every number of calls and channels.
THEOREM TypeCorrect == Spec => []TypeOK
<1>1. TypeInv => TypeOK
  BY Zenon DEF TypeInv
<1> QED
  BY <1>1, TypeInit, TypeStep, PTL DEF Spec
-----------------------------------------------------------------------------
(* The first layer of the invariant, the goroutines: rebuildMu, the        *)
(* generations and the life of a channel. No channel leaks, and recovery   *)
(* always has an owner.                                                    *)

\* A step that builds nothing, installs nothing and touches no fresh channel
\* keeps the life of the channels.
LEMMA ChannelKept ==
  ASSUME ChannelInv, UNCHANGED <<ch, wch, chState>>, ch \in Workers \cup {None},
         \A c \in Channels : Fresh(c) => Fresh(c)',
         \A v \in Workers : /\ wpc'[v] \in {"check", "install", "close"} => wpc'[v] = wpc[v]
                            /\ wpc[v] \in {"check", "install", "close"} => wpc'[v] = wpc[v],
         ch \in Workers /\ wpc[ch] = "none" => wpc'[ch] = "none"
  PROVE  ChannelInv'
<1>1. \A c \in Channels : chState'[c] = "unopened" => Fresh(c)'
  BY Zenon DEF ChannelInv
<1>2. \A v \in Workers : wpc'[v] \in {"check", "install"} =>
        wch'[v] \in Channels /\ chState'[wch'[v]] # "unopened" /\ Fresh(wch[v])'
  <2>1. \A v \in Workers : wpc'[v] \in {"check", "install"} => wpc[v] \in {"check", "install"}
    BY SMTT(20)
  <2>2. \A v \in Workers : wpc'[v] \in {"check", "install"} =>
          wch[v] \in Channels /\ chState[wch[v]] # "unopened" /\ Fresh(wch[v])
    BY <2>1, Zenon DEF ChannelInv
  <2>3. ASSUME NEW v \in Workers, wpc'[v] \in {"check", "install"}
        PROVE  wch'[v] \in Channels /\ chState'[wch'[v]] # "unopened" /\ Fresh(wch[v])'
    <3>1. PICK c \in Channels : c = wch[v] /\ Fresh(c) /\ chState[c] # "unopened"
      BY <2>2, <2>3, Zenon
    <3>2. Fresh(c)' /\ wch'[v] = c
      BY <3>1, Zenon
    <3> QED
      BY <3>1, <3>2, Zenon DEF Fresh
  <2> QED
    BY <2>3, Zenon
<1>3. \A v \in Workers : wpc'[v] = "close" => ch' # None /\ wpc'[ch'] = "none" /\ wch'[v] # ch'
  BY SMTT(20) DEF ChannelInv
<1>4. \A v \in Workers : wpc'[v] \notin {"check", "install", "close"} => wch'[v] = None
  BY SMTT(20) DEF ChannelInv
<1>5. ch' # None => chState'[ch'] # "unopened"
  BY Zenon DEF ChannelInv
<1> QED
  BY <1>1, <1>2, <1>3, <1>4, <1>5, Zenon DEF ChannelInv

\* One step per action; only rebuild moves gen, and only under rebuildMu.
LEMMA GoroutineStep == TypeInv /\ GoroutineInv /\ [Next]_vars => GoroutineInv'
<1> SUFFICES ASSUME TypeInv, GoroutineInv, [Next]_vars PROVE GoroutineInv'
  BY Zenon
<1>0. WorkTypes
  BY TypeParts, Zenon
<1>i. MutexInv /\ BootInv /\ GenInv /\ ChannelInv /\ ConnInv
  BY Zenon DEF GoroutineInv
<1>1. CASE CallerStep
  <2>0. TypeOK
    BY Zenon DEF TypeInv
  <2>1. \A c \in Channels : Fresh(c) => Fresh(c)'
    BY ONLY <2>0, <1>1, CallFootprint, SMTT(20) DEF Fresh, workVars, structVars
  <2>2. MutexInv' /\ BootInv' /\ GenInv' /\ ConnInv'
    BY ONLY <2>0, <1>1, CallFootprint, <1>i, SMTT(20) DEF MutexInv, BootInv, GenInv, ConnInv,
       Constructed, envVars, workVars, structVars
  <2>3. ChannelInv'
    BY <2>1, <2>0, <1>1, CallFootprint, ZenonT(30) DEF GoroutineInv, ChannelInv, workVars,
       structVars
  <2> QED
    BY <2>2, <2>3, Zenon DEF GoroutineInv
<1>2. ASSUME NEW w \in Workers, RebuildStep(w) PROVE GoroutineInv'
  <2>1. CASE RebuildBegin(w)
    <3>1. /\ wpc[w] = "begin" /\ rebuildMu = None
          /\ UNCHANGED <<conn, hooked, callCh, chConn, seq, wgen, wreq, wch, ch, gen, chState,
                        desync>>
      BY <2>1, Zenon DEF RebuildBegin, workFrame, callVars, brokerVars, envVars
    <3>2. \/ /\ wpc' = [wpc EXCEPT ![w] = "done"] /\ UNCHANGED rebuildMu
             /\ gen = 0 => wgen[w] # 0 \/ wreq[w]
          \/ wpc' = [wpc EXCEPT ![w] = "open"] /\ rebuildMu' = w /\ gen = wgen[w]
      BY <2>1, ZenonT(30) DEF RebuildBegin, RebuildSuperseded
    <3>3. MutexInv' /\ ConnInv'
      BY ONLY <3>1, <3>2, <1>0, SenderAssumption, <1>i, w \in Workers, SMTT(20) DEF WorkTypes,
         Workers, MutexInv, ConnInv, Rebuilding
    <3>4. BootInv' /\ GenInv'
      BY <3>1, <3>2, <1>0, SenderAssumption, ZenonT(30)
         DEF WorkTypes, Workers, GoroutineInv, BootInv,
         Constructed, GenInv
    <3>5. ChannelInv'
      <4>1. \A c \in Channels : Fresh(c) => Fresh(c)'
        BY <3>1, <3>2, <1>0, ZenonT(30) DEF WorkTypes, Workers, Fresh
      <4>2. \A v \in Workers \ {w} : wpc'[v] = wpc[v]
        BY <3>2, <1>0, Zenon DEF WorkTypes
      <4>3. wpc'[w] \in {"done", "open"}
        BY <3>2, <1>0, Zenon DEF WorkTypes
      <4>4. \A v \in Workers : wpc'[v] \in {"check", "install", "close"} => wpc[v] = wpc'[v]
        BY <4>2, <4>3, ZenonT(30)
      <4>5. \A v \in Workers : wpc[v] \in {"check", "install", "close", "none"} => wpc'[v] = wpc[v]
        BY <3>1, <4>2, ZenonT(30)
      <4> QED
        BY ONLY <3>1, <4>1, <4>4, <4>5, <1>0, <1>i, w \in Workers, SMTT(20) DEF WorkTypes,
           Workers, ChannelInv
    <3> QED
      BY <3>3, <3>4, <3>5, Zenon DEF GoroutineInv
  <2>0. ASSUME wpc[w] \in {"open", "check"}, RebuildFails(w), UNCHANGED <<conn, hooked>>
        PROVE  GoroutineInv'
    <3>1. /\ wpc[w] \in {"open", "check"} /\ rebuildMu' = None
          /\ wpc' = [wpc EXCEPT ![w] = IF wgen[w] = 0 THEN "failed" ELSE "begin"]
          /\ wreq' = [wreq EXCEPT ![w] = TRUE] /\ wch' = [wch EXCEPT ![w] = None]
          /\ UNCHANGED <<conn, hooked, callCh, chConn, seq, wgen, ch, gen, chState, desync>>
      BY <2>0, Zenon DEF RebuildFails, workFrame, callVars, brokerVars
    <3>2. MutexInv'
      BY ONLY <3>1, <1>0, SenderAssumption, <1>i, w \in Workers, SMTT(20) DEF WorkTypes, Workers,
         MutexInv, BootInv, Rebuilding
    <3>3. ConnInv'
      BY <3>1, <1>0, ZenonT(30) DEF WorkTypes, Workers, GoroutineInv, ConnInv
    <3>4. BootInv'
      BY ONLY <3>1, <1>0, SenderAssumption, <1>i, w \in Workers, SMTT(20) DEF WorkTypes, Workers,
         BootInv, Constructed
    <3>5. GenInv'
      BY <3>1, <1>0, SenderAssumption, ZenonT(30) DEF WorkTypes, Workers, GoroutineInv, GenInv
    <3>6. ChannelInv'
      BY ONLY <3>1, <1>0, <1>i, w \in Workers, SMTT(20) DEF WorkTypes, Workers, ChannelInv, Fresh
    <3> QED
      BY <3>2, <3>3, <3>4, <3>5, <3>6, Zenon DEF GoroutineInv
  <2>2. CASE RebuildOpenFails(w)
    BY <2>0, <2>2, Zenon DEF RebuildOpenFails
  <2>3. CASE RebuildCheck(w)
    <3>1. CASE RebuildFails(w)
      BY <2>0, <2>3, <3>1, Zenon DEF RebuildCheck, envVars
    <3>2. CASE /\ wpc' = [wpc EXCEPT ![w] = "install"]
               /\ UNCHANGED <<wgen, wreq, wch, structVars, waitVars, chState, workFrame>>
      <4>1. /\ wpc[w] = "check" /\ wpc' = [wpc EXCEPT ![w] = "install"]
            /\ UNCHANGED <<conn, hooked, callCh, chConn, seq, wgen, wreq, wch, ch, gen,
                           rebuildMu, chState, desync>>
        BY <2>3, <3>2, Zenon DEF RebuildCheck, workFrame, callVars, brokerVars, envVars,
           structVars
      <4>2. MutexInv' /\ ConnInv'
        BY ONLY <4>1, <1>0, <1>i, w \in Workers, SMTT(20) DEF WorkTypes, Workers, MutexInv,
           ConnInv, Rebuilding
      <4>3. BootInv' /\ GenInv'
        <5>1. BootInv'
          BY ONLY <4>1, <1>0, <1>i, w \in Workers, SMTT(20) DEF WorkTypes, BootInv, Constructed
        <5>2. GenInv'
          BY ONLY <4>1, <1>0, <1>i, w \in Workers, SMTT(20) DEF WorkTypes, Workers, GenInv
        <5> QED
          BY <5>1, <5>2
      <4>4. ChannelInv'
        BY ONLY <4>1, <1>0, <1>i, w \in Workers, SMTT(20) DEF WorkTypes, Workers, ChannelInv,
           Fresh
      <4> QED
        BY <4>2, <4>3, <4>4, Zenon DEF GoroutineInv
    <3> QED
      BY <2>3, <3>1, <3>2, Zenon DEF RebuildCheck
  <2>4. CASE RebuildInstall(w)
    <3>0. /\ wch[w] \in Channels /\ Fresh(wch[w]) /\ chState[wch[w]] # "unopened"
          /\ rebuildMu = w /\ wgen[w] = gen /\ wch[w] # w
          /\ \A v \in Workers \ {w} : wpc[v] \notin Rebuilding
      <4>1. wpc[w] = "install"
        BY <2>4, Zenon DEF RebuildInstall
      <4>2. wch[w] \in Channels /\ Fresh(wch[w]) /\ chState[wch[w]] # "unopened"
        BY <4>1, Zenon DEF GoroutineInv, ChannelInv
      <4>3. wch[w] # w
        BY <4>1, <4>2, Zenon DEF Fresh
      <4> QED
        BY ONLY <4>1, <4>2, <4>3, <1>i, w \in Workers, SMTT(20) DEF MutexInv, Rebuilding
    <3>1. CASE RebuildSuperseded(w)
      <4>0. /\ wpc[w] = "install" /\ wpc' = [wpc EXCEPT ![w] = "done"] /\ rebuildMu' = None
            /\ wgen[w] = gen => wreq[w]
            /\ UNCHANGED <<conn, hooked, chConn, wgen, wreq, ch, gen>>
        BY <2>4, <3>1, ZenonT(30) DEF RebuildInstall, RebuildSuperseded, workFrame, brokerVars,
           envVars
      <4>1. MutexInv' /\ ConnInv'
        BY <4>0, <3>0, <1>0, SenderAssumption, ZenonT(30) DEF WorkTypes, Workers, GoroutineInv,
           MutexInv, ConnInv, Rebuilding
      <4>5. BootInv' /\ GenInv'
        BY ONLY <4>0, <3>0, <1>0, SenderAssumption, <1>i, w \in Workers, SMTT(20) DEF WorkTypes,
           Workers, BootInv, Constructed, GenInv, Rebuilding
      <4>2. \A c \in Channels : Fresh(c) => Fresh(c)'
        <5>1. UNCHANGED <<ch, wgen, seq, desync, callCh>>
          BY <2>4, <3>1, Zenon DEF RebuildInstall, workFrame, callVars, brokerVars
        <5>2. \A c \in Channels : wpc[c] = "none" => wpc'[c] = "none"
          BY <2>4, <1>0, Zenon DEF RebuildInstall, WorkTypes, Workers
        <5> QED
          BY <5>1, <5>2, Zenon DEF Fresh
      <4>3. ChannelInv'
        <5>1. \A c \in Channels : chState'[c] = "unopened" => Fresh(c)'
          BY <2>4, <4>2, <1>0, ZenonT(30) DEF RebuildInstall, WorkTypes, GoroutineInv,
             ChannelInv
        <5>2. \A v \in Workers : wpc'[v] \notin {"check", "install"}
          BY <2>4, <3>0, <1>0, ZenonT(30) DEF RebuildInstall, WorkTypes, Rebuilding
        <5>3. \A v \in Workers : wpc'[v] = "close" =>
               ch' # None /\ wpc'[ch'] = "none" /\ wch'[v] # ch'
          BY ONLY <2>4, <3>1, <1>0, <1>i, w \in Workers, SMTT(20) DEF RebuildInstall, WorkTypes,
             Workers, ChannelInv
        <5>4. \A v \in Workers : wpc'[v] \notin {"check", "install", "close"} => wch'[v] = None
          BY <2>4, <1>0, ZenonT(30) DEF RebuildInstall, WorkTypes, GoroutineInv, ChannelInv
        <5>5. ch' # None => chState'[ch'] # "unopened"
          BY ONLY <2>4, <1>0, <1>i, w \in Workers, SMTT(20) DEF RebuildInstall, WorkTypes,
             ChannelInv
        <5> QED
          BY <5>1, <5>2, <5>3, <5>4, <5>5, Zenon DEF ChannelInv
      <4> QED
        BY <4>1, <4>3, <4>5, Zenon DEF GoroutineInv
    <3>2. CASE ~RebuildSuperseded(w)
      <4>0. /\ wpc[w] = "install" /\ wpc' = [wpc EXCEPT ![w] = "close"] /\ gen' = gen + 1
            /\ ch' = wch[w] /\ wgen' = [wgen EXCEPT ![wch[w]] = gen + 1]
            /\ UNCHANGED <<conn, hooked, chConn, wreq, rebuildMu, chState>>
        BY <2>4, <3>2, ZenonT(30) DEF RebuildInstall, workFrame, brokerVars, envVars
      <4>1. MutexInv'
        BY <4>0, <3>0, <1>0, ZenonT(30) DEF WorkTypes, Workers, GoroutineInv, MutexInv, Rebuilding
      <4>2. BootInv'
        BY ONLY <4>0, <3>0, <1>0, SenderAssumption, <1>i, w \in Workers, SMTT(20) DEF WorkTypes,
           Workers, BootInv, Constructed
      <4>5. GenInv'
        BY ONLY <4>0, <3>0, <1>0, SenderAssumption, <1>i, w \in Workers, SMTT(20) DEF WorkTypes,
           Workers, GenInv
      <4>6. ConnInv'
        BY <4>0, <1>0, ZenonT(30) DEF WorkTypes, Workers, GoroutineInv, ConnInv
      <4>3. \A c \in Channels \ {wch[w]} : Fresh(c) => Fresh(c)'
        BY <2>4, <1>0, ZenonT(30) DEF RebuildInstall, WorkTypes, Workers, workFrame, callVars,
           brokerVars, Fresh
      <4>4. ChannelInv'
        <5>1. \A c \in Channels : chState'[c] = "unopened" => Fresh(c)'
          BY <2>4, <3>2, <4>3, Zenon DEF RebuildInstall, GoroutineInv, ChannelInv
        <5>2. \A v \in Workers : wpc'[v] \notin {"check", "install"}
          BY <4>0, <3>0, <1>0, SMTT(20) DEF WorkTypes, Rebuilding
        <5>3. \A v \in Workers : wpc'[v] = "close" =>
               ch' # None /\ wpc'[ch'] = "none" /\ wch'[v] # ch'
          <6>1. wch' = [wch EXCEPT ![w] = ch]
            BY <2>4, <3>2, ZenonT(30) DEF RebuildInstall
          <6>2. ch' # None /\ wpc'[ch'] = "none"
            BY <4>0, <3>0, <1>0, SenderAssumption, SMTT(20) DEF WorkTypes, Workers, Fresh
          <6>3. \A v \in Workers : wpc'[v] = "close" => v = w
            BY <4>0, <3>0, <1>0, SMTT(20) DEF WorkTypes, Rebuilding
          <6>4. wch'[w] # ch'
            BY <4>0, <3>0, <6>1, <1>0, Zenon DEF WorkTypes, Fresh
          <6> QED
            BY <6>2, <6>3, <6>4, Zenon
        <5>4. \A v \in Workers : wpc'[v] \notin {"check", "install", "close"} => wch'[v] = None
          BY <2>4, <1>0, Zenon DEF RebuildInstall, WorkTypes, GoroutineInv, ChannelInv
        <5>5. ch' # None => chState'[ch'] # "unopened"
          BY <2>4, <3>0, <3>2, Zenon DEF RebuildInstall
        <5> QED
          BY <5>1, <5>2, <5>3, <5>4, <5>5, Zenon DEF ChannelInv
      <4> QED
        BY <4>1, <4>2, <4>4, <4>5, <4>6, Zenon DEF GoroutineInv
    <3> QED
      BY <3>1, <3>2, Zenon
  <2>5. CASE RebuildFinish(w)
    <3>0. /\ wpc[w] = "close" /\ wpc' = [wpc EXCEPT ![w] = "done", ![ch] = "watch"]
          /\ chState' = [c \in Channels |-> IF c = wch[w] THEN "closed" ELSE chState[c]]
          /\ wch' = [wch EXCEPT ![w] = None] /\ wreq' = [wreq EXCEPT ![ch] = TRUE]
          /\ rebuildMu' = None
          /\ UNCHANGED <<ch, gen, wgen, hooked, callCh, seq, desync>>
      BY <2>5, Zenon DEF RebuildFinish, workFrame, callVars, brokerVars, envVars
    <3>a. ch \in Channels /\ wpc[ch] = "none" /\ ch # w /\ ch # FirstConn
      BY <3>0, <1>0, SenderAssumption, ZenonT(30) DEF WorkTypes, GoroutineInv, ChannelInv
    <3>b. /\ wpc'[w] = "done" /\ wpc'[ch] = "watch"
          /\ \A v \in Workers \ {w, ch} : wpc'[v] = wpc[v] /\ wpc[v] \notin Rebuilding
      <4>1. /\ wpc'[w] = "done" /\ wpc'[ch] = "watch"
            /\ \A v \in Workers \ {w, ch} : wpc'[v] = wpc[v]
        BY <3>0, <3>a, <1>0, ZenonT(30) DEF WorkTypes, Workers
      <4>2. rebuildMu = w
        BY ONLY <3>0, <1>i, w \in Workers, SMTT(20) DEF MutexInv, Rebuilding
      <4>3. \A v \in Workers \ {w} : wpc[v] \notin Rebuilding
        BY <4>2, ZenonT(30) DEF GoroutineInv, MutexInv
      <4> QED
        BY <4>1, <4>3, Zenon
    <3>1. MutexInv'
      <4>1. \A v \in Workers : wpc'[v] \notin Rebuilding
        BY ONLY <3>b, SMTT(20) DEF Rebuilding
      <4>2. /\ \A c \in Channels : wpc'[c] \notin {"hook", "skipped", "failed"}
            /\ \A k \in Conns : wpc'[k] \notin {"watch", "deliver", "drained"}
        BY <3>a, <3>b, SenderAssumption, ZenonT(30) DEF Workers, GoroutineInv, MutexInv
      <4> QED
        <5>1. \A v \in Workers : rebuildMu' # v
          BY <3>0, SenderAssumption, Zenon
        <5>2. \A v \in Workers : wpc'[v] \notin {"open", "check", "install"}
          BY ONLY <4>1, SMTT(20) DEF Rebuilding
        <5> QED
          BY ONLY <4>1, <4>2, <5>1, <5>2, Zenon DEF MutexInv
    <3>2. BootInv'
      BY ONLY <3>0, <3>a, <3>b, <1>0, SenderAssumption, <1>i, w \in Workers, SMTT(20) DEF
         WorkTypes, Workers, BootInv, Constructed, GenInv
    <3>3. GenInv'
      BY ONLY <3>0, <3>a, <3>b, <1>0, SenderAssumption, <1>i, w \in Workers, SMTT(20) DEF
         WorkTypes, Workers, GenInv
    <3>4. ChannelInv'
      <4>1. \A c \in Channels : c # ch /\ Fresh(c) => Fresh(c)'
        BY <3>0, <3>b, <1>0, ZenonT(30) DEF Workers, Fresh
      <4>2. \A v \in Workers : wpc'[v] \notin Rebuilding
        BY <3>b, SMTT(20) DEF Rebuilding
      <4>3. \A v \in Workers : wch'[v] = None
        <5>1. \A v \in Workers \ {w} : wch[v] = None
          BY ONLY <3>a, <3>b, <1>i, w \in Workers, SMTT(20) DEF ChannelInv, Rebuilding
        <5> QED
          BY <3>0, <5>1, <1>0, Zenon DEF WorkTypes
      <4>4. \A c \in Channels : chState'[c] = "unopened" => Fresh(c) /\ c # ch
        BY <3>0, <1>0, ZenonT(30) DEF WorkTypes, GoroutineInv, ChannelInv, Fresh
      <4>5. chState'[ch'] # "unopened"
        BY <3>0, <3>a, <4>4, Zenon
      <4> QED
        BY <4>1, <4>2, <4>3, <4>4, <4>5, SMTT(20) DEF ChannelInv, Rebuilding
    <3>5. ConnInv'
      BY <2>5, <1>0, Zenon DEF RebuildFinish, WorkTypes, Workers, workFrame, brokerVars,
         envVars, GoroutineInv, ConnInv
    <3> QED
      BY <3>1, <3>2, <3>3, <3>4, <3>5, Zenon DEF GoroutineInv
  <2>6. ASSUME NEW c \in Channels, RebuildOpen(w, c) PROVE GoroutineInv'
    <3>1. /\ wpc[w] = "open" /\ chState[c] = "unopened"
          /\ chState' = [chState EXCEPT ![c] = "open"] /\ chConn' = [chConn EXCEPT ![c] = conn]
          /\ wch' = [wch EXCEPT ![w] = c] /\ wpc' = [wpc EXCEPT ![w] = "check"]
          /\ UNCHANGED <<conn, hooked, callCh, seq, wgen, wreq, ch, gen, rebuildMu, desync>>
      BY <2>6, ZenonT(30) DEF RebuildOpen, callVars, envVars, structVars
    <3>2. MutexInv' /\ ConnInv'
      BY ONLY <3>1, <1>0, <1>i, w \in Workers, c \in Channels, SMTT(20) DEF WorkTypes, MutexInv,
         ConnInv, Rebuilding
    <3>3. BootInv' /\ GenInv'
      BY ONLY <3>1, <1>0, <1>i, w \in Workers, c \in Channels, SMTT(20) DEF WorkTypes, BootInv,
         Constructed, GenInv
    <3>4. ChannelInv'
      <4>1. \A b \in Channels : Fresh(b) => Fresh(b)'
        BY <3>1, <1>0, Zenon DEF WorkTypes, Workers, Fresh
      <4>2. Fresh(c) /\ wpc'[w] = "check" /\ wch'[w] = c /\ chState'[c] = "open"
        BY <3>1, <1>0, Zenon DEF WorkTypes, GoroutineInv, ChannelInv
      <4>3. /\ \A v \in Workers \ {w} : wpc'[v] = wpc[v] /\ wch'[v] = wch[v]
            /\ \A b \in Channels \ {c} : chState'[b] = chState[b]
        BY <3>1, <1>0, ZenonT(30) DEF WorkTypes
      <4> QED
        BY ONLY <3>1, <4>1, <4>2, <4>3, <1>0, <1>i, w \in Workers, c \in Channels, SMTT(20) DEF
           WorkTypes, Workers, ChannelInv
    <3> QED
      BY <3>2, <3>3, <3>4, Zenon DEF GoroutineInv
  <2> QED
    BY <1>2, <2>1, <2>2, <2>3, <2>4, <2>5, <2>6, Zenon DEF RebuildStep
<1>3. ASSUME NEW c \in Channels, WatchStep(c) PROVE GoroutineInv'
  <2>0. TypeOK
    BY Zenon DEF TypeInv
  <2>1. PICK s \in {"watch", "deliver", "drained", "begin", "done"} :
          wpc' = [wpc EXCEPT ![c] = s]
    BY ONLY <1>3, <2>0, WatchFootprint, Zenon
  <2>2. wpc[c] \in {"watch", "deliver", "drained"}
        /\ UNCHANGED <<wgen, wreq, wch, envVars, structVars, chState, chConn, seq, callCh, desync>>
    BY ONLY <1>3, <2>0, WatchFootprint, Zenon
  <2> QED
    <3>1. MutexInv' /\ ConnInv'
      BY ONLY <2>1, <2>2, <1>0, <1>i, c \in Channels, SMTT(20) DEF WorkTypes, Workers, envVars,
         structVars, MutexInv, ConnInv, Rebuilding
    <3>2. BootInv'
      BY ONLY <2>1, <2>2, <1>0, SenderAssumption, <1>i, c \in Channels, SMTT(20) DEF WorkTypes,
         Workers, envVars, structVars, BootInv, Constructed
    <3>3. GenInv'
      BY ONLY <2>1, <2>2, <1>0, SenderAssumption, <1>i, c \in Channels, SMTT(20) DEF WorkTypes,
         Workers, structVars, GenInv
    <3>4. ChannelInv'
      <4>1. \A b \in Channels : Fresh(b) => Fresh(b)'
        BY <2>1, <2>2, <1>0, ZenonT(30) DEF WorkTypes, Workers, structVars, Fresh
      <4> QED
        BY ONLY <2>1, <2>2, <4>1, <1>0, ChannelKept, <1>i, c \in Channels, SMTT(20) DEF
           WorkTypes, Workers, structVars
    <3> QED
      BY <3>1, <3>2, <3>3, <3>4, Zenon DEF GoroutineInv
<1>4. ASSUME NEW k \in Conns, Reconnect(k) PROVE GoroutineInv'
  <2>1. /\ wpc[k] = "hook"
        /\ UNCHANGED <<wreq, wch, envVars, structVars, chState, chConn, seq, callCh>>
        /\ desync \subseteq desync' /\ desync' \subseteq desync \cup {ch}
    BY ONLY <1>4, Zenon DEF Reconnect, callVars, brokerVars
  <2>2. \/ /\ hooked /\ wpc' = [wpc EXCEPT ![k] = "begin"]
           /\ wgen' = [wgen EXCEPT ![k] = gen]
        \/ wpc' = [wpc EXCEPT ![k] = "skipped"] /\ UNCHANGED wgen
    BY ONLY <1>4, ZenonT(30) DEF Reconnect
  <2>a. /\ wpc'[k] \in {"begin", "skipped"} /\ (wpc'[k] = "begin" => hooked)
        /\ \A v \in Workers \ {k} : wpc'[v] = wpc[v] /\ wgen'[v] = wgen[v]
        /\ wgen'[k] = gen \/ (UNCHANGED wgen /\ wpc'[k] = "skipped")
    <3>1. k \in Workers
      BY Zenon DEF Workers
    <3>2. CASE hooked /\ wpc' = [wpc EXCEPT ![k] = "begin"] /\ wgen' = [wgen EXCEPT ![k] = gen]
      BY ONLY <1>0, <3>1, <3>2, ZenonT(30) DEF WorkTypes
    <3>3. CASE wpc' = [wpc EXCEPT ![k] = "skipped"] /\ UNCHANGED wgen
      BY ONLY <1>0, <3>1, <3>3, ZenonT(30) DEF WorkTypes
    <3> QED
      BY ONLY <2>2, <3>2, <3>3, Zenon
  <2>b. UNCHANGED <<conn, hooked, wreq, wch, ch, gen, rebuildMu, chState, chConn>> /\ k \notin Channels
    BY <2>1, SenderAssumption, Zenon DEF envVars, structVars
  <2>3. MutexInv' /\ ConnInv'
    <3>1. \A v \in Workers : wpc'[v] \in Rebuilding <=> rebuildMu' = v
      <4>1. wpc[k] \notin Rebuilding /\ wpc'[k] \notin Rebuilding
        BY ONLY <2>1, <2>a, SMTT(20) DEF Rebuilding
      <4>2. \A v \in Workers : wpc[v] \in Rebuilding <=> rebuildMu = v
        BY Zenon DEF GoroutineInv, MutexInv
      <4>3. k \in Workers
        BY Zenon DEF Workers
      <4> QED
        BY ONLY <2>a, <2>b, <4>1, <4>2, <4>3, ZenonT(30)
    <3>2. \A v \in Workers : wpc'[v] \in {"open", "check", "install"} => wgen'[v] = gen'
      <4>1. wpc'[k] \notin {"open", "check", "install"}
        BY ONLY <2>a, SMTT(20)
      <4>2. \A v \in Workers : wpc[v] \in {"open", "check", "install"} => wgen[v] = gen
        BY Zenon DEF GoroutineInv, MutexInv
      <4> QED
        BY ONLY <2>a, <2>b, <4>1, <4>2, ZenonT(30)
    <3>3. /\ \A c \in Channels : wpc'[c] \notin {"hook", "skipped", "failed"}
          /\ \A j \in Conns : wpc'[j] \notin {"watch", "deliver", "drained"}
      BY <2>a, <2>b, ZenonT(30) DEF Workers, GoroutineInv, MutexInv
    <3>4. ConnInv'
      BY ONLY <2>1, <2>a, <2>b, <1>0, <1>i, k \in Conns, SMTT(20) DEF WorkTypes, Workers, ConnInv
    <3> QED
      BY <3>1, <3>2, <3>3, <3>4, Zenon DEF MutexInv
  <2>5. BootInv'
    BY ONLY <2>1, <2>a, <2>b, <1>0, SenderAssumption, <1>i, k \in Conns, SMTT(20) DEF WorkTypes,
       Workers, BootInv, Constructed
  <2>6. GenInv'
    BY <2>a, <2>b, <1>0, ZenonT(30) DEF WorkTypes, Workers, GoroutineInv, GenInv
  <2>4. ChannelInv'
    <3>1. \A b \in Channels : Fresh(b) => Fresh(b)'
      BY <2>1, <2>a, <2>b, ZenonT(30) DEF Workers, Fresh
    <3> QED
      BY ONLY <2>1, <2>a, <2>b, <3>1, <1>0, ChannelKept, <1>i, k \in Conns, SMTT(20) DEF
         WorkTypes, Workers
  <2> QED
    BY <2>3, <2>4, <2>5, <2>6, Zenon DEF GoroutineInv
<1>5. CASE EnvironmentStep
  <2>1. CASE OnReconnect
    <3>1. /\ Constructed
          /\ UNCHANGED <<conn, callCh, chConn, seq, wpc, wgen, wreq, wch, structVars, chState,
                        desync>>
      BY <2>1, ZenonT(30) DEF OnReconnect, envFrame, callVars, brokerVars, workVars
    <3> QED
      BY <3>1, ZenonT(30) DEF structVars, GoroutineInv, MutexInv, BootInv, Constructed, GenInv,
         ChannelInv, Fresh, ConnInv
  <2>2. CASE ConnectionDrops
    <3>1. UNCHANGED <<conn, hooked, callCh, chConn, seq, wpc, wgen, wreq, wch, structVars,
                      chState, desync>>
      BY <2>2, Zenon DEF ConnectionDrops, envFrame, callVars, brokerVars, workVars
    <3>2. MutexInv' /\ GenInv' /\ ConnInv'
      BY <3>1, ZenonT(30) DEF structVars, GoroutineInv, MutexInv, GenInv, ConnInv
    <3>3. BootInv'
      BY <3>1, ZenonT(30) DEF structVars, GoroutineInv, BootInv, Constructed
    <3>4. ChannelInv'
      BY <3>1, ZenonT(30) DEF structVars, GoroutineInv, ChannelInv, Fresh
    <3> QED
      BY <3>2, <3>3, <3>4, Zenon DEF GoroutineInv
  <2>3. ASSUME NEW k \in Conns, ConnectionRestored(k) PROVE GoroutineInv'
    <3>1. /\ wpc[k] = "none" /\ conn' = k /\ wpc' = [wpc EXCEPT ![k] = "hook"]
          /\ UNCHANGED <<hooked, callCh, chConn, seq, wgen, wreq, wch, ch, gen, rebuildMu,
                        chState, desync>>
      BY <2>3, ZenonT(30) DEF ConnectionRestored, workFrame, callVars, brokerVars, structVars
    <3>2. MutexInv' /\ ConnInv'
      BY <3>1, <1>0, SenderAssumption, ZenonT(30)
         DEF WorkTypes, Workers, GoroutineInv, MutexInv,
         ConnInv, Rebuilding
    <3>3. BootInv' /\ GenInv'
      BY <3>1, <1>0, SenderAssumption, ZenonT(30) DEF WorkTypes, Workers, GoroutineInv, BootInv,
         Constructed, GenInv
    <3>4. ChannelInv'
      <4>1. \A b \in Channels : Fresh(b) => Fresh(b)'
        BY <3>1, <1>0, SenderAssumption, ZenonT(30) DEF WorkTypes, Workers, Fresh
      <4>2. \A v \in Workers \ {k} : wpc'[v] = wpc[v]
        BY <3>1, <1>0, Zenon DEF WorkTypes, Workers
      <4>3. wpc'[k] = "hook" /\ wpc[k] = "none" /\ k \notin Channels
        BY <3>1, <1>0, SenderAssumption, Zenon DEF WorkTypes, Workers
      <4> QED
        <5>1. ChannelInv /\ UNCHANGED <<ch, wch, chState>>
          BY <3>1, Zenon DEF GoroutineInv
        <5>2. ch \in Workers \cup {None} /\ (ch \in Workers /\ wpc[ch] = "none" => wpc'[ch] = "none")
          BY <4>2, <4>3, <1>0, SenderAssumption, ZenonT(30) DEF WorkTypes, Workers
        <5>3. \A v \in Workers :
                /\ wpc'[v] \in {"check", "install", "close"} => wpc'[v] = wpc[v]
                /\ wpc[v] \in {"check", "install", "close"} => wpc'[v] = wpc[v]
          BY ONLY <4>2, <4>3, SMTT(20)
        <5> QED
          BY ONLY <4>1, <5>1, <5>2, <5>3, ChannelKept, ZenonT(30)
    <3> QED
      BY <3>2, <3>3, <3>4, Zenon DEF GoroutineInv
  <2>4. ASSUME NEW c \in Channels, ChannelShutdown(c) PROVE GoroutineInv'
    <3>1. /\ chState[c] = "open" /\ chState' = [chState EXCEPT ![c] = "closed"]
          /\ UNCHANGED <<conn, hooked, callCh, chConn, seq, wpc, wgen, wreq, wch, structVars,
                        desync>>
      BY <2>4, Zenon DEF ChannelShutdown, envFrame, envVars, callVars, brokerVars, workVars
    <3>2. \A b \in Channels : (Fresh(b) => Fresh(b)')
                            /\ (chState'[b] = "unopened" <=> chState[b] = "unopened")
      BY <3>1, <1>0, Zenon DEF WorkTypes, Fresh, structVars
    <3>3. MutexInv' /\ BootInv'
      BY <3>1, Zenon DEF structVars, GoroutineInv, MutexInv, BootInv, Constructed
    <3>5. GenInv' /\ ConnInv'
      BY <3>1, Zenon DEF structVars, GoroutineInv, GenInv, ConnInv
    <3>4. ChannelInv'
      BY ONLY <3>1, <3>2, <1>i, c \in Channels, SMTT(20) DEF structVars, ChannelInv
    <3> QED
      BY <3>3, <3>4, <3>5, Zenon DEF GoroutineInv
  <2>5. ASSUME NEW c \in Channels, ChannelClosedByBroker(c) PROVE GoroutineInv'
    <3>1. /\ chState[c] = "open" /\ chState' = [chState EXCEPT ![c] = "closed"]
          /\ UNCHANGED <<conn, hooked, callCh, chConn, seq, wpc, wgen, wreq, wch, structVars,
                        desync>>
      BY <2>5, Zenon DEF ChannelClosedByBroker, Usable, envFrame, callVars, brokerVars, workVars
    <3>2. \A b \in Channels : (Fresh(b) => Fresh(b)')
                            /\ (chState'[b] = "unopened" <=> chState[b] = "unopened")
      BY <3>1, <1>0, Zenon DEF WorkTypes, Fresh, structVars
    <3>3. MutexInv' /\ BootInv'
      BY <3>1, Zenon DEF structVars, GoroutineInv, MutexInv, BootInv, Constructed
    <3>5. GenInv' /\ ConnInv'
      BY <3>1, Zenon DEF structVars, GoroutineInv, GenInv, ConnInv
    <3>4. ChannelInv'
      BY ONLY <3>1, <3>2, <1>i, c \in Channels, SMTT(20) DEF structVars, ChannelInv
    <3> QED
      BY <3>3, <3>4, <3>5, Zenon DEF GoroutineInv
  <2> QED
    BY <1>1, <1>5, <2>1, <2>2, <2>3, <2>4, <2>5, ZenonT(30) DEF EnvironmentStep, CallerStep
<1> QED
  BY <1>1, <1>2, <1>3, <1>4, <1>5, Zenon DEF Next, CallerStep
-----------------------------------------------------------------------------
\* A rebuild that opened a channel installs or closes it before it lets go of
\* rebuildMu, and closes the one it replaces.
LEMMA LeakStep == TypeInv /\ GoroutineInv /\ NoChannelLeak /\ [Next]_vars => NoChannelLeak'
<1> SUFFICES ASSUME TypeInv, GoroutineInv, NoChannelLeak, [Next]_vars PROVE NoChannelLeak'
  BY Zenon
<1>0. TypeOK /\ WorkTypes
  BY TypeParts, Zenon DEF TypeInv
<1>1. CASE CallerStep
  BY <1>0, <1>1, CallFootprint, ZenonT(30) DEF NoChannelLeak, structVars, workVars
<1>2. ASSUME NEW c \in Channels, WatchStep(c) PROVE NoChannelLeak'
  BY <1>0, <1>2, WatchFootprint, SMTT(20) DEF NoChannelLeak, structVars
<1>3. ASSUME NEW w \in Workers, RebuildStep(w) PROVE NoChannelLeak'
  <2>1. CASE RebuildBegin(w)
    BY <2>1, Zenon DEF RebuildBegin, NoChannelLeak
  <2>2. CASE RebuildOpenFails(w)
    <3>1. rebuildMu = w /\ wch[w] = None /\ UNCHANGED <<ch, chState>>
      BY <2>2, Zenon DEF RebuildOpenFails, RebuildFails, GoroutineInv, MutexInv, ChannelInv,
         Rebuilding
    <3>2. None \notin Channels
      BY SenderAssumption, Zenon DEF Workers
    <3> QED
      BY <3>1, <3>2, Zenon DEF NoChannelLeak
  <2>3. CASE RebuildCheck(w)
    BY <2>3, ZenonT(30) DEF RebuildCheck, RebuildFails, structVars, GoroutineInv, MutexInv,
       Rebuilding, NoChannelLeak
  <2>4. CASE RebuildInstall(w)
    BY <2>4, <1>0, SenderAssumption DEF RebuildInstall, WorkTypes, GoroutineInv, MutexInv,
       Rebuilding, NoChannelLeak
  <2>5. CASE RebuildFinish(w)
    BY <2>5, ZenonT(30) DEF RebuildFinish, GoroutineInv, MutexInv, Rebuilding, NoChannelLeak
  <2>6. ASSUME NEW c \in Channels, RebuildOpen(w, c) PROVE NoChannelLeak'
    BY <2>6, <1>0, SenderAssumption DEF RebuildOpen, WorkTypes, Workers, structVars,
       GoroutineInv, MutexInv, ChannelInv, Rebuilding, NoChannelLeak
  <2> QED
    BY <1>3, <2>1, <2>2, <2>3, <2>4, <2>5, <2>6, Zenon DEF RebuildStep
<1>4. ASSUME NEW k \in Conns, Reconnect(k) PROVE NoChannelLeak'
  BY <1>4, Zenon DEF Reconnect, structVars, NoChannelLeak
<1>5. CASE EnvironmentStep
  <2>1. CASE OnReconnect \/ ConnectionDrops
    BY <2>1, Zenon DEF OnReconnect, ConnectionDrops, envFrame, workVars, structVars,
       NoChannelLeak
  <2>2. ASSUME NEW k \in Conns, ConnectionRestored(k) PROVE NoChannelLeak'
    BY <2>2, Zenon DEF ConnectionRestored, structVars, NoChannelLeak
  <2>3. ASSUME NEW c \in Channels, ChannelShutdown(c) PROVE NoChannelLeak'
    BY <2>3, <1>0, Zenon DEF ChannelShutdown, WorkTypes, envFrame, workVars, structVars,
       NoChannelLeak
  <2>4. ASSUME NEW c \in Channels, ChannelClosedByBroker(c) PROVE NoChannelLeak'
    BY <2>4, <1>0, Zenon DEF ChannelClosedByBroker, WorkTypes, envFrame, workVars, structVars,
       NoChannelLeak
  <2> QED
    BY <1>1, <1>5, <2>1, <2>2, <2>3, <2>4, Zenon DEF EnvironmentStep, CallerStep
<1> QED
  BY <1>1, <1>2, <1>3, <1>4, <1>5, Zenon DEF Next, CallerStep

\* A goroutine that ends leaves the generation to another one or found the
\* connection down; a new connection comes with a hook.
LEMMA RecoveryStep == TypeInv /\ GoroutineInv /\ RecoveryOwned /\ [Next]_vars => RecoveryOwned'
<1> SUFFICES ASSUME TypeInv, GoroutineInv, RecoveryOwned, [Next]_vars PROVE RecoveryOwned'
  BY Zenon
<1>0. TypeOK /\ WorkTypes
  BY TypeParts, Zenon DEF TypeInv
<1>1. CASE CallerStep
  BY <1>0, <1>1, CallFootprint, Zenon DEF envVars, structVars, workVars, RecoveryOwned,
     Owner, Constructed
<1>2. ASSUME NEW c \in Channels, WatchStep(c) PROVE RecoveryOwned'
  <2>1. PICK s \in {"watch", "deliver", "drained", "begin", "done"} :
          wpc' = [wpc EXCEPT ![c] = s] /\ (s = "done" => ~connOpen \/ gen # wgen[c])
    BY ONLY <1>0, <1>2, WatchFootprint, Zenon
  <2>2. wpc[c] \in {"watch", "deliver", "drained"} /\ UNCHANGED <<wgen, envVars, structVars>>
    BY ONLY <1>0, <1>2, WatchFootprint, ZenonT(30)
  <2> QED
    BY <2>1, <2>2, SenderAssumption DEF envVars, structVars, RecoveryOwned, Owner,
       Constructed
<1>3. ASSUME NEW w \in Workers, RebuildStep(w) PROVE RecoveryOwned'
  <2>1. CASE RebuildBegin(w)
    BY <2>1, SenderAssumption, <1>0 DEF RebuildBegin, RebuildSuperseded, RecoveryOwned,
       Owner, Constructed, WorkTypes, Workers, envVars, GoroutineInv, BootInv
  <2>2. CASE RebuildOpenFails(w)
    BY <2>2, SenderAssumption, <1>0, ZenonT(30) DEF RebuildOpenFails, RebuildFails,
       RecoveryOwned, Owner, Constructed, WorkTypes, Workers, GoroutineInv, BootInv
  <2>3. CASE RebuildCheck(w)
    BY <2>3, SenderAssumption, <1>0 DEF RebuildCheck, RebuildFails, RecoveryOwned, Owner,
       Constructed, WorkTypes, Workers, envVars, structVars, GoroutineInv, BootInv
  <2>4. CASE RebuildInstall(w)
    BY <2>4, <1>0, Zenon DEF RebuildInstall, RebuildSuperseded, RecoveryOwned, Owner,
       WorkTypes, envVars, GoroutineInv, MutexInv
  <2>5. CASE RebuildFinish(w)
    BY <2>5, SenderAssumption, <1>0, Zenon DEF RebuildFinish, RecoveryOwned, Owner,
       Constructed, WorkTypes, Workers, GoroutineInv, BootInv, GenInv
  <2>6. ASSUME NEW c \in Channels, RebuildOpen(w, c) PROVE RecoveryOwned'
    BY <2>6, SenderAssumption, <1>0, Zenon DEF RebuildOpen, RecoveryOwned, Owner,
       Constructed, WorkTypes, Workers, structVars
  <2> QED
    BY <1>3, <2>1, <2>2, <2>3, <2>4, <2>5, <2>6, Zenon DEF RebuildStep
<1>4. ASSUME NEW k \in Conns, Reconnect(k) PROVE RecoveryOwned'
  BY <1>4, <1>0, Zenon DEF Reconnect, RecoveryOwned, Owner, WorkTypes, Workers, structVars
<1>5. CASE EnvironmentStep
  <2>1. CASE OnReconnect \/ ConnectionDrops
    BY <2>1, Zenon DEF OnReconnect, ConnectionDrops, RecoveryOwned, Owner, envFrame,
       workVars, structVars
  <2>2. ASSUME NEW k \in Conns, ConnectionRestored(k) PROVE RecoveryOwned'
    BY <2>2, <1>0, Zenon DEF ConnectionRestored, RecoveryOwned, Owner, WorkTypes, Workers
  <2>3. ASSUME NEW c \in Channels, ChannelShutdown(c) PROVE RecoveryOwned'
    BY <2>3, Zenon DEF ChannelShutdown, RecoveryOwned, Owner, Constructed, envFrame,
       envVars, workVars, structVars
  <2>4. ASSUME NEW c \in Channels, ChannelClosedByBroker(c) PROVE RecoveryOwned'
    BY <2>4, Zenon DEF ChannelClosedByBroker, RecoveryOwned, Owner, Constructed, envFrame,
       workVars, structVars
  <2> QED
    BY <1>1, <1>5, <2>1, <2>2, <2>3, <2>4, Zenon DEF EnvironmentStep, CallerStep
<1> QED
  BY <1>1, <1>2, <1>3, <1>4, <1>5, Zenon DEF Next, CallerStep
-----------------------------------------------------------------------------
(* The second layer: the slot, s.pending and the result channels.          *)

\* Once NewSender has returned there is a channel, and it was opened.
LEMMA ConstructedChannel ==
  ASSUME TypeOK, GoroutineInv, Constructed
  PROVE  ch \in Channels /\ chState[ch] # "unopened"
BY Zenon DEF TypeOK, GoroutineInv, BootInv, GenInv, ChannelInv, Constructed

\* A step that moves no call and makes no entry keeps CallInv if it forgets no
\* call and fills no buffer of an entry.
LEMMA CallsRest ==
  ASSUME CallInv, UNCHANGED <<pc, callCh, publishSem, pos>>,
         pending' \subseteq pending, UNCHANGED ch \/ pending' = {},
         \A c \in Channels : chState[c] # "unopened" => chState'[c] # "unopened",
         \A q \in Senders : Releasable(q) => Releasable(q)',
         \A q \in Senders : pc[q] = "idle" => resultCh'[q] = resultCh[q],
         \A q \in pending' : resultCh'[q] = resultCh[q],
         \A b \in Channels : wpc'[b] = "deliver" => dto'[b] \in Senders
  PROVE  CallInv'
<1>1. /\ \A m \in Messages : pc'[m] = "registered" <=> publishSem' = m
      /\ \A m \in Messages : pc'[m] \in {"idle", "registered"} => pos'[m] = 0
  BY Zenon DEF CallInv
<1>2. \A m \in Messages : pc'[m] \in {"registered", "waiting"} \/ pos'[m] > 0 =>
        callCh'[m] \in Channels /\ chState'[callCh'[m]] # "unopened"
  BY Zenon DEF CallInv
<1>3. \A p \in Senders : pc'[p] = "idle" => resultCh'[p] = "empty" /\ callCh'[p] = None
  BY Zenon DEF CallInv
<1>4. \A p \in pending' : pc'[p] \in {"registered", "waiting"}
                          /\ callCh'[p] = ch' /\ resultCh'[p] = "empty"
  BY Zenon DEF CallInv
<1>5. \A p \in Senders : pc'[p] = "registered" => Releasable(p)'
  BY Zenon DEF CallInv
<1> QED
  BY <1>1, <1>2, <1>3, <1>4, <1>5, Zenon DEF CallInv

\* A step that touches no call keeps the waiters' invariant.
LEMMA WaiterFrame ==
  ASSUME TypeInv, WaiterInv,
         UNCHANGED <<pc, tag, callCh, publishSem, pending, nextTag, resultCh, pos, dto, ch>>,
         \A c \in Channels : /\ chState[c] # "unopened" => chState'[c] # "unopened"
                             /\ wpc'[c] = "deliver" <=> wpc[c] = "deliver"
  PROVE  WaiterInv'
<1>1. \A p \in Senders : Releasable(p) => Releasable(p)'
  BY DEF Releasable
<1>2. CallInv'
  <2>1. CallInv /\ \A b \in Channels : wpc'[b] = "deliver" => dto'[b] \in Senders
    BY Zenon DEF WaiterInv, CallInv
  <2> QED
    BY <1>1, <2>1, CallsRest, Zenon
<1>3. TagDiscipline' /\ ConfirmFromOwnChannel' /\ NoLostWaiter'
  BY <1>1 DEF WaiterInv, TagDiscipline, ConfirmFromOwnChannel, NoLostWaiter
<1> QED
  BY <1>2, <1>3, ZenonT(30) DEF WaiterInv

\* A drain releases every call that had an entry, and no other.
LEMMA WaiterDrain ==
  ASSUME TypeInv, WaiterInv, failPendingLocked,
         UNCHANGED <<pc, tag, callCh, publishSem, pos, dto>>,
         \A c \in Channels : /\ chState[c] # "unopened" => chState'[c] # "unopened"
                             /\ wpc'[c] = "deliver" <=> wpc[c] = "deliver"
  PROVE  WaiterInv'
<1>0. TypeOK
  BY Zenon DEF TypeInv
<1>1. \A p \in Senders : Releasable(p) => Releasable(p)'
  BY <1>0, DrainType, Zenon DEF Releasable
<1>2. CallInv'
  <2>1. CallInv /\ \A b \in Channels : wpc'[b] = "deliver" => dto'[b] \in Senders
    BY Zenon DEF WaiterInv, CallInv
  <2>2. pending' = {} /\ \A q \in Senders : pc[q] = "idle" => resultCh'[q] = resultCh[q]
    BY <1>0, <2>1, DrainType, ZenonT(30) DEF CallInv
  <2> QED
    BY <1>1, <2>1, <2>2, CallsRest, Zenon
<1>3. TagDiscipline' /\ ConfirmFromOwnChannel' /\ NoLostWaiter'
  BY <1>1, DrainType, Zenon DEF TypeInv, WaiterInv, TagDiscipline, ConfirmFromOwnChannel,
     NoLostWaiter
<1> QED
  BY <1>2, <1>3, Zenon DEF WaiterInv

\* Call m moves on without a new entry: it may lose its own.
MovesCall(m) ==
  /\ UNCHANGED <<resultCh, tag, wpc, dto, ch, chState>>
  /\ pending' \subseteq pending /\ pending \ {m} \subseteq pending'
  /\ \A n \in Messages \ {m} : pc'[n] = pc[n] /\ callCh'[n] = callCh[n] /\ pos'[n] = pos[n]
  /\ \A n \in Messages : pc'[n] = "registered" <=> publishSem' = n
  /\ pc'[m] # "idle" /\ (pc'[m] = "registered" => pos'[m] = 0)
  /\ pc'[m] \in {"registered", "waiting"} \/ pos'[m] > 0 =>
       callCh'[m] \in Channels /\ chState[callCh'[m]] # "unopened"
  /\ m \in Senders => /\ callCh'[m] = callCh[m] /\ pc'[m] # "registered"
                      /\ m \in pending' => pc'[m] = "waiting"
                      /\ pc'[m] = "waiting" => pc[m] = "registered" /\ pending' = pending

\* Such a step keeps the waiters' invariant; the tags, if nextTag stays.
LEMMA WaiterCall ==
  ASSUME TypeInv, WaiterInv, NEW m \in Messages, MovesCall(m)
  PROVE  /\ CallInv' /\ ConfirmFromOwnChannel' /\ NoLostWaiter'
         /\ nextTag' = nextTag => TagDiscipline'
<1>0. Senders \subseteq Messages /\ pending \subseteq Senders
  BY Zenon DEF TypeInv, TypeOK, Messages
<1>1. CallInv /\ ConfirmFromOwnChannel /\ NoLostWaiter /\ TagDiscipline
  BY Zenon DEF WaiterInv
<1>2. \A p \in Senders : p # m /\ Releasable(p) => Releasable(p)'
  BY <1>0, Zenon DEF MovesCall, Releasable
<1>3. pc'[m] = "waiting" /\ m \in Senders => Releasable(m)'
  <2>1. pc[m] = "registered" /\ m \in Senders => Releasable(m)
    BY <1>1, Zenon DEF CallInv
  <2>2. pc'[m] = "waiting" /\ m \in Senders => pc[m] = "registered" /\ pending' = pending
    BY Zenon DEF MovesCall
  <2>3. UNCHANGED <<resultCh, wpc, dto>>
    BY Zenon DEF MovesCall
  <2> QED
    BY <2>1, <2>2, <2>3, Zenon DEF Releasable
<1>4. CallInv'
  <2>1. \A n \in Messages : /\ pc'[n] \in {"idle", "registered"} => pos'[n] = 0
                            /\ pc'[n] \in {"registered", "waiting"} \/ pos'[n] > 0 =>
                                 callCh'[n] \in Channels /\ chState[callCh'[n]] # "unopened"
    <3>1. ASSUME NEW n \in Messages, n # m
          PROVE  /\ pc'[n] \in {"idle", "registered"} => pos'[n] = 0
                 /\ pc'[n] \in {"registered", "waiting"} \/ pos'[n] > 0 =>
                      callCh'[n] \in Channels /\ chState[callCh'[n]] # "unopened"
      <4>1. pc'[n] = pc[n] /\ callCh'[n] = callCh[n] /\ pos'[n] = pos[n]
        BY <3>1, Zenon DEF MovesCall
      <4>2. /\ pc[n] \in {"idle", "registered"} => pos[n] = 0
            /\ pc[n] \in {"registered", "waiting"} \/ pos[n] > 0 =>
                 callCh[n] \in Channels /\ chState[callCh[n]] # "unopened"
        BY <1>1, Zenon DEF CallInv
      <4> QED
        BY ONLY <4>1, <4>2, SMTT(20)
    <3>2. /\ pc'[m] \in {"idle", "registered"} => pos'[m] = 0
          /\ pc'[m] \in {"registered", "waiting"} \/ pos'[m] > 0 =>
               callCh'[m] \in Channels /\ chState[callCh'[m]] # "unopened"
      BY Zenon DEF MovesCall
    <3> QED
      BY ONLY <3>1, <3>2, SMTT(20)
  <2>2. \A p \in Senders : pc'[p] = "idle" => resultCh[p] = "empty" /\ callCh'[p] = None
    <3>1. \A p \in Senders : p # m => pc'[p] = pc[p] /\ callCh'[p] = callCh[p]
      BY <1>0, Zenon DEF MovesCall
    <3>2. pc'[m] # "idle"
      BY Zenon DEF MovesCall
    <3>3. \A p \in Senders : pc[p] = "idle" => resultCh[p] = "empty" /\ callCh[p] = None
      BY <1>1, Zenon DEF CallInv
    <3> QED
      BY ONLY <3>1, <3>2, <3>3, Zenon
  <2>3. \A p \in pending' : pc'[p] \in {"registered", "waiting"}
                            /\ callCh'[p] = ch /\ resultCh[p] = "empty"
    <3> SUFFICES ASSUME NEW p \in pending'
                 PROVE  /\ pc'[p] \in {"registered", "waiting"}
                        /\ callCh'[p] = ch /\ resultCh[p] = "empty"
      BY Zenon
    <3>1. p \in pending /\ p \in Senders /\ p \in Messages
      BY <1>0, Zenon DEF MovesCall
    <3>2. pc[p] \in {"registered", "waiting"} /\ callCh[p] = ch /\ resultCh[p] = "empty"
      BY <1>1, <3>1, Zenon DEF CallInv
    <3>3. p # m => pc'[p] = pc[p] /\ callCh'[p] = callCh[p]
      BY <3>1, Zenon DEF MovesCall
    <3>4. p = m => pc'[p] = "waiting" /\ callCh'[p] = callCh[p]
      BY <3>1, Zenon DEF MovesCall
    <3> QED
      BY ONLY <3>2, <3>3, <3>4, Zenon
  <2>4. \A p \in Senders : pc'[p] = "registered" => Releasable(p)'
    BY <1>0, <1>1, <1>2, ZenonT(30) DEF MovesCall, CallInv
  <2>5. \A n \in Messages : pc'[n] = "registered" <=> publishSem' = n
    BY Zenon DEF MovesCall
  <2>6. \A c \in Channels : wpc[c] = "deliver" => dto[c] \in Senders
    BY <1>1, Zenon DEF CallInv
  <2>7. UNCHANGED <<resultCh, wpc, dto, ch, chState>>
    BY Zenon DEF MovesCall
  <2> QED
    BY <2>1, <2>2, <2>3, <2>4, <2>5, <2>6, <2>7, ZenonT(30) DEF CallInv
<1>5. ConfirmFromOwnChannel'
  <2>1. UNCHANGED <<resultCh, wpc, dto>> /\ pending' \subseteq pending
    BY Zenon DEF MovesCall
  <2>2. \A p \in Senders : callCh'[p] = callCh[p]
    BY <1>0, Zenon DEF MovesCall
  <2>3. \A c \in Channels : wpc[c] = "deliver" => dto[c] \in Senders
    BY <1>1, Zenon DEF CallInv
  <2> QED
    BY <1>1, <2>1, <2>2, <2>3, ZenonT(30) DEF ConfirmFromOwnChannel
<1>6. NoLostWaiter'
  BY <1>0, <1>1, <1>2, <1>3, Zenon DEF MovesCall, NoLostWaiter
<1>7. ASSUME nextTag' = nextTag PROVE TagDiscipline'
  BY <1>0, <1>1, <1>7, ZenonT(30) DEF MovesCall, TagDiscipline
<1> QED
  BY <1>4, <1>5, <1>6, <1>7

\* What the calls rely on.
CallFacts ==
  /\ pending \subseteq Senders /\ Senders \subseteq Messages /\ Notifiers \subseteq Messages
  /\ Senders \cap Notifiers = {} /\ None \notin Messages \cup Channels
  /\ pc \in [Messages -> {"idle", "registered", "waiting", "done"}]
  /\ callCh \in [Messages -> Channels \cup {None}] /\ pos \in [Messages -> Nat]
  /\ CallInv

\* They hold.
LEMMA CallFactsHold == ASSUME TypeInv, WaiterInv PROVE CallFacts
BY SenderAssumption, Zenon DEF TypeInv, TypeOK, Messages, Workers, CallFacts, WaiterInv

\* The calls that end, and the publishes: none makes an entry.
LEMMA CallsMove ==
  ASSUME TypeInv, GoroutineInv, WaiterInv, NEW m \in Messages
  PROVE  /\ AcquireTimeout(m) => MovesCall(m) /\ nextTag' = nextTag
         /\ m \in Senders /\ Publish(m) => MovesCall(m) /\ nextTag' = nextTag
         /\ m \in Senders /\ ReturnResult(m) => MovesCall(m) /\ nextTag' = nextTag
         /\ m \in Senders /\ ReturnTimeout(m) => MovesCall(m) /\ nextTag' = nextTag
         /\ \A why : m \in Senders /\ SendAborted(m, why) => MovesCall(m)
         /\ m \in Notifiers /\ NotifyStep(m) => MovesCall(m) /\ nextTag' = nextTag
<1> USE CallFactsHold DEF callFrame, brokerVars, workVars, dispatchVars, structVars, waitVars
<1>1. ASSUME AcquireTimeout(m) PROVE MovesCall(m) /\ nextTag' = nextTag
  BY <1>1, ZenonT(30) DEF AcquireTimeout, CallFacts, CallInv, MovesCall
<1>2. ASSUME m \in Senders, Publish(m) PROVE MovesCall(m) /\ nextTag' = nextTag
  BY <1>2, ZenonT(30) DEF Publish, BrokerCounts, CallFacts, CallInv, MovesCall
<1>3. ASSUME m \in Senders, ReturnResult(m) PROVE MovesCall(m) /\ nextTag' = nextTag
  BY <1>3, Zenon DEF ReturnResult, CallFacts, CallInv, MovesCall
<1>4. ASSUME m \in Senders, ReturnTimeout(m) PROVE MovesCall(m) /\ nextTag' = nextTag
  BY <1>4, Zenon DEF ReturnTimeout, CallFacts, CallInv, MovesCall
<1>5. ASSUME NEW why, m \in Senders, SendAborted(m, why) PROVE MovesCall(m)
  BY <1>5, ZenonT(30) DEF SendAborted, rollbackTag, CallFacts, CallInv, MovesCall
<1>6. ASSUME m \in Notifiers, NotifyAcquire(m) PROVE MovesCall(m) /\ nextTag' = nextTag
  <2>1. ch \in Channels /\ chState[ch] # "unopened"
    BY <1>6, ConstructedChannel, ZenonT(30) DEF NotifyAcquire, TypeInv
  <2> QED
    <3>1. /\ pc[m] = "idle" /\ publishSem = None /\ publishSem' = m
          /\ callCh' = [callCh EXCEPT ![m] = ch] /\ pc' = [pc EXCEPT ![m] = "registered"]
          /\ UNCHANGED <<resultCh, tag, wpc, dto, ch, chState, pos, pending, nextTag>>
      BY <1>6, Zenon DEF NotifyAcquire
    <3>2. /\ pc'[m] = "registered" /\ callCh'[m] = ch /\ m \notin Senders
          /\ \A n \in Messages \ {m} : pc'[n] = pc[n] /\ callCh'[n] = callCh[n]
      BY <1>6, <3>1, Zenon DEF CallFacts
    <3>3. pos[m] = 0
      BY <3>1, SMTT(20) DEF CallFacts, CallInv
    <3>4. \A n \in Messages : pc'[n] = "registered" <=> publishSem' = n
      BY <3>1, <3>2, ZenonT(30) DEF CallFacts, CallInv
    <3> QED
      BY ONLY <2>1, <3>1, <3>2, <3>3, <3>4, ZenonT(30) DEF MovesCall
<1>7. ASSUME m \in Notifiers, NotifyPublish(m) PROVE MovesCall(m) /\ nextTag' = nextTag
  BY <1>7, ZenonT(30) DEF NotifyPublish, BrokerCounts, CallFacts, CallInv, MovesCall
<1>8. ASSUME m \in Notifiers, NotifyFails(m) PROVE MovesCall(m) /\ nextTag' = nextTag
  BY <1>8, ZenonT(30) DEF NotifyFails, CallFacts, CallInv, MovesCall
<1>9. ASSUME m \in Notifiers, NotifyStep(m) PROVE MovesCall(m) /\ nextTag' = nextTag
  BY ONLY <1>6, <1>7, <1>8, <1>9, Zenon DEF NotifyStep
<1> QED
  BY ONLY <1>1, <1>2, <1>3, <1>4, <1>5, <1>9, ZenonT(30)

\* A registration makes an entry under a tag of its own.
LEMMA RegisterKeeps ==
  ASSUME TypeInv, GoroutineInv, WaiterInv, NEW p \in Senders, Register(p)
  PROVE  WaiterInv'
<1>0. CallFacts /\ TagDiscipline /\ ConfirmFromOwnChannel /\ NoLostWaiter
  BY CallFactsHold, Zenon DEF WaiterInv
<1>1. /\ pc[p] = "idle" /\ publishSem = None /\ publishSem' = p /\ nextTag' = nextTag + 1
      /\ tag' = [tag EXCEPT ![p] = nextTag + 1]
      /\ pending' = {q \in pending : tag[q] # nextTag + 1} \cup {p}
      /\ callCh' = [callCh EXCEPT ![p] = ch] /\ pc' = [pc EXCEPT ![p] = "registered"]
      /\ UNCHANGED <<resultCh, wpc, dto, ch, chState, pos>>
  BY Zenon DEF Register, callFrame, brokerVars, workVars, dispatchVars, structVars
<1>2. ch \in Channels /\ chState[ch] # "unopened" /\ tag \in [Senders -> Nat] /\ nextTag \in Nat
  BY ConstructedChannel, Zenon DEF Register, TypeInv, TypeOK
<1>3. pending' = pending \cup {p} /\ p \notin pending
  <2>1. \A q \in pending : tag[q] # nextTag + 1
    BY ONLY <1>0, <1>2, SMTT(20) DEF TagDiscipline
  <2>2. p \notin pending
    BY <1>0, <1>1 DEF CallFacts, CallInv
  <2> QED
    BY <1>1, <2>1, <2>2, Zenon
<1>4. \A q \in Senders : (Releasable(q) => Releasable(q)') /\ Releasable(p)'
  <2>1. p \in pending' /\ pending \subseteq pending'
    BY ONLY <1>3, Zenon
  <2>2. UNCHANGED <<resultCh, wpc, dto>>
    BY ONLY <1>1, Zenon
  <2>3. Releasable(p)'
    BY <2>1, Zenon DEF Releasable
  <2>4. ASSUME NEW q \in Senders, Releasable(q) PROVE Releasable(q)'
    BY ONLY <2>1, <2>2, <2>4, ZenonT(30) DEF Releasable
  <2> QED
    BY <2>3, <2>4, Zenon
<1>5. CallInv'
  <2>1. resultCh[p] = "empty"
    BY <1>0, <1>1, ZenonT(30) DEF CallFacts, CallInv
  <2>2. /\ p \in Messages /\ pc'[p] = "registered" /\ callCh'[p] = ch
        /\ \A n \in Messages \ {p} : pc'[n] = pc[n] /\ callCh'[n] = callCh[n]
        /\ pos' = pos /\ Senders \subseteq Messages /\ pending \subseteq Senders
    BY <1>0, <1>1, Zenon DEF CallFacts
  <2>3. \A n \in Messages : pc'[n] = "registered" <=> publishSem' = n
    BY <1>0, <1>1, <2>2, ZenonT(30) DEF CallFacts, CallInv
  <2>4. \A n \in Messages : /\ pc'[n] \in {"idle", "registered"} => pos'[n] = 0
                            /\ pc'[n] \in {"registered", "waiting"} \/ pos'[n] > 0 =>
                                 callCh'[n] \in Channels /\ chState[callCh'[n]] # "unopened"
    <3>1. pos[p] = 0
      BY <1>0, <1>1, <2>2, ZenonT(30) DEF CallFacts, CallInv
    <3>2. ASSUME NEW n \in Messages, n # p
          PROVE  /\ pc'[n] \in {"idle", "registered"} => pos'[n] = 0
                 /\ pc'[n] \in {"registered", "waiting"} \/ pos'[n] > 0 =>
                      callCh'[n] \in Channels /\ chState[callCh'[n]] # "unopened"
      <4>1. pc'[n] = pc[n] /\ callCh'[n] = callCh[n] /\ pos'[n] = pos[n]
        BY <2>2, <3>2, Zenon
      <4>2. /\ pc[n] \in {"idle", "registered"} => pos[n] = 0
            /\ pc[n] \in {"registered", "waiting"} \/ pos[n] > 0 =>
                 callCh[n] \in Channels /\ chState[callCh[n]] # "unopened"
        BY <1>0, Zenon DEF CallFacts, CallInv
      <4> QED
        BY ONLY <4>1, <4>2, ZenonT(30)
    <3> QED
      BY ONLY <1>2, <2>2, <3>1, <3>2, SMTT(20)
  <2>5. \A q \in Senders : pc'[q] = "idle" => resultCh[q] = "empty" /\ callCh'[q] = None
    BY <1>0, <2>2, ZenonT(30) DEF CallFacts, CallInv
  <2>6. \A q \in pending' : pc'[q] \in {"registered", "waiting"}
                            /\ callCh'[q] = ch /\ resultCh[q] = "empty"
    <3>1. \A q \in pending : q # p /\ q \in Messages
      BY <1>3, <2>2, Zenon
    <3>2. \A q \in pending : /\ pc[q] \in {"registered", "waiting"}
                             /\ callCh[q] = ch /\ resultCh[q] = "empty"
      BY <1>0, Zenon DEF CallFacts, CallInv
    <3> QED
      BY ONLY <1>3, <2>1, <2>2, <3>1, <3>2, ZenonT(30)
  <2>7. \A q \in Senders : pc'[q] = "registered" => Releasable(q)'
    BY <1>0, <1>4, <2>2, ZenonT(30) DEF CallFacts, CallInv
  <2>8. \A c \in Channels : wpc[c] = "deliver" => dto[c] \in Senders
    BY <1>0, Zenon DEF CallFacts, CallInv
  <2> QED
    BY <1>1, <2>3, <2>4, <2>5, <2>6, <2>7, <2>8, Zenon DEF CallInv
<1>6. ConfirmFromOwnChannel'
  <2>1. callCh[p] = None /\ None \notin Channels /\ p \in Messages
    BY <1>0, <1>1, ZenonT(30) DEF CallFacts, CallInv
  <2>2. ASSUME NEW c \in Channels, wpc[c] = "deliver"
        PROVE  callCh'[dto[c]] = c /\ resultCh[dto[c]] = "empty" /\ dto[c] \notin pending'
    <3>1. /\ callCh[dto[c]] = c /\ resultCh[dto[c]] = "empty" /\ dto[c] \notin pending
          /\ dto[c] \in Messages
      BY <1>0, <2>2, Zenon DEF ConfirmFromOwnChannel, CallFacts, CallInv
    <3>2. dto[c] # p
      BY <2>1, <3>1, Zenon
    <3>3. callCh'[dto[c]] = callCh[dto[c]]
      BY <1>0, <1>1, <3>1, <3>2, Zenon DEF CallFacts
    <3> QED
      BY <1>3, <3>1, <3>2, <3>3, Zenon
  <2> QED
    BY <1>1, <2>2, Zenon DEF ConfirmFromOwnChannel
<1>7. NoLostWaiter'
  BY <1>0, <1>1, <1>4, ZenonT(30) DEF CallFacts, NoLostWaiter
<1>8. TagDiscipline'
  <2>1. tag'[p] = nextTag' /\ \A q \in pending : tag'[q] = tag[q] /\ tag[q] \in 1..nextTag
    BY <1>0, <1>1, <1>2, <1>3, Zenon DEF CallFacts, TagDiscipline
  <2>2. \A q \in pending : pc'[q] # "registered"
    BY <1>0, <1>1, <1>3, Zenon DEF CallFacts, CallInv
  <2>3. \A q \in pending : tag'[q] \in 1..nextTag' /\ tag'[q] # nextTag'
    BY <1>1, <1>2, <2>1, SMTT(20)
  <2>4. nextTag' \in 1..nextTag'
    BY <1>1, <1>2
  <2> QED
    BY <1>0, <1>3, <2>1, <2>2, <2>3, <2>4 DEF TagDiscipline
<1> QED
  BY <1>5, <1>6, <1>7, <1>8, Zenon DEF WaiterInv

\* rollbackTag gives nextTag back only while it is the call's own.
LEMMA RollbackKeeps ==
  ASSUME TypeInv, WaiterInv, NEW p \in Senders, NEW why, SendAborted(p, why)
  PROVE  TagDiscipline'
<1>0. CallFacts /\ TagDiscipline
  BY CallFactsHold, Zenon DEF WaiterInv
<1>1. /\ pc[p] = "registered" /\ tag' = tag /\ pending' = pending \ {p}
      /\ nextTag' = IF p \in pending /\ nextTag = tag[p] THEN nextTag - 1 ELSE nextTag
      /\ pc' = [pc EXCEPT ![p] = "done"]
  BY Zenon DEF SendAborted, rollbackTag
<1>2. \A q \in pending' : q \in pending /\ q # p /\ pc'[q] # "registered"
  <2>1. pending \subseteq DOMAIN pc /\ \A q \in pending \ {p} : pc[q] # "registered"
    <3>1. p \in Messages /\ pending \subseteq Messages /\ DOMAIN pc = Messages
      BY <1>0, Zenon DEF CallFacts
    <3>2. \A m \in Messages : pc[m] = "registered" <=> publishSem = m
      BY <1>0, Zenon DEF CallFacts, CallInv
    <3> QED
      BY <1>1, <3>1, <3>2, Zenon
  <2> QED
    BY <1>1, <2>1
<1>3. CASE p \in pending
  <2>1. nextTag' = nextTag - 1 /\ tag[p] = nextTag
    BY <1>0, <1>1, <1>3, Zenon DEF TagDiscipline
  <2>2. ASSUME NEW q \in pending' PROVE tag[q] \in 1..nextTag'
    <3>1. tag[q] \in 1..nextTag /\ tag[q] # nextTag /\ nextTag \in Nat
      BY <1>0, <1>2, <1>3, <2>1, Zenon DEF TagDiscipline, TypeInv, TypeOK
    <3> QED
      BY <2>1, <3>1
  <2> QED
    BY <1>0, <1>1, <1>2, <2>2, Zenon DEF TagDiscipline
<1>4. CASE p \notin pending
  BY <1>0, <1>1, <1>2, <1>4, Zenon DEF TagDiscipline
<1> QED
  BY <1>3, <1>4

\* dispatchConfirm takes an entry of the channel the confirm came from.
LEMMA DispatchKeeps ==
  ASSUME TypeInv, GoroutineInv, WaiterInv, NEW c \in Channels, NEW m \in Messages,
         DispatchConfirm(c, m)
  PROVE  WaiterInv'
<1>0. CallFacts /\ TagDiscipline /\ ConfirmFromOwnChannel /\ NoLostWaiter
  BY CallFactsHold, Zenon DEF WaiterInv
<1>1. /\ wpc[c] = "watch"
      /\ UNCHANGED <<pc, tag, callCh, publishSem, nextTag, resultCh, pos, ch, chState>>
      /\ \/ UNCHANGED <<pending, dto, wpc>>
         \/ \E p \in pending : /\ gen = wgen[c] /\ pending' = pending \ {p}
                               /\ dto' = [dto EXCEPT ![c] = p]
                               /\ wpc' = [wpc EXCEPT ![c] = "deliver"]
  BY Zenon DEF DispatchConfirm, callVars, brokerVars, structVars
<1>2. CASE UNCHANGED <<pending, dto, wpc>>
  BY <1>1, <1>2, WaiterFrame, Zenon
<1>3. CASE ~UNCHANGED <<pending, dto, wpc>>
  <2>1. PICK p \in pending : /\ gen = wgen[c] /\ pending' = pending \ {p}
                             /\ dto' = [dto EXCEPT ![c] = p]
                             /\ wpc' = [wpc EXCEPT ![c] = "deliver"]
    BY <1>1, <1>3, Zenon
  <2>2. /\ p \in Senders /\ resultCh[p] = "empty" /\ callCh[p] = ch
    BY <1>0, ZenonT(30) DEF CallFacts, CallInv
  <2>3. c = ch
    BY <1>1, <2>1, SMTT(20) DEF GoroutineInv, GenInv
  <2>4. /\ dto'[c] = p /\ wpc'[c] = "deliver"
        /\ \A b \in Channels \ {c} : dto'[b] = dto[b] /\ wpc'[b] = wpc[b]
    <3>1. DOMAIN dto = Channels
      BY ZenonT(30) DEF TypeInv, TypeOK
    <3>2. Channels \subseteq DOMAIN wpc
      BY DEF TypeInv, TypeOK, Workers
    <3> QED
      BY <2>1, <3>1, <3>2, SMT
  <2>9. /\ UNCHANGED <<pc, tag, callCh, publishSem, nextTag, resultCh, pos, ch, chState>>
        /\ p \in pending /\ pending' = pending \ {p} /\ wpc[c] # "deliver"
    BY <1>1, <2>1, Zenon
  <2>5. \A q \in Senders : Releasable(q) => Releasable(q)'
    BY <2>4, <2>9, Zenon DEF Releasable
  <2>6. CallInv'
    <3>1. \A b \in Channels : wpc'[b] = "deliver" => dto'[b] \in Senders
      <4>1. \A b \in Channels : wpc[b] = "deliver" => dto[b] \in Senders
        BY <1>0, Zenon DEF CallFacts, CallInv
      <4> QED
        BY <2>2, <2>4, <4>1
    <3>2. CallInv /\ pending' \subseteq pending
      BY <1>0, <2>9, Zenon DEF CallFacts
    <3> QED
      BY <2>5, <2>9, <3>1, <3>2, CallsRest, ZenonT(30)
  <2>7. ConfirmFromOwnChannel'
    <3>1. ASSUME NEW b \in Channels \ {c}, wpc'[b] = "deliver"
          PROVE  callCh'[dto'[b]] = b /\ resultCh'[dto'[b]] = "empty" /\ dto'[b] \notin pending'
      <4>1. dto'[b] = dto[b] /\ wpc[b] = "deliver"
        BY <2>4, <3>1, Zenon
      <4>2. callCh[dto[b]] = b /\ resultCh[dto[b]] = "empty" /\ dto[b] \notin pending
        BY <1>0, <4>1, Zenon DEF ConfirmFromOwnChannel
      <4> QED
        BY <2>9, <4>1, <4>2, Zenon
    <3>2. callCh'[dto'[c]] = c /\ resultCh'[dto'[c]] = "empty" /\ dto'[c] \notin pending'
      BY <2>2, <2>3, <2>4, <2>9, Zenon
    <3> QED
      BY <3>1, <3>2, Zenon DEF ConfirmFromOwnChannel
  <2>8. NoLostWaiter' /\ TagDiscipline'
    BY <1>0, <2>5, <2>9, Zenon DEF NoLostWaiter, TagDiscipline
  <2> QED
    BY <2>6, <2>7, <2>8, Zenon DEF WaiterInv
<1> QED
  BY <1>2, <1>3

\* The send to resultCh finds the buffer empty, and releases its call.
LEMMA DeliverKeeps ==
  ASSUME TypeInv, WaiterInv, NEW c \in Channels, Deliver(c)
  PROVE  WaiterInv'
<1>0. CallFacts /\ TagDiscipline /\ ConfirmFromOwnChannel /\ NoLostWaiter
  BY CallFactsHold, Zenon DEF WaiterInv
<1>1. PICK p \in Senders : /\ p = dto[c] /\ p \notin pending /\ pc[p] # "idle"
                          /\ callCh[p] = c
  <2>1. wpc[c] = "deliver"
    BY Zenon DEF Deliver
  <2>2. dto[c] \in Senders /\ dto[c] \notin pending /\ callCh[dto[c]] = c
    BY <1>0, <2>1, Zenon DEF CallFacts, CallInv, ConfirmFromOwnChannel
  <2>3. pc[dto[c]] # "idle"
    <3>1. callCh[dto[c]] # None
      BY <1>0, <2>2, Zenon DEF CallFacts
    <3> QED
      BY <1>0, <2>2, <3>1, Zenon DEF CallFacts, CallInv
  <2> QED
    BY <2>2, <2>3, Zenon
<1>2. UNCHANGED <<pc, tag, callCh, publishSem, nextTag, pending, pos, ch, chState>>
  BY Zenon DEF Deliver, callVars, brokerVars, structVars
<1>3. /\ resultCh' = [resultCh EXCEPT ![p] = dv[c]] /\ wpc' = [wpc EXCEPT ![c] = "watch"]
      /\ dto' = [dto EXCEPT ![c] = None] /\ wpc[c] = "deliver"
  BY <1>1, Zenon DEF Deliver
<1>4. DOMAIN resultCh = Senders /\ DOMAIN dto = Channels /\ dv[c] \in Verdicts
  BY <1>3, ZenonT(30) DEF TypeInv, TypeOK
<1>5. Channels \subseteq DOMAIN wpc
  BY ZenonT(30) DEF TypeInv, TypeOK, Workers
<1>6. /\ resultCh'[p] # "empty" /\ \A q \in Senders \ {p} : resultCh'[q] = resultCh[q]
      /\ wpc'[c] # "deliver"
      /\ \A b \in Channels \ {c} : dto'[b] = dto[b] /\ wpc'[b] = wpc[b]
  BY <1>3, <1>4, <1>5, SMT DEF Verdicts
<1>7. \A q \in Senders : Releasable(q) => Releasable(q)'
  <2>1. Releasable(p)'
    BY <1>6, Zenon DEF Releasable
  <2>2. ASSUME NEW q \in Senders \ {p}, Releasable(q) PROVE Releasable(q)'
    BY <1>1, <1>2, <1>6, <2>2, Zenon DEF Releasable
  <2> QED
    BY <2>1, <2>2, Zenon
<1>8. CallInv'
  <2>1. \A q \in Senders : pc[q] = "idle" \/ q \in pending => resultCh'[q] = resultCh[q]
    BY <1>1, <1>6, Zenon
  <2>2. \A b \in Channels : wpc'[b] = "deliver" => dto'[b] \in Senders
    <3>1. \A b \in Channels : wpc[b] = "deliver" => dto[b] \in Senders
      BY <1>0, Zenon DEF CallFacts, CallInv
    <3>2. \A b \in Channels : wpc'[b] = "deliver" => b # c
      BY <1>6, Zenon
    <3> QED
      BY <1>6, <3>1, <3>2, Zenon
  <2>3. CallInv /\ pending \subseteq Senders
    BY <1>0, Zenon DEF CallFacts
  <2> QED
    BY <1>2, <1>7, <2>1, <2>2, <2>3, CallsRest, Zenon
<1>9. ConfirmFromOwnChannel'
  <2>1. ASSUME NEW b \in Channels, wpc'[b] = "deliver"
        PROVE  callCh'[dto'[b]] = b /\ resultCh'[dto'[b]] = "empty" /\ dto'[b] \notin pending'
    <3>1. b # c /\ dto'[b] = dto[b] /\ wpc[b] = "deliver"
      BY <1>6, <2>1, Zenon
    <3>2. callCh[dto[b]] = b /\ resultCh[dto[b]] = "empty" /\ dto[b] \notin pending
      BY <1>0, <3>1, Zenon DEF ConfirmFromOwnChannel
    <3>3. dto[b] \in Senders \ {p}
      BY <1>0, <1>1, <3>1, <3>2, Zenon DEF CallFacts, CallInv
    <3> QED
      BY <1>2, <1>6, <3>1, <3>2, <3>3, Zenon
  <2> QED
    BY <2>1, Zenon DEF ConfirmFromOwnChannel
<1>10. NoLostWaiter' /\ TagDiscipline'
  BY <1>0, <1>2, <1>7, Zenon DEF NoLostWaiter, TagDiscipline
<1> QED
  BY <1>8, <1>9, <1>10, Zenon DEF WaiterInv

\* One step per action: calls and dispatchConfirm change entries one by one,
\* the three drains all at once.
LEMMA WaiterStep == TypeInv /\ GoroutineInv /\ WaiterInv /\ [Next]_vars => WaiterInv'
<1> SUFFICES ASSUME TypeInv, GoroutineInv, WaiterInv, [Next]_vars PROVE WaiterInv'
  BY Zenon
<1>0. ASSUME NEW m \in Messages, MovesCall(m), nextTag' = nextTag \/ TagDiscipline'
      PROVE  WaiterInv'
  BY <1>0, WaiterCall, Zenon DEF WaiterInv
<1>1. ASSUME NEW m \in Messages, AcquireTimeout(m) PROVE WaiterInv'
  BY <1>0, <1>1, CallsMove, Zenon
<1>2. ASSUME NEW p \in Senders, CallStep(p) PROVE WaiterInv'
  <2>0. p \in Messages
    BY Zenon DEF Messages
  <2>1. CASE Publish(p) \/ ReturnResult(p) \/ ReturnTimeout(p)
    BY <1>0, <2>0, <2>1, CallsMove, Zenon
  <2>2. ASSUME NEW why, SendAborted(p, why) PROVE WaiterInv'
    BY <1>0, <2>0, <2>2, CallsMove, RollbackKeeps, Zenon
  <2> QED
    BY <1>2, <2>1, <2>2, RegisterKeeps, Zenon DEF CallStep
<1>3. ASSUME NEW n \in Notifiers, NotifyStep(n) PROVE WaiterInv'
  <2>0. n \in Messages
    BY ZenonT(30) DEF Messages
  <2> QED
    BY <1>0, <1>3, <2>0, CallsMove, Zenon
<1>9. DOMAIN chState = Channels /\ Channels \subseteq DOMAIN wpc
  BY DEF TypeInv, TypeOK, Workers
<1>4. ASSUME NEW w \in Workers, RebuildStep(w) PROVE WaiterInv'
  <2>1. CASE RebuildBegin(w)
    BY <2>1, <1>9, WaiterFrame, SMTT(20) DEF RebuildBegin, workFrame, callVars, brokerVars,
       dispatchVars, waitVars
  <2>2. CASE RebuildOpenFails(w)
    BY <2>2, <1>9, WaiterFrame, ZenonT(30) DEF RebuildOpenFails, RebuildFails, workFrame,
       callVars, brokerVars, dispatchVars, waitVars
  <2>3. CASE RebuildCheck(w)
    BY <2>3, <1>9, WaiterFrame, SMTT(20), ZenonT(30)
       DEF RebuildCheck, RebuildFails, workFrame, callVars,
       brokerVars, dispatchVars, structVars, waitVars
  <2>4. CASE RebuildInstall(w)
    <3>1. CASE RebuildSuperseded(w)
      BY <2>4, <3>1, <1>9, WaiterFrame, ZenonT(30) DEF RebuildInstall, workFrame, callVars,
         brokerVars, dispatchVars, waitVars
    <3>2. CASE ~RebuildSuperseded(w)
      BY <2>4, <3>2, <1>9, WaiterDrain DEF RebuildInstall, workFrame, callVars,
         brokerVars, dispatchVars
    <3> QED
      BY <3>1, <3>2, ZenonT(30)
  <2>5. CASE RebuildFinish(w)
    BY <2>5, <1>9, WaiterFrame, ZenonT(30) DEF RebuildFinish, GoroutineInv, ChannelInv,
       workFrame, callVars, brokerVars, dispatchVars, waitVars
  <2>6. ASSUME NEW c \in Channels, RebuildOpen(w, c) PROVE WaiterInv'
    BY <2>6, WaiterFrame DEF RebuildOpen, callVars, dispatchVars, structVars, waitVars
  <2> QED
    BY <1>4, <2>1, <2>2, <2>3, <2>4, <2>5, <2>6, ZenonT(30) DEF RebuildStep
<1>5. ASSUME NEW c \in Channels, WatchStep(c) PROVE WaiterInv'
  <2>1. CASE Deliver(c)
    BY <2>1, DeliverKeeps, Zenon
  <2>2. CASE onChannelClosed(c)
    <3>1. CASE gen # wgen[c]
      BY <2>2, <3>1, <1>9, WaiterFrame, ZenonT(30) DEF onChannelClosed, workFrame, callVars,
         brokerVars, dispatchVars, structVars, waitVars
    <3>2. CASE gen = wgen[c]
      BY <2>2, <3>2, <1>9, WaiterDrain, SMTT(20) DEF onChannelClosed, workFrame, callVars,
         brokerVars, dispatchVars
    <3> QED
      BY <3>1, <3>2, Zenon
  <2>3. CASE SelfHeal(c)
    BY <2>3, <1>9, WaiterFrame, Zenon DEF SelfHeal, workFrame, callVars, brokerVars,
       dispatchVars, structVars, waitVars
  <2>4. ASSUME NEW m \in Messages, DispatchConfirm(c, m) PROVE WaiterInv'
    BY <2>4, DispatchKeeps, Zenon
  <2> QED
    BY <1>5, <2>1, <2>2, <2>3, <2>4, Zenon DEF WatchStep
<1>6. ASSUME NEW k \in Conns, Reconnect(k) PROVE WaiterInv'
  <2>1. CASE ~hooked
    BY <1>6, <2>1, <1>9, WaiterFrame, ZenonT(30)
       DEF Reconnect, callVars, brokerVars, dispatchVars,
       structVars, waitVars
  <2>2. CASE hooked
    BY <1>6, <2>2, <1>9, WaiterDrain DEF Reconnect, callVars, brokerVars, dispatchVars
  <2> QED
    BY <2>1, <2>2, ZenonT(30)
<1>7. CASE EnvironmentStep
  <2>1. CASE OnReconnect
    BY <2>1, WaiterFrame, Zenon DEF OnReconnect, envFrame, callVars, brokerVars,
       workVars, dispatchVars, structVars, waitVars
  <2>2. CASE ConnectionDrops
    BY <2>2, WaiterFrame, Zenon DEF ConnectionDrops, envFrame, callVars, brokerVars,
       workVars, dispatchVars, structVars, waitVars
  <2>3. ASSUME NEW k \in Conns, ConnectionRestored(k) PROVE WaiterInv'
    BY <2>3, <1>9, WaiterFrame, Zenon DEF ConnectionRestored, workFrame, callVars,
       brokerVars, dispatchVars, structVars, waitVars
  <2>4. ASSUME NEW c \in Channels, ChannelShutdown(c) PROVE WaiterInv'
    BY <2>4, <1>9, WaiterFrame, SenderAssumption, ZenonT(30) DEF ChannelShutdown, callFrame,
       workFrame, envFrame, callVars, brokerVars, envVars, workVars, dispatchVars,
       structVars, waitVars
  <2>5. ASSUME NEW c \in Channels, ChannelClosedByBroker(c) PROVE WaiterInv'
    BY <2>5, WaiterFrame DEF ChannelClosedByBroker, envFrame, callVars, brokerVars,
       workVars, dispatchVars, structVars, waitVars
  <2>6. ASSUME NEW m \in Messages, NEW v \in Verdicts, BrokerConfirms(m, v)
        PROVE  WaiterInv'
    BY <2>6, WaiterFrame, Zenon DEF BrokerConfirms, envFrame, callVars, workVars,
       dispatchVars, structVars, waitVars
  <2> QED
    BY <1>7, <2>1, <2>2, <2>3, <2>4, <2>5, <2>6, Zenon DEF EnvironmentStep
<1>8. CASE UNCHANGED vars
  BY <1>8, WaiterFrame, Zenon DEF vars, callVars, brokerVars, workVars, dispatchVars,
     structVars, waitVars
<1> QED
  BY <1>1, <1>2, <1>3, <1>4, <1>5, <1>6, <1>7, <1>8, Zenon DEF Next
=============================================================================
