---------------------------- MODULE SenderProofs ----------------------------
(***************************************************************************)
(* The last layer of the invariant of Sender and the theorems about it,    *)
(* for any number of calls, channels, connections and faults.              *)
(***************************************************************************)
EXTENDS SenderLayerProofs, SenderRefines
-----------------------------------------------------------------------------
(* The third layer, the sender's tags against the broker's: what drains,   *)
(* frames and the steps of the calls and of the broker do to it.           *)

\* A step that touches no call, and makes no opened channel usable again.
LEMMA AlignFrame ==
  ASSUME TypeInv, GoroutineInv, WaiterInv, AlignInv,
         UNCHANGED <<pc, tag, callCh, publishSem, pending, nextTag, resultCh, pos, seq,
                     verdict, dto, dv, ret, ch, desync>>,
         \A c \in Channels : wpc'[c] = "deliver" <=> wpc[c] = "deliver",
         \A c \in Channels : chState[c] # "unopened" /\ Usable(c)' => Usable(c)
  PROVE  AlignInv'
<1>1. BrokerInv' /\ ConfirmedMeansAcked'
  BY Zenon DEF AlignInv, BrokerInv, ConfirmedMeansAcked
<1>2. CounterInv'
  BY Zenon DEF TypeInv, TypeOK, GoroutineInv, ChannelInv, AlignInv, CounterInv
<1>3. \A p \in Senders : callCh[p] \in Channels => (Usable(callCh[p])' => Usable(callCh[p]))
  BY Zenon DEF GoroutineInv, ChannelInv, Fresh, Messages
<1>4. \A p \in Senders, v \in Verdicts : OwnVerdict(p, v) => OwnVerdict(p, v)'
  BY <1>3, Zenon DEF OwnVerdict
<1>5. VerdictInv'
  BY <1>4, Zenon DEF TypeInv, AlignInv, VerdictInv
<1> QED
  BY <1>1, <1>2, <1>5, Zenon DEF AlignInv

\* A drain, of a channel that is dead or from now on out of step.
LEMMA AlignDrain ==
  ASSUME TypeInv, AlignInv, failPendingLocked,
         UNCHANGED <<pc, tag, callCh, publishSem, pos, seq, verdict, dto, dv, ret, ch,
                     chState, chConn, conn, connOpen>>,
         desync \subseteq desync', ch \in Channels \ desync' => ~Usable(ch),
         \A c \in Channels : wpc'[c] = "deliver" <=> wpc[c] = "deliver"
  PROVE  AlignInv'
<1>1. BrokerInv' /\ ConfirmedMeansAcked'
  BY Zenon DEF AlignInv, BrokerInv, ConfirmedMeansAcked
<1>2. CounterInv'
  BY DrainType, Zenon DEF TypeInv, TypeOK, CounterInv, Usable
<1>3. \A p \in Senders, v \in Verdicts : OwnVerdict(p, v) => OwnVerdict(p, v)'
  BY Zenon DEF OwnVerdict, Usable
<1>4. \A p \in Senders : resultCh'[p] \in Verdicts => resultCh[p] = resultCh'[p]
  BY DrainType, Zenon DEF TypeInv, Verdicts
<1>5. VerdictInv'
  BY <1>3, <1>4, Zenon DEF TypeInv, AlignInv, VerdictInv
<1> QED
  BY <1>1, <1>2, <1>5, Zenon DEF AlignInv

\* A step that leaves verdicts where they are and takes no call's own verdict away.
LEMMA VerdictsStay ==
  ASSUME BrokerTypes, VerdictInv, UNCHANGED <<wpc, dto, dv, resultCh>>,
         \A p \in Senders, v \in Verdicts : OwnVerdict(p, v) => OwnVerdict(p, v)',
         \A m \in Messages : pc'[m] # "done" => ret'[m] = "none",
         \A p \in Senders : pc'[p] = "waiting" => pos'[p] > 0
  PROVE  VerdictInv'
BY Zenon DEF BrokerTypes, VerdictInv

\* A call that returns: its result must be honest, and the counter right.
LEMMA AlignReturn ==
  ASSUME CallTypes, BrokerTypes, AlignInv, NEW m \in Messages, NEW r,
         pc' = [pc EXCEPT ![m] = "done"], ret' = [ret EXCEPT ![m] = r],
         m \in Senders /\ r = "ack" /\ callCh[m] \notin desync => verdict[m] = "ack",
         UNCHANGED <<callCh, resultCh, callFrame>>, CounterInv'
  PROVE  AlignInv'
<1>1. BrokerInv'
  BY Zenon DEF AlignInv, BrokerInv, callFrame, brokerVars
<1>2. \A p \in Senders, v \in Verdicts : OwnVerdict(p, v) => OwnVerdict(p, v)'
  BY Zenon DEF OwnVerdict, Usable, callFrame, brokerVars, envVars
<1>3. /\ \A n \in Messages : pc'[n] # "done" => ret'[n] = "none"
      /\ \A p \in Senders : pc'[p] = "waiting" => pos'[p] > 0
  BY Zenon DEF AlignInv, VerdictInv, CallTypes, Messages, callFrame, brokerVars
<1>4. VerdictInv'
  BY <1>2, <1>3, VerdictsStay, Zenon DEF AlignInv, callFrame, workVars, dispatchVars
<1>5. ConfirmedMeansAcked'
  BY ZenonT(30) DEF AlignInv, ConfirmedMeansAcked, CallTypes, Messages, callFrame, brokerVars
<1> QED
  BY <1>1, <1>4, <1>5, Zenon DEF AlignInv

\* AcquireTimeout gives up before the call has done anything.
LEMMA AlignAcquireTimeout ==
  ASSUME CallTypes, BrokerTypes, AlignInv, NEW m \in Messages, AcquireTimeout(m)
  PROVE  AlignInv'
<1>1. CounterInv'
  BY DEF AcquireTimeout, AlignInv, CounterInv, Usable, callFrame, brokerVars, envVars,
     structVars, waitVars
<1> QED
  BY <1>1, AlignReturn, Zenon DEF AcquireTimeout, waitVars

\* ReturnResult hands on what dispatchConfirm has delivered.
LEMMA AlignReturnResult ==
  ASSUME CallTypes, BrokerTypes, AlignInv, NEW p \in Senders, ReturnResult(p)
  PROVE  AlignInv'
<1>1. CounterInv'
  BY DEF ReturnResult, AlignInv, CounterInv, Usable, callFrame, brokerVars, envVars,
     structVars, waitVars
<1>2. resultCh[p] = "ack" /\ callCh[p] \notin desync => verdict[p] = "ack"
  BY Zenon DEF ReturnResult, AlignInv, VerdictInv, OwnVerdict, Verdicts
<1> QED
  BY <1>1, <1>2, AlignReturn, Zenon DEF ReturnResult, waitVars, Messages

\* ReturnTimeout drops the entry of a call that has published.
LEMMA AlignReturnTimeout ==
  ASSUME CallTypes, BrokerTypes, CallInv, AlignInv, NEW p \in Senders, ReturnTimeout(p)
  PROVE  AlignInv'
<1>1. CounterInv'
  BY SMTT(20) DEF ReturnTimeout, CallInv, AlignInv, CounterInv, Usable, Messages, callFrame,
     brokerVars, envVars, structVars
<1> QED
  BY <1>1, AlignReturn, Zenon DEF ReturnTimeout, Messages

\* SendAborted rolls the tag back, which only the newest entry allows.
LEMMA AlignSendAborted ==
  ASSUME CallTypes, BrokerTypes, CallInv, TagDiscipline, AlignInv, NEW p \in Senders,
         NEW why \in {"ctx", "unavailable"}, SendAborted(p, why)
  PROVE  AlignInv'
<1>1. CounterInv'
  <2>1. /\ pc[p] = "registered" /\ publishSem' = None /\ pc' = [pc EXCEPT ![p] = "done"]
        /\ pending' = pending \ {p}
        /\ nextTag' = IF p \in pending /\ nextTag = tag[p] THEN nextTag - 1 ELSE nextTag
        /\ UNCHANGED <<tag, callCh, pos, seq, ch, desync, chState, connOpen, chConn, conn>>
    BY ZenonT(30) DEF SendAborted, rollbackTag, callFrame, brokerVars, envVars, structVars
  <2>2. /\ p \in Messages /\ pc \in [Messages -> {"idle", "registered", "waiting", "done"}]
        /\ pending \subseteq Senders /\ Senders \subseteq Messages /\ None \notin Senders
        /\ callCh[p] \in Channels \cup {None} /\ seq \in [Channels -> Nat] /\ nextTag \in Nat
    BY SenderAssumption, ZenonT(30) DEF CallTypes, BrokerTypes, Messages
  <2>3. publishSem = p /\ (p \in pending => callCh[p] = ch /\ tag[p] = nextTag)
    BY <2>1, <2>2, ZenonT(30) DEF CallInv, TagDiscipline
  <2>4. CounterInv
    BY Zenon DEF AlignInv
  <2>5. p \notin pending /\ callCh[p] = ch /\ ch \notin desync /\ ch # None => ~Usable(ch)
    BY <2>3, <2>4, ZenonT(30) DEF CounterInv
  <2> QED
    BY ONLY <2>1, <2>2, <2>3, <2>4, <2>5, p \in Senders, SMTT(20) DEF CounterInv, Usable
<1> QED
  BY <1>1, AlignReturn, ZenonT(30) DEF SendAborted, Messages

\* NotifyFails frees a slot that no entry of s.pending goes with.
LEMMA AlignNotifyFails ==
  ASSUME CallTypes, BrokerTypes, CallInv, AlignInv, NEW n \in Notifiers, NotifyFails(n)
  PROVE  AlignInv'
<1>1. CounterInv'
  BY SenderAssumption, SMTT(20)
     DEF NotifyFails, CallTypes, CallInv, AlignInv, CounterInv, Usable,
     Messages, callFrame, brokerVars, envVars, structVars, waitVars
<1> QED
  BY <1>1, AlignReturn, Zenon DEF NotifyFails, waitVars, Messages

\* Register takes the next tag; the call has neither a channel nor a result yet.
LEMMA AlignRegister ==
  ASSUME CallTypes, BrokerTypes, CallInv, AlignInv, NEW p \in Senders, Register(p)
  PROVE  AlignInv'
<1>1. BrokerInv'
  BY DEF Register, CallInv, AlignInv, BrokerInv, callFrame, brokerVars
<1>2. CounterInv'
  BY SenderAssumption, ZenonT(30) DEF Register, CallTypes, AlignInv, CounterInv, Usable,
     Messages, callFrame, brokerVars, envVars, structVars
<1>3. \A v \in Verdicts : ~OwnVerdict(p, v)
  BY SenderAssumption, Zenon DEF Register, CallInv, OwnVerdict, Workers
<1>4. \A q \in Senders, v \in Verdicts : OwnVerdict(q, v) => OwnVerdict(q, v)'
  <2>1. \A q \in Senders \ {p}, v \in Verdicts : OwnVerdict(q, v) => OwnVerdict(q, v)'
    BY DEF Register, OwnVerdict, Usable, callFrame, brokerVars, envVars
  <2> QED
    BY <1>3, <2>1, Zenon
<1>5. /\ \A m \in Messages : pc'[m] # "done" => ret'[m] = "none"
      /\ \A q \in Senders : pc'[q] = "waiting" => pos'[q] > 0
  BY Zenon DEF Register, AlignInv, VerdictInv, CallTypes, Messages, callFrame, brokerVars
<1>6. VerdictInv'
  BY <1>4, <1>5, VerdictsStay, Zenon DEF AlignInv, Register, callFrame, workVars,
     dispatchVars
<1>7. ConfirmedMeansAcked'
  BY ZenonT(30) DEF Register, CallTypes, AlignInv, VerdictInv, ConfirmedMeansAcked, callFrame,
     brokerVars, Messages
<1> QED
  BY <1>1, <1>2, <1>6, <1>7, ZenonT(30) DEF AlignInv

\* NotifyAcquire takes the slot and no tag.
LEMMA AlignNotifyAcquire ==
  ASSUME CallTypes, BrokerTypes, CallInv, AlignInv, NEW n \in Notifiers, NotifyAcquire(n)
  PROVE  AlignInv'
<1>1. BrokerInv'
  BY DEF NotifyAcquire, CallInv, AlignInv, BrokerInv, callFrame, brokerVars
<1>2. CounterInv'
  BY SenderAssumption, Zenon DEF NotifyAcquire, CallTypes, AlignInv, CounterInv, Usable,
     Messages, callFrame, brokerVars, envVars, structVars, waitVars
<1>3. \A q \in Senders : callCh'[q] = callCh[q]
  BY SenderAssumption, SMTT(20) DEF NotifyAcquire
<1>4. \A q \in Senders, v \in Verdicts : OwnVerdict(q, v) => OwnVerdict(q, v)'
  BY <1>3 DEF NotifyAcquire, OwnVerdict, Usable, callFrame, brokerVars, envVars
<1>5. /\ \A m \in Messages : pc'[m] # "done" => ret'[m] = "none"
      /\ \A q \in Senders : pc'[q] = "waiting" => pos'[q] > 0
  BY Zenon DEF NotifyAcquire, AlignInv, VerdictInv, CallTypes, Messages, callFrame,
     brokerVars
<1>6. VerdictInv'
  BY <1>4, <1>5, VerdictsStay, ZenonT(30) DEF AlignInv, NotifyAcquire, callFrame, workVars,
     dispatchVars, waitVars
<1>7. ConfirmedMeansAcked'
  BY <1>3 DEF NotifyAcquire, AlignInv, ConfirmedMeansAcked, callFrame, brokerVars
<1> QED
  BY <1>1, <1>2, <1>6, <1>7, Zenon DEF AlignInv

\* A publish takes the channel's next number; nobody else's verdict is touched.
LEMMA AlignCounted ==
  ASSUME CallTypes, BrokerTypes, AlignInv, NEW m \in Messages, NEW s \in {"waiting", "done"},
         BrokerCounts(m, callCh[m]), callCh[m] # None, pos[m] = 0, pc[m] # "done",
         m \in Notifiers <=> s = "done",
         pc' = [pc EXCEPT ![m] = s], desync \subseteq desync', CounterInv',
         UNCHANGED <<callCh, ret, chState, envVars, workVars, dispatchVars, structVars,
                     waitVars>>
  PROVE  AlignInv'
<1>1. BrokerInv'
  BY SMTT(20) DEF BrokerCounts, CallTypes, BrokerTypes, AlignInv, BrokerInv
<1>2. \A q \in Senders, v \in Verdicts : OwnVerdict(q, v) => OwnVerdict(q, v)'
  BY SMTT(20) DEF BrokerCounts, OwnVerdict, Usable, envVars
<1>3. /\ \A n \in Messages : pc'[n] # "done" => ret'[n] = "none"
      /\ \A q \in Senders : pc'[q] = "waiting" => pos'[q] > 0
  BY DEF BrokerCounts, AlignInv, VerdictInv, CallTypes, BrokerTypes
<1>4. VerdictInv'
  BY <1>2, <1>3, VerdictsStay, ZenonT(30) DEF AlignInv, workVars, dispatchVars, waitVars
<1>5. ConfirmedMeansAcked'
  BY Zenon DEF BrokerCounts, AlignInv, ConfirmedMeansAcked
<1> QED
  BY <1>1, <1>4, <1>5, ZenonT(30) DEF AlignInv

\* Publish: the broker's count catches up with nextTag.
LEMMA AlignPublish ==
  ASSUME CallTypes, BrokerTypes, CallInv, TagDiscipline, AlignInv, NEW p \in Senders,
         Publish(p)
  PROVE  AlignInv'
<1>1. CounterInv'
  BY SenderAssumption, SMTT(20) DEF Publish, BrokerCounts, CallTypes, BrokerTypes, CallInv,
     TagDiscipline, AlignInv, CounterInv, Usable, Messages, envVars, structVars, waitVars
<1>2. p \in Messages /\ p \notin Notifiers /\ pos[p] = 0
  BY SenderAssumption, Zenon DEF Publish, CallInv, Messages
<1> QED
  BY <1>1, <1>2, AlignCounted, ZenonT(30) DEF Publish

\* NotifyPublish: the count runs ahead of nextTag, and the channel is out of step.
LEMMA AlignNotifyPublish ==
  ASSUME CallTypes, BrokerTypes, CallInv, AlignInv, NEW n \in Notifiers, NotifyPublish(n)
  PROVE  AlignInv'
<1>1. CounterInv'
  BY SenderAssumption, SMTT(20) DEF NotifyPublish, BrokerCounts, CallTypes, CallInv, AlignInv,
     CounterInv, Usable, Messages, envVars, structVars, waitVars
<1>2. n \in Messages /\ pos[n] = 0
  BY Zenon DEF NotifyPublish, CallInv, Messages
<1> QED
  BY <1>1, <1>2, AlignCounted, Zenon DEF NotifyPublish

\* BrokerConfirms settles one message, once.
LEMMA AlignBrokerConfirms ==
  ASSUME CallTypes, BrokerTypes, AlignInv, NEW m \in Messages, NEW v \in Verdicts,
         BrokerConfirms(m, v)
  PROVE  AlignInv'
<1>1. BrokerInv'
  BY Zenon DEF BrokerConfirms, AlignInv, BrokerInv, envFrame, callVars
<1>2. CounterInv'
  BY Zenon DEF BrokerConfirms, AlignInv, CounterInv, Usable, envFrame, callVars, envVars,
     structVars, waitVars
<1>3. \A q \in Senders, w \in Verdicts : OwnVerdict(q, w) => OwnVerdict(q, w)'
  BY Zenon DEF BrokerConfirms, BrokerTypes, OwnVerdict, Usable, Verdicts, Messages,
     envFrame, callVars, envVars
<1>4. VerdictInv'
  BY <1>3, VerdictsStay, ZenonT(30) DEF BrokerConfirms, AlignInv, VerdictInv, envFrame,
     callVars, workVars, dispatchVars, waitVars
<1>5. ConfirmedMeansAcked'
  BY DEF BrokerConfirms, AlignInv, ConfirmedMeansAcked, envFrame, callVars
<1> QED
  BY <1>1, <1>2, <1>4, <1>5, Zenon DEF AlignInv

\* A step of a call, of a notification or of the broker: only a publish moves the
\* broker's count, and only a registration or a rollback moves nextTag.
LEMMA AlignCall ==
  ASSUME TypeInv, GoroutineInv, WaiterInv, AlignInv, CallerStep
  PROVE  AlignInv'
<1>1. CallTypes /\ BrokerTypes /\ CallInv /\ TagDiscipline
  BY TypeParts, Zenon DEF WaiterInv
<1>2. CASE \E m \in Messages : AcquireTimeout(m)
  BY <1>1, <1>2, AlignAcquireTimeout, Zenon
<1>3. ASSUME NEW p \in Senders, CallStep(p) PROVE AlignInv'
  BY <1>1, <1>3, AlignRegister, AlignPublish, AlignReturnResult, AlignReturnTimeout,
     AlignSendAborted, ZenonT(30) DEF CallStep
<1>4. ASSUME NEW n \in Notifiers, NotifyStep(n) PROVE AlignInv'
  BY <1>1, <1>4, AlignNotifyAcquire, AlignNotifyPublish, AlignNotifyFails, Zenon DEF
     NotifyStep
<1>5. CASE \E m \in Messages, v \in Verdicts : BrokerConfirms(m, v)
  BY <1>1, <1>5, AlignBrokerConfirms, Zenon
<1>6. CASE UNCHANGED vars
  BY <1>6, AlignFrame, Zenon DEF vars, Usable, callVars, brokerVars, envVars, workVars,
     dispatchVars, structVars, waitVars
<1> QED
  BY <1>2, <1>3, <1>4, <1>5, <1>6, Zenon DEF CallerStep
-----------------------------------------------------------------------------
(* The rest of the third layer, the heart of which is the dispatch of a    *)
(* confirm, and the theorems.                                              *)

\* An entry kept under the tag of a confirm is the confirmed message's own, or its
\* publish can only fail.
LEMMA EntryIsOwn ==
  ASSUME TypeInv, GoroutineInv, WaiterInv, AlignInv, NEW m \in Messages, NEW p \in pending,
         ch \notin desync, ch \in Channels, callCh[m] = ch, tag[p] = pos[m], pos[m] > 0
  PROVE  IF pos[p] > 0 THEN p = m ELSE ~Usable(ch)
<1>0. /\ pos \in [Messages -> Nat] /\ seq \in [Channels -> Nat]
      /\ p \in Messages /\ p \in Senders
  BY Zenon DEF TypeInv, TypeOK, Messages
<1>1. callCh[p] = ch /\ pc[p] \in {"registered", "waiting"}
  BY Zenon DEF WaiterInv, CallInv
<1>2. CASE pc[p] = "waiting"
  <2>1. tag[p] = pos[p]
    BY <1>2, SenderAssumption, ZenonT(30) DEF AlignInv, CounterInv, Workers
  <2> QED
    BY <1>0, <1>1, <2>1, Zenon DEF AlignInv, BrokerInv
<1>3. CASE pc[p] = "registered"
  <2>1. pos[p] = 0 /\ publishSem = p /\ tag[p] = nextTag
    BY <1>0, <1>3, ZenonT(30) DEF WaiterInv, CallInv, TagDiscipline
  <2>2. Usable(ch) => nextTag = seq[ch] + 1
    BY <2>1, SenderAssumption, Zenon DEF AlignInv, CounterInv, Workers
  <2>3. pos[m] <= seq[ch]
    BY Zenon DEF AlignInv, BrokerInv
  <2> QED
    BY ONLY <1>0, <2>1, <2>2, <2>3, m \in Messages, ch \in Channels, tag[p] = pos[m], SMTT(20)
<1> QED
  BY <1>1, <1>2, <1>3, ZenonT(30)

\* The dispatch of a confirm: it takes its own entry, or none.
LEMMA AlignDispatch ==
  ASSUME TypeInv, GoroutineInv, WaiterInv, AlignInv,
         NEW c \in Channels, NEW m \in Messages, DispatchConfirm(c, m)
  PROVE  AlignInv'
<1>0. CallTypes /\ BrokerTypes /\ WorkTypes
  BY TypeParts, Zenon
<1>1. UNCHANGED <<pc, tag, callCh, publishSem, nextTag, resultCh, pos, seq, verdict, ret,
                  ch, desync, chState, chConn, conn, connOpen>>
  BY Zenon DEF DispatchConfirm, callVars, brokerVars, envVars, structVars
<1>2. BrokerInv' /\ ConfirmedMeansAcked'
  BY <1>1, ZenonT(30) DEF AlignInv, BrokerInv, ConfirmedMeansAcked
<1>3. \A q \in Senders, v \in Verdicts : OwnVerdict(q, v) => OwnVerdict(q, v)'
  BY <1>1, Zenon DEF OwnVerdict, Usable
<1>4. CASE UNCHANGED <<pending, dto, dv, wpc>>
  <2>1. CounterInv'
    BY <1>1, <1>4, Zenon DEF AlignInv, CounterInv, Usable
  <2>2. VerdictInv'
    BY <1>0, <1>1, <1>3, <1>4, Zenon DEF AlignInv, VerdictInv, BrokerTypes
  <2> QED
    BY <1>2, <2>1, <2>2, ZenonT(30) DEF AlignInv
<1>5. ASSUME NEW p \in pending, gen = wgen[c], tag[p] = seen[c] + 1,
             pending' = pending \ {p}, dto' = [dto EXCEPT ![c] = p],
             dv' = [dv EXCEPT ![c] = verdict[m]], wpc' = [wpc EXCEPT ![c] = "deliver"]
      PROVE  AlignInv'
  <2>1. c = ch
    BY <1>5, ZenonT(30) DEF DispatchConfirm, GoroutineInv, GenInv
  <2>2. /\ callCh[m] = ch /\ callCh[p] = ch /\ tag[p] = pos[m] /\ pos[m] > 0
        /\ verdict[m] \in Verdicts /\ p \in Senders
    BY <1>0, <1>5, <2>1, SMTT(20)
       DEF DispatchConfirm, WaiterInv, CallInv, CallTypes, BrokerTypes
  <2>3. ch \notin desync => IF pos[p] > 0 THEN p = m ELSE ~Usable(ch)
    BY <2>1, <2>2, EntryIsOwn, Zenon
  <2>4. OwnVerdict(p, verdict[m])'
    BY <1>1, <2>1, <2>2, <2>3, ZenonT(30) DEF OwnVerdict, Usable
  <2>5. CounterInv'
    <3>1. publishSem = p /\ ch \notin desync => ~Usable(ch)
      <4>1. publishSem = p => pos[p] = 0
        BY <2>2, ZenonT(30) DEF WaiterInv, CallInv, Messages
      <4> QED
        BY ONLY <2>3, <4>1, SMTT(20)
    <3> QED
      BY <1>1, <1>5, <3>1, ZenonT(30) DEF AlignInv, CounterInv, Usable
  <2>6. VerdictInv'
    BY <1>0, <1>1, <1>3, <1>5, <2>2, <2>4, ZenonT(30)
       DEF AlignInv, VerdictInv, BrokerTypes, CallTypes, WorkTypes, Workers
  <2> QED
    BY <1>2, <2>5, <2>6, Zenon DEF AlignInv
<1> QED
  BY <1>4, <1>5, Zenon DEF DispatchConfirm

\* The send to resultCh hands the verdict on as dispatchConfirm found it.
LEMMA AlignDeliver ==
  ASSUME TypeInv, WaiterInv, AlignInv, NEW c \in Channels, Deliver(c)
  PROVE  AlignInv'
<1>0. CallTypes /\ BrokerTypes /\ WorkTypes
  BY TypeParts, Zenon
<1>1. UNCHANGED <<pc, tag, callCh, publishSem, nextTag, pending, pos, seq, verdict, ret,
                  ch, desync, chState, chConn, conn, connOpen>>
  BY Zenon DEF Deliver, callVars, brokerVars, envVars, structVars
<1>2. BrokerInv' /\ ConfirmedMeansAcked'
  BY <1>1, Zenon DEF AlignInv, BrokerInv, ConfirmedMeansAcked
<1>3. CounterInv'
  BY <1>1, ZenonT(30) DEF AlignInv, CounterInv, Usable
<1>4. \A q \in Senders, v \in Verdicts : OwnVerdict(q, v) => OwnVerdict(q, v)'
  BY <1>1, Zenon DEF OwnVerdict, Usable
<1>5. /\ wpc[c] = "deliver" /\ resultCh' = [resultCh EXCEPT ![dto[c]] = dv[c]]
      /\ \A d \in Channels : wpc'[d] = "deliver" =>
           wpc[d] = "deliver" /\ dto'[d] = dto[d] /\ dv'[d] = dv[d]
  BY <1>0, ZenonT(30) DEF Deliver, BrokerTypes, WorkTypes, Workers
<1>6. VerdictInv'
  BY <1>0, <1>1, <1>4, <1>5, ZenonT(30) DEF AlignInv, VerdictInv, CallTypes, BrokerTypes
<1> QED
  BY <1>2, <1>3, <1>6, Zenon DEF AlignInv

\* One step per action.
LEMMA AlignStep ==
  TypeInv /\ GoroutineInv /\ WaiterInv /\ AlignInv /\ [Next]_vars => AlignInv'
<1> SUFFICES ASSUME TypeInv, GoroutineInv, WaiterInv, AlignInv, [Next]_vars PROVE AlignInv'
  BY Zenon
<1>0. TypeOK /\ WorkTypes
  BY TypeParts, ZenonT(30) DEF TypeInv
<1> USE <1>0, SenderAssumption DEF WorkTypes, Workers, workFrame, envFrame, callVars, brokerVars,
        envVars, workVars, dispatchVars, structVars, waitVars
<1>1. CASE CallerStep
  BY <1>1, AlignCall, Zenon
<1>2. ASSUME NEW w \in Workers, RebuildStep(w) PROVE AlignInv'
  <2>1. CASE RebuildBegin(w)
    BY <2>1, AlignFrame, SMTT(20) DEF RebuildBegin, Usable
  <2>2. CASE RebuildOpenFails(w)
    BY <2>2, AlignFrame, ZenonT(30) DEF RebuildOpenFails, RebuildFails, Usable
  <2>3. CASE RebuildCheck(w)
    BY <2>3, AlignFrame DEF RebuildCheck, RebuildFails, Usable
  <2>4. CASE RebuildInstall(w)
    <3>1. CASE RebuildSuperseded(w)
      <4>1. /\ chState' = [chState EXCEPT ![wch[w]] = "closed"]
            /\ wpc[w] = "install" /\ wpc' = [wpc EXCEPT ![w] = "done"]
            /\ UNCHANGED <<pc, tag, callCh, publishSem, pending, nextTag, resultCh, pos, seq,
                           verdict, dto, dv, ret, ch, desync, connOpen, chConn, conn>>
        BY <2>4, <3>1, ZenonT(30) DEF RebuildInstall, workFrame, callVars, brokerVars,
           dispatchVars, envVars, waitVars
      <4>2. chState \in [Channels -> {"unopened", "open", "closed"}] /\ DOMAIN wpc = Workers
        BY Zenon DEF TypeInv, TypeOK
      <4>3. \A c \in Channels : wpc'[c] = "deliver" <=> wpc[c] = "deliver"
        BY ONLY <4>1, <4>2, SMTT(20) DEF Workers
      <4>4. \A c \in Channels : Usable(c)' => Usable(c)
        BY ONLY <4>1, <4>2, SMTT(20) DEF Usable
      <4> QED
        BY <4>1, <4>3, <4>4, AlignFrame, ZenonT(30)
    <3>2. CASE ~RebuildSuperseded(w)
      <4>1. /\ ch' \in Channels /\ seq'[ch'] = 0 /\ pending' = {} /\ nextTag' = 0
            /\ \A m \in Messages : callCh'[m] # ch'
        BY <2>4, <3>2, DrainType, SMTT(20) DEF RebuildInstall, GoroutineInv, ChannelInv, Fresh
      <4>2. UNCHANGED <<pc, tag, callCh, publishSem, pos, seq, verdict, dto, dv, ret,
                        desync, chState, chConn, conn, connOpen>>
        BY <2>4, <3>2, Zenon DEF RebuildInstall
      <4>3. BrokerInv' /\ ConfirmedMeansAcked'
        BY <4>2, Zenon DEF AlignInv, BrokerInv, ConfirmedMeansAcked
      <4>4. CounterInv'
        BY <4>1, <4>2, Zenon DEF CounterInv, Messages
      <4>5. \A p \in Senders, v \in Verdicts : OwnVerdict(p, v) => OwnVerdict(p, v)'
        BY <4>2, Zenon DEF OwnVerdict, Usable
      <4>6. \A p \in Senders : resultCh'[p] \in Verdicts => resultCh[p] = resultCh'[p]
        BY <2>4, <3>2, DrainType, Zenon DEF RebuildInstall, Verdicts
      <4>7. \A c \in Channels : wpc'[c] = "deliver" <=> wpc[c] = "deliver"
        BY <2>4, <3>2 DEF RebuildInstall
      <4>8. VerdictInv'
        BY <4>2, <4>5, <4>6, <4>7, ZenonT(30) DEF AlignInv, VerdictInv, TypeInv
      <4> QED
        BY <4>3, <4>4, <4>8, ZenonT(30) DEF AlignInv
    <3> QED
      BY <3>1, <3>2, ZenonT(30)
  <2>5. CASE RebuildFinish(w)
    BY <2>5, AlignFrame, Zenon DEF RebuildFinish, Usable, GoroutineInv, ChannelInv
  <2>6. ASSUME NEW c \in Channels, RebuildOpen(w, c) PROVE AlignInv'
    BY <2>6, AlignFrame, Zenon DEF RebuildOpen, Usable
  <2> QED
    BY <1>2, <2>1, <2>2, <2>3, <2>4, <2>5, <2>6, ZenonT(30) DEF RebuildStep
<1>3. ASSUME NEW c \in Channels, WatchStep(c) PROVE AlignInv'
  <2>1. CASE onChannelClosed(c)
    <3>1. CASE gen # wgen[c]
      BY <2>1, <3>1, AlignFrame, ZenonT(30) DEF onChannelClosed, Usable
    <3>2. CASE gen = wgen[c]
      BY <2>1, <3>2, AlignDrain, SMTT(20) DEF onChannelClosed, Usable, GoroutineInv, GenInv
    <3> QED
      BY <3>1, <3>2, ZenonT(30)
  <2>2. CASE SelfHeal(c)
    BY <2>2, AlignFrame, Zenon DEF SelfHeal, Usable
  <2> QED
    BY <1>3, <2>1, <2>2, AlignDeliver, AlignDispatch, Zenon DEF WatchStep
<1>4. ASSUME NEW k \in Conns, Reconnect(k) PROVE AlignInv'
  <2>1. CASE ~hooked
    BY <1>4, <2>1, AlignFrame, ZenonT(30) DEF Reconnect, Usable
  <2>2. CASE hooked
    BY <1>4, <2>2, AlignDrain DEF Reconnect, Usable
  <2> QED
    BY <2>1, <2>2, Zenon
<1>5. CASE EnvironmentStep
  <2>1. CASE OnReconnect
    BY <2>1, AlignFrame, Zenon DEF OnReconnect, Usable
  <2>2. CASE ConnectionDrops
    BY <2>2, AlignFrame, Zenon DEF ConnectionDrops, Usable
  <2>3. ASSUME NEW k \in Conns, ConnectionRestored(k) PROVE AlignInv'
    BY <2>3, AlignFrame, Zenon DEF ConnectionRestored, Usable, GoroutineInv, ConnInv
  <2>4. ASSUME NEW c \in Channels, ChannelShutdown(c) PROVE AlignInv'
    BY <2>4, AlignFrame, Zenon DEF ChannelShutdown, Usable
  <2>5. ASSUME NEW c \in Channels, ChannelClosedByBroker(c) PROVE AlignInv'
    BY <2>5, AlignFrame, Zenon DEF ChannelClosedByBroker, Usable
  <2> QED
    BY <1>1, <1>5, <2>1, <2>2, <2>3, <2>4, <2>5, ZenonT(30) DEF EnvironmentStep, CallerStep
<1> QED
  BY <1>1, <1>2, <1>3, <1>4, <1>5, Zenon DEF Next, CallerStep
-----------------------------------------------------------------------------
(* The theorems.                                                           *)

\* The three layers together, with the two properties of the goroutines, form an
\* inductive invariant.
LEMMA Inductive == Spec => []IInv
<1>1. Init => IInv
  <2> SUFFICES ASSUME Init PROVE IInv
    BY Zenon
  <2> USE SenderAssumption DEF Init, Messages, Workers
  <2>1. TypeInv
    BY TypeInit, ZenonT(30)
  <2>2. GoroutineInv
    <3>1. MutexInv
      BY SMTT(20) DEF MutexInv, Rebuilding
    <3>2. BootInv
      BY SMTT(20) DEF BootInv, Constructed
    <3>3. GenInv
      BY SMTT(20) DEF GenInv
    <3>4. ChannelInv /\ ConnInv
      BY SMTT(20) DEF ChannelInv, ConnInv, Fresh
    <3> QED
      BY ONLY <3>1, <3>2, <3>3, <3>4, Zenon DEF GoroutineInv
  <2>3. WaiterInv
    <3>1. CallInv
      BY SMTT(20) DEF CallInv
    <3>2. TagDiscipline
      BY SMTT(20) DEF TagDiscipline
    <3>3. ConfirmFromOwnChannel /\ NoLostWaiter
      BY SMTT(20) DEF ConfirmFromOwnChannel, NoLostWaiter
    <3> QED
      BY ONLY <3>1, <3>2, <3>3, Zenon DEF WaiterInv
  <2>4. AlignInv
    BY DEF AlignInv, BrokerInv, CounterInv, VerdictInv, ConfirmedMeansAcked, Verdicts
  <2>5. NoChannelLeak /\ RecoveryOwned
    BY Zenon DEF NoChannelLeak, RecoveryOwned, Constructed
  <2> QED
    BY <2>1, <2>2, <2>3, <2>4, <2>5, Zenon DEF IInv
<1>2. IInv /\ [Next]_vars => IInv'
  BY TypeStep, GoroutineStep, WaiterStep, AlignStep, LeakStep, RecoveryStep, Zenon DEF IInv
<1> QED
  BY <1>1, <1>2, PTL DEF Spec

\* A caller blocked in the last select of SendWithConfirm is never forgotten:
\* its entry, its result or a watcher about to send it exists, whatever drains,
\* rollbacks and confirms interleave.
THEOREM WaitersReleasable == Spec => []NoLostWaiter
<1>1. IInv => NoLostWaiter
  BY Zenon DEF IInv, WaiterInv
<1> QED
  BY <1>1, Inductive, PTL

\* The claim in the comment of rollbackTag: a still-matching entry implies
\* nextTag is still tag; and no registration overwrites an entry.
THEOREM TagsDisciplined == Spec => []TagDiscipline
<1>1. IInv => TagDiscipline
  BY Zenon DEF IInv, WaiterInv
<1> QED
  BY <1>1, Inductive, PTL

\* dispatchConfirm releases only callers of the confirm's own channel, and its
\* send outside the lock never blocks the watcher.
THEOREM ConfirmsStayOnChannel == Spec => []ConfirmFromOwnChannel
<1>1. IInv => ConfirmFromOwnChannel
  BY Zenon DEF IInv, WaiterInv
<1> QED
  BY <1>1, Inductive, PTL

\* Every publisher channel that is open is s.ch or held by the running rebuild.
THEOREM ChannelsNeverLeak == Spec => []NoChannelLeak
<1>1. IInv => NoChannelLeak
  BY Zenon DEF IInv
<1> QED
  BY <1>1, Inductive, PTL

\* When a rebuild gives up because "another owner is responsible for recovery",
\* there is one, unless a reconnect ran before the hook was registered.
THEOREM RecoveryAlwaysOwned == Spec => []RecoveryOwned
<1>1. IInv => RecoveryOwned
  BY Zenon DEF IInv
<1> QED
  BY <1>1, Inductive, PTL

\* A nil from SendWithConfirm means that the broker acknowledged that message, on
\* every channel that carried no notification and was alive in no Reconnect.
THEOREM NilMeansAcked == Spec => []ConfirmedMeansAcked
<1>1. IInv => ConfirmedMeansAcked
  BY Zenon DEF IInv, AlignInv
<1> QED
  BY <1>1, Inductive, PTL

\* Nothing has come between the sender's tags and the broker's.
Synced == desync = {}

\* Without notifications and without a second connection nothing desynchronises
\* a channel, and SendWithConfirm is send-or-error without exception.
THEOREM SendOrErrorUndisturbed ==
  ASSUME Notifiers = {}, Conns = {FirstConn}
  PROVE  Spec => []SendOrError
<1>1. Init => Synced
  BY Zenon DEF Init, Synced
<1>2. IInv /\ Synced /\ [Next]_vars => Synced'
  <2> SUFFICES ASSUME IInv, Synced, [Next]_vars PROVE Synced'
    BY Zenon
  <2>1. wpc[FirstConn] # "hook"
    BY Zenon DEF IInv, GoroutineInv, BootInv
  <2>2. \A n \in Notifiers : ~NotifyStep(n)
    BY Zenon
  <2>3. \A k \in Conns : ~Reconnect(k)
    BY <2>1, Zenon DEF Reconnect
  <2> USE DEF callFrame, workFrame, envFrame, Synced
  <2>4. CASE \E m \in Messages : AcquireTimeout(m)
    BY <2>4, Zenon DEF AcquireTimeout
  <2>5. CASE \E p \in Senders : CallStep(p)
    BY <2>5, Zenon DEF CallStep, Register, Publish, ReturnResult, ReturnTimeout, SendAborted
  <2>6. CASE \E w \in Workers : RebuildStep(w)
    BY <2>6, Zenon DEF RebuildStep, RebuildBegin, RebuildOpenFails, RebuildCheck, RebuildFails,
                RebuildInstall, RebuildFinish, RebuildOpen
  <2>7. CASE \E c \in Channels : WatchStep(c)
    BY <2>7, Zenon DEF WatchStep, Deliver, onChannelClosed, SelfHeal, DispatchConfirm
  <2>8. CASE EnvironmentStep
    BY <2>8, Zenon DEF EnvironmentStep, OnReconnect, ConnectionDrops, ConnectionRestored,
                ChannelShutdown, ChannelClosedByBroker, BrokerConfirms
  <2>9. CASE UNCHANGED vars
    BY <2>9, Zenon DEF vars
  <2> QED
    BY <2>2, <2>3, <2>4, <2>5, <2>6, <2>7, <2>8, <2>9, Zenon DEF Next
<1>3. IInv /\ Synced => SendOrError
  BY Zenon DEF IInv, Synced, AlignInv, ConfirmedMeansAcked, SendOrError
<1> QED
  BY <1>1, <1>2, <1>3, Inductive, PTL DEF Spec
-----------------------------------------------------------------------------
(* Sender implements ConfirmedSend. The step that needs the inductive      *)
(* invariant is the return of a result: the verdict in the buffer is the   *)
(* call's own.                                                             *)

\* A step that neither moves a call nor its message maps to a stutter, or to a
\* disturbance when it desynchronises the channel of a call.
LEMMA StutterOrDisturb ==
  ASSUME TypeInv, TypeInv', WaiterInv, desync \subseteq desync',
         \A p \in Senders : /\ pc'[p] = pc[p] /\ pos'[p] = pos[p] /\ ret'[p] = ret[p]
                            /\ verdict'[p] = verdict[p] /\ callCh'[p] = callCh[p]
  PROVE  Promise!Next
<1> DEFINE calls == Disturbed' \ Disturbed
<1>1. None \notin desync'
  BY SenderAssumption, ZenonT(30) DEF TypeInv, TypeOK, Workers
<1>2. calls \in SUBSET {p \in Senders : [q \in Senders |-> pc[q]][p] # "idle"}
  BY <1>1 DEF Disturbed, WaiterInv, CallInv
<1>3. Disturbed' = Disturbed \cup calls /\ Received' = Received
  BY Zenon DEF Disturbed, Received
<1>4. Promise!Disturb(calls)
  BY <1>3, Zenon DEF Promise!Disturb
<1> QED
  BY <1>2, <1>4, Zenon DEF Promise!Next

\* The steps of the goroutines, of the connection and of the notifications move
\* no call of SendWithConfirm.
LEMMA OtherSteps ==
  ASSUME TypeInv, TypeInv', WaiterInv,
         \/ \E n \in Notifiers : AcquireTimeout(n) \/ NotifyStep(n)
         \/ \E w \in Workers : RebuildStep(w)
         \/ \E c \in Channels : WatchStep(c)
         \/ \E k \in Conns : Reconnect(k)
         \/ EnvironmentStep /\ UNCHANGED verdict
         \/ \E n \in Notifiers, v \in Verdicts : BrokerConfirms(n, v)
  PROVE  Promise!Next
<1> DEFINE Still ==
      /\ desync \subseteq desync'
      /\ \A p \in Senders : /\ pc'[p] = pc[p] /\ pos'[p] = pos[p] /\ ret'[p] = ret[p]
                            /\ verdict'[p] = verdict[p] /\ callCh'[p] = callCh[p]
<1>0. /\ Notifiers \cap Senders = {}
      /\ pc \in [Messages -> {"idle", "registered", "waiting", "done"}]
      /\ pos \in [Messages -> Nat] /\ ret \in [Messages -> Returns \cup {"none"}]
      /\ verdict \in [Messages -> Verdicts \cup {"none"}]
      /\ callCh \in [Messages -> Channels \cup {None}]
  <2>1. Notifiers \cap Senders = {}
    BY ONLY SenderAssumption, SMTT(20)
  <2> QED
    BY <2>1, ZenonT(30) DEF TypeInv, TypeOK
<1>1. ASSUME NEW n \in Notifiers, AcquireTimeout(n) \/ NotifyStep(n) PROVE Still
  <2>0. n \in Messages /\ Senders \subseteq Messages \ {n}
    BY <1>0, Zenon DEF Messages
  <2>1. /\ desync \subseteq desync'
        /\ UNCHANGED callCh \/ callCh' = [callCh EXCEPT ![n] = ch]
        /\ UNCHANGED pos \/ pos' = [pos EXCEPT ![n] = seq[callCh[n]] + 1]
    BY <1>1, Zenon DEF AcquireTimeout, NotifyStep, NotifyAcquire, NotifyPublish, NotifyFails,
       BrokerCounts, callFrame, brokerVars
  <2>2. /\ UNCHANGED verdict
        /\ \E s : pc' = [pc EXCEPT ![n] = s]
        /\ UNCHANGED ret \/ \E r : ret' = [ret EXCEPT ![n] = r]
    BY <1>1, Zenon DEF AcquireTimeout, NotifyStep, NotifyAcquire, NotifyPublish, NotifyFails,
       BrokerCounts, callFrame, brokerVars
  <2> QED
    BY <1>0, <2>0, <2>1, <2>2, ZenonT(30)
<1>2. ASSUME NEW w \in Workers, RebuildStep(w) PROVE Still
  BY <1>2, Zenon DEF RebuildStep, RebuildBegin, RebuildOpenFails, RebuildCheck, RebuildFails,
              RebuildInstall, RebuildFinish, RebuildOpen, workFrame, callVars, brokerVars
<1>3. ASSUME NEW c \in Channels, WatchStep(c) PROVE Still
  BY <1>3, Zenon DEF WatchStep, Deliver, onChannelClosed, SelfHeal, DispatchConfirm, workFrame,
              callVars, brokerVars
<1>4. ASSUME NEW k \in Conns, Reconnect(k) PROVE Still
  BY <1>4, Zenon DEF Reconnect, callVars, brokerVars
<1>5. ASSUME EnvironmentStep, UNCHANGED verdict PROVE Still
  BY <1>5, Zenon DEF EnvironmentStep, OnReconnect, ConnectionDrops, ConnectionRestored,
     ChannelShutdown,
              ChannelClosedByBroker, BrokerConfirms, envFrame, workFrame, callVars, brokerVars
<1>6. ASSUME NEW n \in Notifiers, NEW v \in Verdicts, BrokerConfirms(n, v) PROVE Still
  BY <1>0, <1>6 DEF BrokerConfirms, envFrame, callVars, Messages
<1>7. Still
  <2> HIDE DEF Still
  <2> QED
    BY <1>1, <1>2, <1>3, <1>4, <1>5, <1>6, Zenon
<1> QED
  BY <1>7, StutterOrDisturb, ZenonT(30)

\* A verdict that reaches a waiting call is the one of its own message, unless
\* the call is disturbed.
LEMMA ReturnIsHonest ==
  ASSUME TypeInv, AlignInv, NEW p \in Senders, ReturnResult(p)
  PROVE  Promise!Honest(p, resultCh[p])
<1>1. pos[p] > 0 /\ p \in Received
  BY Zenon DEF ReturnResult, AlignInv, VerdictInv, Received
<1>2. resultCh[p] \in Verdicts => verdict[p] = resultCh[p] \/ p \in Disturbed
  BY <1>1, Zenon DEF AlignInv, VerdictInv, OwnVerdict, Disturbed
<1>3. resultCh[p] \in Verdicts \cup {"closed"}
  BY Zenon DEF ReturnResult, TypeInv, TypeOK, Results
<1> QED
  BY <1>1, <1>2, <1>3, Zenon DEF Promise!Honest, Promise!Verdicts, Verdicts

\* The steps of a call of SendWithConfirm map to the steps of the same name.
LEMMA CallSteps ==
  ASSUME TypeInv, TypeInv', WaiterInv, AlignInv, NEW p \in Senders,
         AcquireTimeout(p) \/ CallStep(p) \/ \E v \in Verdicts : BrokerConfirms(p, v)
  PROVE  Promise!Next
<1>0. /\ p \in Messages /\ Senders \subseteq Messages
      /\ pc \in [Messages -> {"idle", "registered", "waiting", "done"}]
      /\ pos \in [Messages -> Nat] /\ ret \in [Messages -> Returns \cup {"none"}]
      /\ verdict \in [Messages -> Verdicts \cup {"none"}]
      /\ callCh \in [Messages -> Channels \cup {None}]
      /\ seq \in [Channels -> Nat] /\ None \notin desync
  BY SenderAssumption, Zenon DEF TypeInv, TypeOK, Messages, Workers
<1> USE <1>0 DEF callFrame, callVars, brokerVars, envFrame
<1>1. ASSUME NEW r \in Promise!Returns, Promise!Honest(p, r), pc[p] # "done",
             pc' = [pc EXCEPT ![p] = "done"], ret' = [ret EXCEPT ![p] = r],
             UNCHANGED <<callCh, pos, verdict, desync>>
      PROVE  Promise!Next
  <2>1. Promise!Return(p, r)
    BY <1>1, Zenon DEF Promise!Return, Received, Disturbed
  <2> QED
    BY <2>1, Zenon DEF Promise!Next
<1>2. Promise!Honest(p, "ctx") /\ "ctx" \in Promise!Returns
  BY Zenon DEF Promise!Honest, Promise!Verdicts, Promise!Returns
<1>3. CASE AcquireTimeout(p)
  BY <1>1, <1>2, <1>3, Zenon DEF AcquireTimeout
<1>4. CASE Register(p)
  <2>1. pc[p] = "idle" /\ callCh[p] = None
    BY <1>4, Zenon DEF Register, WaiterInv, CallInv
  <2>2. Disturbed' \in {Disturbed, Disturbed \cup {p}} /\ Received' = Received
    BY <1>4, <2>1, Zenon DEF Register, Disturbed, Received
  <2>3. Promise!Begin(p)
    BY <1>4, <2>1, <2>2, Zenon DEF Promise!Begin, Register
  <2> QED
    BY <2>3, Zenon DEF Promise!Next
<1>5. CASE Publish(p)
  <2>1. Received' = Received \cup {p} /\ Disturbed' = Disturbed
    <3>1. /\ pos' = [pos EXCEPT ![p] = seq[callCh[p]] + 1] /\ UNCHANGED <<callCh, desync>>
          /\ callCh[p] # None
      BY <1>5, Zenon DEF Publish, BrokerCounts
    <3>2. /\ pos \in [Messages -> Nat] /\ seq \in [Channels -> Nat] /\ Senders \subseteq Messages
          /\ callCh \in [Messages -> Channels \cup {None}]
      BY Zenon DEF TypeInv, TypeOK, Messages
    <3> QED
      BY <3>1, <3>2, SMTT(20) DEF Received, Disturbed
  <2>2. Promise!Receive(p)
    BY <1>5, <2>1, Zenon DEF Promise!Receive, Publish, BrokerCounts
  <2> QED
    BY <2>2, Zenon DEF Promise!Next
<1>6. CASE ReturnResult(p)
  <2>1. resultCh[p] \in Promise!Returns
    BY <1>6, ZenonT(30) DEF ReturnResult, TypeInv, TypeOK, Results, Verdicts, Promise!Returns,
       Promise!Verdicts
  <2> QED
    BY <1>1, <1>6, <2>1, ReturnIsHonest, Zenon DEF ReturnResult
<1>7. CASE ReturnTimeout(p)
  BY <1>1, <1>2, <1>7, Zenon DEF ReturnTimeout
<1>8. ASSUME NEW why \in {"ctx", "unavailable"}, SendAborted(p, why) PROVE Promise!Next
  <2>1. p \notin Received
    <3>1. pc[p] = "registered" /\ p \in Messages
      BY <1>8, Zenon DEF SendAborted, Messages
    <3>2. pos[p] = 0
      BY <3>1, Zenon DEF WaiterInv, CallInv
    <3> QED
      BY ONLY <3>2 DEF Received
  <2>2. Promise!Honest(p, why) /\ why \in Promise!Returns
    BY <2>1, Zenon DEF Promise!Honest, Promise!Verdicts, Promise!Returns
  <2> QED
    BY <1>1, <1>8, <2>2, Zenon DEF SendAborted
<1>9. ASSUME NEW v \in Verdicts, BrokerConfirms(p, v) PROVE Promise!Next
  <2>1. Promise!Confirm(p, v)
    BY <1>9, Zenon DEF Promise!Confirm, BrokerConfirms, Received, Disturbed
  <2> QED
    BY <2>1, Zenon DEF Promise!Next, Promise!Verdicts, Verdicts
<1> QED
  BY <1>3, <1>4, <1>5, <1>6, <1>7, <1>8, <1>9, ZenonT(30) DEF CallStep

\* SendWithConfirm, with all its goroutines, channels and tags, implements what it
\* promises: Sender refines ConfirmedSend.
THEOREM SenderKeepsPromise == Spec => KeepsPromise
<1>1. Init => Promise!Init
  <2> SUFFICES ASSUME Init PROVE Promise!Init
    BY Zenon
  <2>1. Received = {} /\ Disturbed = {}
    BY DEF Init, Received, Disturbed, Messages
  <2> QED
    BY <2>1, Zenon DEF Init, Promise!Init, Messages
<1>2. IInv /\ IInv' /\ [Next]_vars => [Promise!Next]_Promise!vars
  <2> SUFFICES ASSUME IInv, IInv', [Next]_vars PROVE [Promise!Next]_Promise!vars
    BY Zenon
  <2>1. TypeInv /\ TypeInv' /\ WaiterInv /\ AlignInv
    BY Zenon DEF IInv
  <2>2. CASE UNCHANGED vars
    BY <2>2, Zenon DEF vars, callVars, brokerVars, Promise!vars, Received, Disturbed
  <2>3. CASE EnvironmentStep
    <3>1. CASE UNCHANGED verdict
      BY <2>1, <2>3, <3>1, OtherSteps, Zenon
    <3>2. CASE \E m \in Messages, v \in Verdicts : BrokerConfirms(m, v)
      BY <2>1, <3>2, OtherSteps, CallSteps, Zenon DEF Messages
    <3> QED
      BY <2>3, <3>1, <3>2, Zenon DEF EnvironmentStep, OnReconnect, ConnectionDrops,
         ConnectionRestored,
         ChannelShutdown, ChannelClosedByBroker, workFrame, brokerVars
  <2>4. CASE \E m \in Messages : AcquireTimeout(m)
    BY <2>1, <2>4, OtherSteps, CallSteps, Zenon DEF Messages
  <2>5. CASE \E p \in Senders : CallStep(p)
    BY <2>1, <2>5, CallSteps, Zenon
  <2> QED
    BY <2>1, <2>2, <2>3, <2>4, <2>5, OtherSteps, Zenon DEF Next
<1> QED
  BY <1>1, <1>2, Inductive, PTL DEF Spec, KeepsPromise, Promise!Spec
=============================================================================
