----------------------------- MODULE SenderInv ------------------------------
(***************************************************************************)
(* The inductive invariant behind the safety of Sender.  It has three      *)
(* layers, each inductive relative to the ones before it:                  *)
(*                                                                         *)
(*   GoroutineInv  who holds rebuildMu, which generation each goroutine    *)
(*                 belongs to, which channels are still untouched;         *)
(*   WaiterInv     the slot, s.pending and the result channels;            *)
(*   AlignInv      the tags the sender counts against the broker's.        *)
(***************************************************************************)
EXTENDS Sender

Rebuilding == {"open", "check", "install", "close"}

\* Nothing but the rebuild that opened it can know of channel c.
Fresh(c) ==
  /\ c # ch /\ wpc[c] = "none" /\ wgen[c] = 0
  /\ seq[c] = 0 /\ c \notin desync
  /\ \A m \in Messages : callCh[m] # c

\* rebuildMu is a lock, and gen only moves under it.
MutexInv ==
  /\ \A w \in Workers : wpc[w] \in Rebuilding <=> rebuildMu = w
  /\ \A w \in Workers : wpc[w] \in {"open", "check", "install"} => wgen[w] = gen
  /\ \A c \in Channels : wpc[c] \notin {"hook", "skipped", "failed"}
  /\ \A k \in Conns : wpc[k] \notin {"watch", "deliver", "drained"}

\* NewSender makes the first generation; only then do the others start.
BootInv ==
  /\ wgen[FirstConn] = 0
  /\ wpc[FirstConn] \in {"begin", "open", "check", "install", "close", "done", "failed"}
  /\ wpc[FirstConn] # "failed" => ~wreq[FirstConn]
  /\ gen = 0 <=> wpc[FirstConn] \in {"begin", "open", "check", "install", "failed"}
  /\ hooked => Constructed
  /\ \A w \in Workers \ {FirstConn} :
       wpc[w] \notin {"none", "hook", "skipped"} => wgen[w] > 0 /\ gen > 0

\* A generation number names one channel.
GenInv ==
  /\ gen = 0 <=> ch = None
  /\ ch # None => wgen[ch] = gen
  /\ \A c \in Channels : wgen[c] <= gen /\ (wgen[c] = gen /\ gen > 0 => c = ch)
  /\ \A c \in Channels : wpc[c] # "none" => wgen[c] > 0

\* A channel is untouched until it is installed, and unwatched until the
\* rebuild that installs it ends.
ChannelInv ==
  /\ \A c \in Channels : chState[c] = "unopened" => Fresh(c)
  /\ \A w \in Workers : wpc[w] \in {"check", "install"} =>
       wch[w] \in Channels /\ chState[wch[w]] # "unopened" /\ Fresh(wch[w])
  /\ \A w \in Workers : wpc[w] = "close" =>
       ch # None /\ wpc[ch] = "none" /\ wch[w] # ch
  /\ \A w \in Workers : wpc[w] \notin {"check", "install", "close"} => wch[w] = None
  /\ ch # None => chState[ch] # "unopened"

\* A connection is never dialled twice.
ConnInv == wpc[conn] # "none" /\ \A c \in Channels : wpc[chConn[c]] # "none"

GoroutineInv == MutexInv /\ BootInv /\ GenInv /\ ChannelInv /\ ConnInv

\* Where a call is determines what it has done.
CallInv ==
  /\ \A m \in Messages : pc[m] = "registered" <=> publishSem = m
  /\ \A m \in Messages : pc[m] \in {"idle", "registered"} => pos[m] = 0
  /\ \A m \in Messages : pc[m] \in {"registered", "waiting"} \/ pos[m] > 0 =>
       callCh[m] \in Channels /\ chState[callCh[m]] # "unopened"
  /\ \A p \in Senders : pc[p] = "idle" => resultCh[p] = "empty" /\ callCh[p] = None
  /\ \A p \in pending : pc[p] \in {"registered", "waiting"}
                        /\ callCh[p] = ch /\ resultCh[p] = "empty"
  /\ \A p \in Senders : pc[p] = "registered" => Releasable(p)
  /\ \A c \in Channels : wpc[c] = "deliver" => dto[c] \in Senders

WaiterInv == CallInv /\ TagDiscipline /\ ConfirmFromOwnChannel /\ NoLostWaiter

\* The broker's tags on one channel are 1, 2, ... without repetition.
BrokerInv ==
  /\ \A m \in Messages : pos[m] > 0 => pos[m] <= seq[callCh[m]]
  /\ \A m, n \in Messages :
       pos[m] > 0 /\ pos[m] = pos[n] /\ callCh[m] = callCh[n] => m = n

\* Until something desynchronises the current channel, nextTag is what the
\* broker has counted, plus one while a registered send has yet to publish.
CounterInv == ch \notin desync /\ ch # None =>
  /\ \A p \in pending : pc[p] = "waiting" => tag[p] = pos[p]
  /\ Usable(ch) => nextTag = IF publishSem \in pending THEN seq[ch] + 1 ELSE seq[ch]
  /\ publishSem \in Senders \ pending /\ callCh[publishSem] = ch => ~Usable(ch)

\* v is call p's own verdict; a verdict that reaches a call before it publishes
\* comes from a channel on which that publish must fail.
OwnVerdict(p, v) ==
  /\ callCh[p] \in Channels
  /\ callCh[p] \notin desync =>
       IF pos[p] > 0 THEN verdict[p] = v ELSE ~Usable(callCh[p])

VerdictInv ==
  /\ \A c \in Channels : wpc[c] = "deliver" => OwnVerdict(dto[c], dv[c])
  /\ \A p \in Senders : resultCh[p] \in Verdicts => OwnVerdict(p, resultCh[p])
  /\ \A m \in Messages : pc[m] # "done" => ret[m] = "none"
  /\ \A p \in Senders : pc[p] = "waiting" => pos[p] > 0

AlignInv == BrokerInv /\ CounterInv /\ VerdictInv /\ ConfirmedMeansAcked

-----------------------------------------------------------------------------

\* An entry of s.pending has a tag, so a rollback never takes nextTag below 0,
\* and dispatchConfirm sends a verdict to a call.
TypeInv ==
  /\ TypeOK
  /\ \A p \in pending : tag[p] > 0
  /\ \A c \in Channels : wpc[c] = "deliver" => dto[c] \in Senders /\ dv[c] \in Verdicts

\* TypeInv in four parts: the environment, what the goroutines share, the calls
\* and their waiters, the broker's view and the dispatch of confirms.
EnvTypes == connOpen \in BOOLEAN /\ hooked \in BOOLEAN /\ faults \in 0..MaxFaults

WorkTypes ==
  /\ conn \in Conns /\ ch \in Channels \cup {None} /\ gen \in Nat
  /\ rebuildMu \in Workers \cup {None}
  /\ chState \in [Channels -> {"unopened", "open", "closed"}]
  /\ chConn \in [Channels -> Conns]
  /\ wpc \in [Workers -> {"none", "hook", "skipped", "begin", "open", "check",
                          "install", "close", "watch", "deliver", "drained",
                          "done", "failed"}]
  /\ wgen \in [Workers -> Nat] /\ wreq \in [Workers -> BOOLEAN]
  /\ wch \in [Workers -> Channels \cup {None}]

CallTypes ==
  /\ nextTag \in Nat /\ pending \subseteq Senders
  /\ publishSem \in Messages \cup {None}
  /\ pc \in [Messages -> {"idle", "registered", "waiting", "done"}]
  /\ tag \in [Senders -> Nat]
  /\ callCh \in [Messages -> Channels \cup {None}]
  /\ resultCh \in [Senders -> Results \cup {"empty"}]
  /\ ret \in [Messages -> Returns \cup {"none"}]
  /\ \A p \in pending : tag[p] > 0

BrokerTypes ==
  /\ seq \in [Channels -> Nat] /\ seen \in [Channels -> Nat]
  /\ pos \in [Messages -> Nat]
  /\ verdict \in [Messages -> Verdicts \cup {"none"}]
  /\ dto \in [Channels -> Senders \cup {None}]
  /\ dv \in [Channels -> Verdicts \cup {"none"}]
  /\ desync \subseteq Channels
  /\ \A c \in Channels : wpc[c] = "deliver" => dto[c] \in Senders /\ dv[c] \in Verdicts

\* The steps that leave every goroutine of the sender where it is.
CallerStep ==
  \/ \E m \in Messages : AcquireTimeout(m)
  \/ \E p \in Senders : CallStep(p)
  \/ \E n \in Notifiers : NotifyStep(n)
  \/ \E m \in Messages, v \in Verdicts : BrokerConfirms(m, v)
  \/ UNCHANGED vars

IInv == TypeInv /\ GoroutineInv /\ WaiterInv /\ AlignInv /\ NoChannelLeak /\ RecoveryOwned
=============================================================================
