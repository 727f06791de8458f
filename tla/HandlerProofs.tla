--------------------------- MODULE HandlerProofs ----------------------------
(***************************************************************************)
(* Wildcard names, bindings and handlers agree: what the broker routes to  *)
(* an app by the bindings of declareTopology, keymatcher.go matches and    *)
(* the registry resolves, for any names, patterns and registrations.  What *)
(* is dropped for want of a handler never had one, so no message is lost.  *)
(***************************************************************************)
EXTENDS DispatchProofs, KeyMatcherProofs
-----------------------------------------------------------------------------
(* Bindings and handlers.                                                  *)

\* A topic binding stands for a handler of the listener whose queue it feeds.
Topical == {"event", "notification"}
Stands(d) ==
  d.op = "bind" /\ d.from = DomainEvents =>
    \E a \in Apps, k \in Topical : d.name = QueueOf(a, k) /\ d.key \in handlers[a][k]
Standing(s) == (\E S : s \in Seq(S)) /\ \A d \in Range(s) : Stands(d)

\* Sequences of such declarations can be put one behind the other.
LEMMA StandTogether ==
  ASSUME NEW s, NEW t, Standing(s), Standing(t)
  PROVE  Standing(s \o t)
<1>1. PICK S : s \in Seq(S)
  BY Zenon DEF Standing
<1>2. PICK T : t \in Seq(T)
  BY Zenon DEF Standing
<1>3. s \in Seq(S \cup T) /\ t \in Seq(S \cup T)
  BY ONLY <1>1, <1>2, SMTT(20)
<1>4. s \o t \in Seq(S \cup T) /\ Range(s \o t) = Range(s) \cup Range(t)
  BY ONLY <1>3, ConcatRange, SMTT(20)
<1> QED
  BY <1>4, Zenon DEF Standing

\* Exchanges, queues and the bindings of other exchanges stand for no handler.
LEMMA OthersStand ==
  ASSUME NEW q, NEW x, NEW key
  PROVE  Stands(Exchange(x)) /\ Stands(Queue(q, x)) /\ (x # DomainEvents => Stands(Bind(q, x, key)))
<1>1. Exchange(x).op # "bind" /\ Queue(q, x).op # "bind" /\ Bind(q, x, key).from = x
  BY ONLY SMTT(20) DEF Exchange, Queue, Bind
<1> QED
  BY <1>1, Zenon DEF Stands

\* The exchanges that no app shares, and those of direct messages, are others.
LEMMA NotDomainEvents ==
  ASSUME NEW a
  PROVE  /\ DirectMessages # DomainEvents /\ GlobalReply # DomainEvents
         /\ DirectDLQExchange # DomainEvents
         /\ EventsDLQExchange(a) # DomainEvents /\ EventsRetryExchange(a) # DomainEvents
BY DEF DirectMessages, GlobalReply, DirectDLQExchange, EventsDLQExchange, EventsRetryExchange,
       DomainEvents

\* Short sequences stand when their elements do.
LEMMA ShortStanding ==
  /\ Standing(<<>>)
  /\ \A x : Stands(x) => Standing(<<x>>)
  /\ \A x, y : Stands(x) /\ Stands(y) => Standing(<<x, y>>)
  /\ \A x, y, z : Stands(x) /\ Stands(y) /\ Stands(z) => Standing(<<x, y, z>>)
  /\ \A x, y, z, v, w : Stands(x) /\ Stands(y) /\ Stands(z) /\ Stands(v) /\ Stands(w) =>
       Standing(<<x, y, z, v, w>>)
<1>1. <<>> \in Seq({}) /\ Range(<<>>) = {}
  BY DEF Range
<1>2. ASSUME NEW x, Stands(x) PROVE Standing(<<x>>)
  <2>1. <<x>> \in Seq({x}) /\ Range(<<x>>) \subseteq {x}
    BY DEF Range
  <2> QED
    BY <1>2, <2>1, Zenon DEF Standing
<1>3. ASSUME NEW x, NEW y, Stands(x), Stands(y) PROVE Standing(<<x, y>>)
  <2>1. <<x, y>> \in Seq({x, y}) /\ Range(<<x, y>>) \subseteq {x, y}
    BY DEF Range
  <2> QED
    BY <1>3, <2>1, Zenon DEF Standing
<1>4. ASSUME NEW x, NEW y, NEW z, Stands(x), Stands(y), Stands(z) PROVE Standing(<<x, y, z>>)
  <2>1. <<x, y, z>> \in Seq({x, y, z}) /\ Range(<<x, y, z>>) \subseteq {x, y, z}
    BY DEF Range
  <2> QED
    BY <1>4, <2>1, Zenon DEF Standing
<1>5. ASSUME NEW x, NEW y, NEW z, NEW v, NEW w, Stands(x), Stands(y), Stands(z), Stands(v), Stands(w)
      PROVE  Standing(<<x, y, z, v, w>>)
  <2>1. /\ <<x, y, z, v, w>> \in Seq({x, y, z, v, w})
        /\ Range(<<x, y, z, v, w>>) \subseteq {x, y, z, v, w}
    BY DEF Range
  <2> QED
    BY <1>5, <2>1, Zenon DEF Standing
<1>6. Standing(<<>>)
  BY <1>1, Zenon DEF Standing
<1> QED
  BY <1>2, <1>3, <1>4, <1>5, <1>6, ZenonT(30)

\* The bindings made for the names of a walk stand for their handlers.
LEMMA BindsStand ==
  ASSUME RegistryInv, NEW a \in Apps, NEW k \in Topical, NEW names \in Walks(handlers[a][k])
  PROVE  Standing([i \in DOMAIN names |-> Bind(QueueOf(a, k), DomainEvents, names[i])])
<1> DEFINE q == QueueOf(a, k)
           B == [i \in DOMAIN names |-> Bind(q, DomainEvents, names[i])]
<1>1. k \in Kinds
  BY DEF Topical, Kinds
<1>2. handlers[a][k] \in SUBSET Seq(Segments)
  BY <1>1, ZenonT(30) DEF RegistryInv
<1>3. names \in Seq(Seq(Segments))
  BY <1>2, WalkType, Zenon
<1>4. \E S : B \in Seq(S)
  BY <1>3, BindsType, Zenon
<1>5. \A i \in DOMAIN names : names[i] \in handlers[a][k]
  BY Zenon DEF Walks, Bijection, Injection
<1>6. ASSUME NEW d \in Range(B) PROVE Stands(d)
  <2>1. PICK i \in DOMAIN names : d = Bind(q, DomainEvents, names[i])
    BY <1>6, Zenon DEF Range
  <2>2. d.name = q /\ d.key = names[i]
    BY ONLY <2>1, ZenonT(30) DEF Bind
  <2> QED
    BY <1>5, <2>2, Zenon DEF Stands
<1> QED
  BY <1>4, <1>6, Zenon DEF Standing

\* So do all the bindings of declareTopology.
LEMMA TopologyStands ==
  ASSUME RegistryInv, NEW a \in Apps, NEW ds \in declareTopology(a)
  PROVE  Standing(ds)
<1> DEFINE Order(e, c, q, n) ==
      DeclareExchanges \o declareEvents(a, e) \o declareCommands(a, c) \o declareQueries(a, q)
        \o declareNotifications(a, n) \o declareReplies(a)
<1>0. ds \in {Order(e, c, q, n) :
               e \in Walks(handlers[a]["event"]), c \in Walks(handlers[a]["command"]),
               q \in Walks(handlers[a]["query"]), n \in Walks(handlers[a]["notification"])}
  BY PTL DEF declareTopology
<1>1. PICK e \in Walks(handlers[a]["event"]), c \in Walks(handlers[a]["command"]),
           q \in Walks(handlers[a]["query"]), n \in Walks(handlers[a]["notification"]) :
        ds = Order(e, c, q, n)
  <2> HIDE DEF Order
  <2> QED
    BY <1>0, SMTT(20)
<1>2. Standing(DeclareExchanges) /\ Standing(declareReplies(a))
  BY NotDomainEvents, OthersStand, ShortStanding, ZenonT(30) DEF DeclareExchanges, declareReplies
<1>3. ASSUME NEW s, Standing(s) PROVE Standing(IfRetry(s))
  BY <1>3, ShortStanding, Zenon DEF IfRetry
<1>4. Standing(declareEvents(a, e))
  <2> DEFINE f == QueueOf(a, "event")
             R == DeclareEventsDLQRetry(a, f)
             B == [i \in DOMAIN e |-> Bind(f, DomainEvents, e[i])]
             F == <<Queue(f, DeadLetterTo(EventsDLQExchange(a)))>>
  <2>1. "event" \in Topical
    BY DEF Topical
  <2>2. Standing(B)
    BY <2>1, BindsStand, Zenon
  <2>3. Standing(R)
    BY NotDomainEvents, OthersStand, ShortStanding, ZenonT(30) DEF DeclareEventsDLQRetry
  <2>4. Standing(F)
    BY OthersStand, ShortStanding, Zenon
  <2>5. declareEvents(a, e) = <<>> \/ declareEvents(a, e) = F \o IfRetry(R) \o B
    BY Zenon DEF declareEvents
  <2> HIDE DEF F, R, B
  <2> QED
    BY <1>3, <2>2, <2>3, <2>4, <2>5, StandTogether, ShortStanding, ZenonT(30)
<1>5. ASSUME NEW f, NEW key, NEW x
      PROVE  Standing(<<Queue(f, x)>> \o IfRetry(DeclareDirectDLQRetry(f, key))
                      \o <<Bind(f, DirectMessages, key)>>)
  <2>1. Standing(DeclareDirectDLQRetry(f, key))
    BY NotDomainEvents, OthersStand, ShortStanding, Zenon DEF DeclareDirectDLQRetry
  <2>2. Standing(<<Queue(f, x)>>) /\ Standing(<<Bind(f, DirectMessages, key)>>)
    BY NotDomainEvents, OthersStand, ShortStanding, ZenonT(30)
  <2> QED
    BY <1>3, <2>1, <2>2, StandTogether, ZenonT(30)
<1>6. Standing(declareCommands(a, c)) /\ Standing(declareQueries(a, q))
  BY <1>5, ShortStanding, Zenon DEF declareCommands, declareQueries
<1>7. Standing(declareNotifications(a, n))
  <2>1. "notification" \in Topical
    BY DEF Topical
  <2>2. Standing([i \in DOMAIN n |-> Bind(QueueOf(a, "notification"), DomainEvents, n[i])])
    BY <2>1, BindsStand, Zenon
  <2>3. Standing(<<Queue(QueueOf(a, "notification"), Nothing)>>)
    BY OthersStand, ShortStanding, Zenon
  <2> QED
    BY <2>2, <2>3, StandTogether, ShortStanding, ZenonT(30) DEF declareNotifications
<1> QED
  BY <1>1, <1>2, <1>4, <1>6, <1>7, StandTogether, ZenonT(30)

\* An app has finitely many handlers.
HandlersFinite == \A a \in Apps, k \in Kinds : IsFiniteSet(handlers[a][k])

\* A registration adds one handler, and nothing takes one back.
LEMMA HandlersGrow ==
  ASSUME ConfigInv, RegistryInv, HandlersFinite, [Next]_vars
  PROVE  HandlersFinite' /\ \A a \in Apps, k \in Kinds : handlers[a][k] \subseteq handlers'[a][k]
<1>1. CASE UNCHANGED handlers
  BY <1>1, Zenon DEF HandlersFinite
<1>2. CASE \E a \in Apps, k \in Kinds, name \in Seq(Segments) : Listen(a, k, name)
  <2>1. PICK a0 \in Apps, k0 \in Kinds, name \in Seq(Segments) : Listen(a0, k0, name)
    BY <1>2, ZenonT(30)
  <2>2. /\ \A a \in Apps, k \in Kinds : a # a0 \/ k # k0 => handlers'[a][k] = handlers[a][k]
        /\ handlers'[a0][k0] = handlers[a0][k0] \cup {name}
    <3>1. OthersKept(a0, k0) /\ handlers'[a0][k0] = handlers[a0][k0] \cup {name}
      BY <2>1, ListenStep, ZenonT(30)
    <3> QED
      BY <3>1, Zenon DEF OthersKept
  <2>3. IsFiniteSet(handlers'[a0][k0])
    BY <2>2, FS_AddElement, ZenonT(30) DEF HandlersFinite
  <2> QED
    BY <2>2, <2>3, Zenon DEF HandlersFinite
<1> QED
  BY <1>1, <1>2, RegistryMoves, ZenonT(30) DEF ConfigInv

\* What a step declares is in a sequence of declareTopology.
LEMMA BindingMoves ==
  ASSUME RegistryInv, [Next]_vars, NEW d \in broker', d \notin broker
  PROVE  \E a \in Apps : \E ds \in declareTopology(a) : d \in Range(ds)
<1>1. ASSUME NEW a, NEW B, Fail(a, B) PROVE d \in B
  BY <1>1, Zenon DEF Fail
<1>2. ASSUME NEW a \in Apps, Declare(a) PROVE \E ds \in declareTopology(a) : d \in Range(ds)
  <2>1. PICK ds \in declareTopology(a) :
          \/ broker' = broker \cup Range(ds)
          \/ \E n \in 0..(Len(ds) - 1) : Fail(a, broker \cup {ds[i] : i \in 1..n})
    BY <1>2, Zenon DEF Declare
  <2>2. Sane(ds)
    BY TopologySane, Zenon
  <2>3. Len(ds) \in Nat /\ DOMAIN ds = 1..Len(ds)
    BY <2>2, SeqShape, Zenon DEF Sane
  <2>4. ASSUME NEW n \in 0..(Len(ds) - 1), Fail(a, broker \cup {ds[i] : i \in 1..n})
        PROVE  d \in Range(ds)
    <3>1. 1..n \subseteq DOMAIN ds
      BY <2>3, SMTT(20)
    <3>2. d \in {ds[i] : i \in 1..n}
      BY <1>1, <2>4, Zenon
    <3> QED
      BY <3>1, <3>2, Zenon DEF Range
  <2> QED
    BY <2>1, <2>4, ZenonT(30)
<1>3. ASSUME NEW a \in Apps, startListeners(a) PROVE FALSE
  BY <1>1, <1>3, Zenon DEF startListeners
<1>4. CASE \E a \in Apps : Start(a) \/ Declare(a) \/ startListeners(a) \/ Drop(a)
  BY <1>2, <1>3, <1>4, ZenonT(30) DEF Start, Drop
<1>5. CASE \E h \in scenario.late : Register(h[1], h[2], h[3])
  BY <1>5, Zenon DEF Register
<1>6. CASE \E l \in Listeners : dispatch(l) \/ resolve(l) \/ Handled(l) \/ Failed(l)
  BY <1>6, Zenon DEF dispatch, resolve, Handled, Failed
<1>7. CASE \E msg \in Messages : \/ \E isBroken \in BOOLEAN : Emit(msg, isBroken)
                                 \/ \E q \in Queues : Expire(msg, q)
                                 \/ \E l \in Listeners : Deliver(l, msg)
  BY <1>7, Zenon DEF Emit, Expire, Deliver
<1>8. CASE UNCHANGED vars
  BY <1>8, Zenon DEF vars
<1> QED
  BY <1>4, <1>5, <1>6, <1>7, <1>8, Zenon DEF Next

\* Every topic binding the broker has stands for a handler, as handlers are
\* never taken back.
StandInv == \A d \in broker : Stands(d)

\* Declarations bind registered names, and a registration removes none.
LEMMA StandStep ==
  ASSUME ConfigInv, RegistryInv, HandlersFinite, StandInv, [Next]_vars
  PROVE  StandInv'
<1>1. Topical \subseteq Kinds
  BY DEF Topical, Kinds
<1>2. ASSUME NEW d, Stands(d) PROVE Stands(d)'
  BY <1>1, <1>2, HandlersGrow, ZenonT(30) DEF Stands
<1>3. ASSUME NEW d \in broker' PROVE Stands(d)
  BY BindingMoves, TopologyStands, Zenon DEF StandInv, Standing
<1> QED
  BY <1>2, <1>3, Zenon DEF StandInv

\* A message in a queue of a topic has a handler there that its name matches.
Wanted(msg, l) == \E p \in handlers[l[1]][l[2]] : TopicMatches(msg.name, p)
WantedInv ==
  \A msg \in Messages, l \in Listeners :
    IsRouted(msg, l) /\ msg.kind \in Topical => l[2] \in Topical /\ Wanted(msg, l)

\* The broker routes a message through a binding that stands for such a handler.
LEMMA RoutedWanted ==
  ASSUME Whole(broker), StandInv, NEW msg \in Messages, msg.kind \in Topical,
         NEW l \in Listeners, queue(l) \in Route(ExchangeOf(msg), KeyOf(msg))
  PROVE  l[2] \in Topical /\ Wanted(msg, l)
<1>1. ExchangeOf(msg) = DomainEvents /\ KeyOf(msg) = msg.name
  BY DEF Topical, ExchangeOf, KeyOf
<1>2. DomainEvents \notin {DirectMessages, DirectDLQExchange}
  BY NotDomainEvents, ZenonT(30)
<1>3. PICK d \in broker : /\ d.op = "bind" /\ d.from = DomainEvents /\ d.name = queue(l)
                          /\ TopicMatches(msg.name, d.key)
  BY <1>1, <1>2, ZenonT(30) DEF Route
<1>4. PICK a \in Apps, k \in Topical : d.name = QueueOf(a, k) /\ d.key \in handlers[a][k]
  BY <1>3, Zenon DEF StandInv, Stands
<1>5. <<a, k>> \in Listeners /\ <<a, k>>[1] = a /\ <<a, k>>[2] = k
  BY ZenonT(30) DEF Listeners, Topical, Kinds
<1>6. queue(<<a, k>>) = QueueOf(a, k)
  BY <1>5, Zenon DEF queue
<1>7. l = <<a, k>>
  BY <1>3, <1>4, <1>5, <1>6, QueueNames, ZenonT(30)
<1> QED
  BY <1>3, <1>4, <1>5, <1>7, ZenonT(30) DEF Wanted

\* So it is for every copy.
LEMMA WantedStep ==
  ASSUME ConfigInv, RegistryInv, HandlersFinite, Whole(broker), StandInv, WantedInv, [Next]_vars
  PROVE  WantedInv'
<1>1. ASSUME NEW msg, NEW l \in Listeners, l[2] \in Topical, Wanted(msg, l) PROVE Wanted(msg, l)'
  <2>1. l[1] \in Apps /\ l[2] \in Kinds
    BY ZenonT(30) DEF Listeners
  <2> QED
    BY <1>1, <2>1, HandlersGrow, ZenonT(30) DEF Wanted
<1>2. ASSUME NEW msg \in Messages, NEW l \in Listeners, IsRouted(msg, l)', ~IsRouted(msg, l)
      PROVE  queue(l) \in Route(ExchangeOf(msg), KeyOf(msg))
  <2>1. PICK new \in Messages, isBroken \in BOOLEAN : Emit(new, isBroken)
    BY <1>2, CopyMoves, Zenon DEF IsRouted, At
  <2>2. At(msg, l) \in {<<new, q>> : q \in Route(ExchangeOf(new), KeyOf(new))}
    BY <1>2, <2>1, Zenon DEF Emit, IsRouted, At
  <2>3. PICK q \in Route(ExchangeOf(new), KeyOf(new)) : At(msg, l) = <<new, q>>
    BY <2>2, Zenon
  <2>4. msg = new /\ queue(l) = q
    BY <2>3, ZenonT(30) DEF At
  <2> QED
    BY <2>3, <2>4, Zenon
<1> QED
  BY <1>1, <1>2, RoutedWanted, ZenonT(30) DEF WantedInv

\* A name that a pattern of the registry matches is never looked up in vain: it is
\* a handler's, or the resolution, cached or not, is the pattern of a handler.
LEMMA HandlerFound ==
  ASSUME RegistryInv, CacheCoherent, HandlersFinite, NEW a \in Apps, NEW k \in Kinds,
         NEW name \in Seq(Literals) \ {Nothing},
         NEW p \in handlers[a][k], TopicMatches(name, p)
  PROVE  Nothing \notin LookupLocked(a, k, name)
<1>1. handlers[a][k] \in SUBSET Seq(Segments) /\ name \in Seq(Segments) /\ p \in Seq(Segments)
  BY NamesArePatterns, ZenonT(30) DEF RegistryInv
<1>2. CASE name \in handlers[a][k]
  BY <1>2, Zenon DEF LookupLocked, Lookup
<1>3. CASE name \notin handlers[a][k]
  <2>1. HasWildcard(p)
    BY <1>1, <1>3, LiteralMatch, ZenonT(30)
  <2>2. Matches(name, p)
    BY <1>1, <2>1, MatcherIsRouting, ZenonT(30)
  <2>3. ASSUME NEW r \in resolvePattern(name, handlers[a][k]) PROVE r # Nothing
    <3>1. Matches(name, r)
      BY <2>2, ResolvesToMatch, ZenonT(30) DEF HandlersFinite
    <3>2. HasWildcard(r)
      BY <3>1, Zenon DEF Matches
    <3>3. DOMAIN Nothing = {}
      BY DEF Nothing
    <3> QED
      BY <3>2, <3>3, Zenon DEF HasWildcard
  <2>4. name \in DOMAIN cache[a][k] => cache[a][k][name] \in resolvePattern(name, handlers[a][k])
    BY Zenon DEF CacheCoherent
  <2> QED
    BY <1>3, <2>3, <2>4, ZenonT(30) DEF LookupLocked, Lookup
<1> QED
  BY <1>2, <1>3, ZenonT(30)

\* What a step drops is in a live hand, after a lookup in vain.
LEMMA DiscardMoves ==
  ASSUME [Next]_vars, NEW c \in discarded', c \notin discarded
  PROVE  \E l \in Listeners : /\ hand[l].live /\ c = copy(l)
                              /\ \/ l[2] = "query" /\ QueryHandler(l[1], m(l).name) = Nothing
                                 \/ Nothing \in LookupLocked(l[1], l[2], m(l).name)
<1>1. ASSUME NEW l \in Listeners, dispatch(l)
      PROVE  /\ hand[l].live /\ c = copy(l)
             /\ \/ l[2] = "query" /\ QueryHandler(l[1], m(l).name) = Nothing
                \/ Nothing \in LookupLocked(l[1], l[2], m(l).name)
  <2>1. PICK pattern : /\ Found(l, pattern)
                       /\ \/ l[2] = "query" /\ pattern = QueryHandler(l[1], m(l).name)
                          \/ pattern \in Lookup(l[1], l[2], m(l).name)
    BY <1>1, Zenon DEF dispatch
  <2>2. hand[l].live /\ c = copy(l) /\ pattern = Nothing
    BY <2>1, Zenon DEF Found, Discard
  <2> QED
    BY <2>1, <2>2, ZenonT(30) DEF LookupLocked
<1>2. ASSUME NEW l \in Listeners, resolve(l)
      PROVE  hand[l].live /\ c = copy(l) /\ Nothing \in LookupLocked(l[1], l[2], m(l).name)
  <2>1. PICK pattern \in LookupLocked(l[1], l[2], m(l).name) : Found(l, pattern)
    BY <1>2, Zenon DEF resolve
  <2>2. hand[l].live /\ c = copy(l) /\ pattern = Nothing
    BY <2>1, Zenon DEF Found, Discard
  <2> QED
    BY <2>1, <2>2, Zenon
<1>3. CASE \E l \in Listeners : dispatch(l) \/ resolve(l) \/ Handled(l) \/ Failed(l)
  BY <1>1, <1>2, <1>3, ZenonT(30) DEF Handled, Failed
<1>4. CASE \E a \in Apps : Start(a) \/ Declare(a) \/ startListeners(a) \/ Drop(a)
  BY <1>4, Zenon DEF Start, Declare, startListeners, Drop
<1>5. CASE \E h \in scenario.late : Register(h[1], h[2], h[3])
  BY <1>5, Zenon DEF Register
<1>6. CASE \E msg \in Messages : \/ \E isBroken \in BOOLEAN : Emit(msg, isBroken)
                                 \/ \E q \in Queues : Expire(msg, q)
                                 \/ \E l \in Listeners : Deliver(l, msg)
  BY <1>6, Zenon DEF Emit, Expire, Deliver
<1>7. CASE UNCHANGED vars
  BY <1>7, Zenon DEF vars
<1> QED
  BY <1>3, <1>4, <1>5, <1>6, <1>7, ZenonT(30) DEF Next

\* So nothing of a topic is dropped.
LEMMA DiscardStep ==
  ASSUME IInv, HandlersFinite, WantedInv, RoutedHasHandler, [Next]_vars
  PROVE  RoutedHasHandler'
<1>1. ASSUME NEW c \in discarded', c \notin discarded PROVE c[1].kind \in {"command", "query"}
  <2>1. PICK l \in Listeners : /\ hand[l].live /\ c = copy(l)
                               /\ \/ l[2] = "query" /\ QueryHandler(l[1], m(l).name) = Nothing
                                  \/ Nothing \in LookupLocked(l[1], l[2], m(l).name)
    BY <1>1, DiscardMoves, Zenon
  <2> DEFINE msg == m(l)
  <2>2. msg \in Messages /\ IsHeld(msg, l) /\ c[1] = msg
    BY <2>1, ZenonT(30) DEF IInv, HandInv, IsHeld, m, copy
  <2>3. IsRouted(msg, l)
    BY <2>2, Zenon DEF IInv, CopyInv, CopyOK
  <2>4. msg.kind \in Kinds /\ msg.name \in Seq(Literals) \ {Nothing}
    BY <2>2, DispatchAssumption, ZenonT(30)
  <2>5. ASSUME msg.kind \in Topical PROVE FALSE
    <3>1. l[2] \in Topical /\ Wanted(msg, l)
      BY <2>2, <2>3, <2>5, ZenonT(30) DEF WantedInv
    <3>2. l[1] \in Apps /\ l[2] \in Kinds /\ l[2] # "query"
      BY <3>1, ZenonT(30) DEF Listeners, Topical
    <3>3. PICK p \in handlers[l[1]][l[2]] : TopicMatches(msg.name, p)
      BY <3>1, Zenon DEF Wanted
    <3>4. RegistryInv /\ CacheCoherent
      BY Zenon DEF IInv
    <3>5. Nothing \notin LookupLocked(l[1], l[2], msg.name)
      BY <2>4, <3>2, <3>3, <3>4, HandlerFound, ZenonT(30)
    <3> QED
      BY <2>1, <3>2, <3>5, ZenonT(30)
  <2> HIDE DEF msg
  <2> QED
    BY <2>2, <2>4, <2>5, ZenonT(30) DEF Topical, Kinds
<1> QED
  BY <1>1, Zenon DEF RoutedHasHandler

\* The handlers of the first Start stay, and what is dropped has none of them.
DropInv ==
  /\ \A a \in Apps, k \in Kinds : Handlers[a][k] \subseteq handlers[a][k]
  /\ \A c \in discarded : ~HasHandler(c)

\* A lookup in vain means that the name has no handler.
LEMMA DropStep ==
  ASSUME IInv, HandlersFinite, DropInv, [Next]_vars
  PROVE  DropInv'
<1>1. RegistryInv /\ CacheCoherent /\ ConfigInv
  BY Zenon DEF IInv
<1>2. \A a \in Apps, k \in Kinds : Handlers[a][k] \subseteq handlers'[a][k]
  BY <1>1, HandlersGrow, ZenonT(30) DEF DropInv
<1>3. ASSUME NEW c \in discarded', c \notin discarded, HasHandler(c) PROVE FALSE
  <2>1. PICK l \in Listeners : /\ hand[l].live /\ c = copy(l)
                               /\ \/ l[2] = "query" /\ QueryHandler(l[1], m(l).name) = Nothing
                                  \/ Nothing \in LookupLocked(l[1], l[2], m(l).name)
    BY <1>3, DiscardMoves, Zenon
  <2>2. l[1] \in Apps /\ l[2] \in Kinds
    BY ZenonT(30) DEF Listeners
  <2> DEFINE name == m(l).name
  <2>3. c[2] = queue(l) /\ c[1].name = name /\ name \in Seq(Literals) \ {Nothing}
    <3>1. m(l) \in Messages /\ c[1] = m(l) /\ c[2] = queue(l)
      BY <2>1, ZenonT(30) DEF IInv, HandInv, m, copy
    <3> QED
      BY <3>1, DispatchAssumption, ZenonT(30)
  <2> HIDE DEF name
  <2>4. PICK h \in Listeners : /\ c[2] = queue(h)
                               /\ IF h[2] = "query" THEN c[1].name \in Handlers[h[1]]["query"]
                                  ELSE \E p \in Handlers[h[1]][h[2]] : TopicMatches(c[1].name, p)
    BY <1>3, Zenon DEF HasHandler
  <2>5. h = l
    BY <2>3, <2>4, QueueNames, ZenonT(30)
  <2>6. CASE l[2] = "query"
    <3>1. name \in handlers[l[1]][l[2]]
      BY <2>2, <2>3, <2>4, <2>5, <2>6, ZenonT(30) DEF DropInv
    <3>2. QueryHandler(l[1], name) = name
      BY <2>6, <3>1, Zenon DEF QueryHandler
    <3>3. LookupLocked(l[1], l[2], name) = {name}
      BY <3>1, ZenonT(30) DEF LookupLocked, Lookup
    <3> QED
      BY <2>1, <2>3, <3>2, <3>3, ZenonT(30) DEF name
  <2>7. CASE l[2] # "query"
    <3>1. PICK p \in handlers[l[1]][l[2]] : TopicMatches(name, p)
      BY <2>2, <2>3, <2>4, <2>5, <2>7, ZenonT(30) DEF DropInv
    <3>2. Nothing \notin LookupLocked(l[1], l[2], name)
      BY <1>1, <2>2, <2>3, <3>1, HandlerFound, ZenonT(30)
    <3> QED
      BY <2>1, <2>7, <3>2, ZenonT(30) DEF name
  <2> QED
    BY <2>6, <2>7, Zenon
<1>4. \A c : HasHandler(c)' <=> HasHandler(c)
  BY Zenon DEF HasHandler, queue
<1> QED
  BY <1>2, <1>3, <1>4, ZenonT(30) DEF DropInv

\* Only messages are published.
EmittedInv == emitted \subseteq Messages

\* Emit publishes one of the messages; nothing else publishes.
LEMMA EmittedStep == ASSUME EmittedInv, [Next]_vars PROVE EmittedInv'
<1>1. CASE \E msg \in Messages, isBroken \in BOOLEAN : Emit(msg, isBroken)
  BY <1>1, Zenon DEF Emit, EmittedInv
<1>2. CASE \/ \E msg \in Messages : \/ \E q \in Queues : Expire(msg, q)
                                    \/ \E l \in Listeners : Deliver(l, msg)
           \/ \E h \in scenario.late : Register(h[1], h[2], h[3])
  BY <1>2, Zenon DEF Expire, Deliver, Register, logVars, EmittedInv
<1>3. CASE \E a \in Apps : Start(a) \/ Declare(a) \/ startListeners(a) \/ Drop(a)
  BY <1>3, Zenon DEF Start, Declare, startListeners, Drop, logVars, EmittedInv
<1>4. CASE \E l \in Listeners : dispatch(l) \/ resolve(l) \/ Handled(l) \/ Failed(l)
  BY <1>4, Zenon DEF dispatch, resolve, Handled, Failed, logVars, EmittedInv
<1>5. CASE UNCHANGED vars
  BY <1>5, Zenon DEF vars, logVars, EmittedInv
<1> QED
  BY <1>1, <1>2, <1>3, <1>4, <1>5, ZenonT(30) DEF Next

\* What ties the names of messages to bindings and handlers.
NamesInv ==
  /\ HandlersFinite /\ EmittedInv /\ StandInv /\ WantedInv /\ RoutedHasHandler /\ DropInv

\* Nothing is bound or published at first.
LEMMA NamesInit == Init => NamesInv
<1> SUFFICES ASSUME Init PROVE NamesInv
  OBVIOUS
<1>1. handlers = Handlers /\ broker = {} /\ routed = {} /\ emitted = {} /\ discarded = {}
  BY Zenon DEF Init
<1>2. HandlersFinite
  BY <1>1, DispatchAssumption, ZenonT(30) DEF HandlersFinite
<1> QED
  BY <1>1, <1>2, ZenonT(30)
     DEF NamesInv, EmittedInv, StandInv, WantedInv, IsRouted, RoutedHasHandler, DropInv

\* Every step keeps it, in the states of the other invariant.
LEMMA NamesStep == IInv /\ NamesInv /\ [Next]_vars => NamesInv'
<1> SUFFICES ASSUME IInv, NamesInv, [Next]_vars PROVE NamesInv'
  OBVIOUS
<1>1. /\ ConfigInv /\ RegistryInv /\ Whole(broker)
      /\ HandlersFinite /\ EmittedInv /\ StandInv /\ WantedInv /\ RoutedHasHandler /\ DropInv
  BY Zenon DEF IInv, NamesInv
<1>2. HandlersFinite' /\ EmittedInv'
  BY <1>1, HandlersGrow, EmittedStep, ZenonT(30)
<1>3. StandInv' /\ WantedInv'
  BY <1>1, StandStep, WantedStep, ZenonT(30)
<1>4. RoutedHasHandler' /\ DropInv'
  BY <1>1, DiscardStep, DropStep, ZenonT(30)
<1> QED
  BY <1>2, <1>3, <1>4, ZenonT(30) DEF NamesInv

\* The names of reachable states.
LEMMA NamesInvariant == Spec => [](IInv /\ NamesInv)
BY IInvInit, IInvStep, NamesInit, NamesStep, PTL DEF Spec

\* A message that the broker let into an events or notification queue is never
\* dropped for want of a handler: whatever wildcard made the binding, and whatever
\* is registered and cached between the bring-up and the dispatch, the lookup of
\* registry.go finds a handler.
THEOREM BindingsHaveHandlers == Spec => []RoutedHasHandler
<1>1. NamesInv => RoutedHasHandler
  BY Zenon DEF NamesInv
<1> QED
  BY <1>1, NamesInvariant, PTL

\* No message is lost, for any set of apps, handlers, patterns and messages, and
\* any number of failing handlers, lost connections and half-made topologies: what
\* the broker has routed to a durable queue is there, in its DLQ, in a hand or
\* settled (the nack in dispatchEnvelope, declareTopology, restoreWithBackoff), and
\* a name with a handler is settled by its handler, never by the ack of a miss.
THEOREM NoMessageIsLost == Spec => []NoLoss
<1>1. ASSUME IInv, NamesInv PROVE NoLoss
  <2>1. ASSUME NEW c \in routed, Durable(c), ~(c[1] \in broken /\ ~withDLQRetry)
        PROVE  c \in settled \/ Waiting(c) \/ InHand(c)
    BY <1>1, <2>1, IInvKeeps, Zenon
  <2>2. \A c \in discarded : ~HasHandler(c)
    BY <1>1, ZenonT(30) DEF NamesInv, DropInv
  <2> QED
    BY <2>1, <2>2, Zenon DEF NoLoss
<1> QED
  BY <1>1, NamesInvariant, PTL

\* matchSegments of keymatcher.go accepts what the broker routes, for patterns and
\* names of any length and for every binding that is declared.
THEOREM MatcherAgreesWithBroker == Spec => []MatcherAgrees
<1>1. ASSUME IInv, NamesInv PROVE MatcherAgrees
  <2>1. ASSUME NEW d \in broker, d.op = "bind", d.from = DomainEvents
        PROVE  AgreeOn({d.key}, {msg.name : msg \in emitted})
    <3>1. PICK a \in Apps, k \in Topical : d.key \in handlers[a][k]
      BY <1>1, <2>1, Zenon DEF NamesInv, StandInv, Stands
    <3>2. k \in Kinds
      BY <3>1, ZenonT(30) DEF Topical, Kinds
    <3>3. d.key \in Seq(Segments)
      BY <1>1, <3>1, <3>2, ZenonT(30) DEF IInv, RegistryInv
    <3>4. \A msg \in emitted : msg.name \in Seq(Literals)
      BY <1>1, DispatchAssumption, Zenon DEF NamesInv, EmittedInv
    <3>5. {d.key} \in SUBSET Seq(Segments) /\ {msg.name : msg \in emitted} \in SUBSET Seq(Literals)
      BY <3>3, <3>4, ZenonT(30)
    <3> QED
      BY <3>5, AgreeOnAll, Zenon
  <2> QED
    BY <2>1, ShortFacts, Zenon DEF MatcherAgrees
<1> QED
  BY <1>1, NamesInvariant, PTL

\* Patterns without a hash resolve to one winner in every order of the map that
\* resolvePattern walks, and no other candidate has all of its literals, for any
\* number of registered patterns of any length.
THEOREM StarsDecide == Spec => []StarsResolveAlike
<1>1. ASSUME IInv, NamesInv PROVE StarsResolveAlike
  <2>1. ASSUME NEW a \in Apps, NEW k \in Kinds, NEW msg \in emitted
        PROVE  OneWinner(msg.name, {p \in StarsOnly(handlers[a][k]) : Matches(msg.name, p)})
    <3> DEFINE K == {p \in StarsOnly(handlers[a][k]) : Matches(msg.name, p)}
    <3>1. handlers[a][k] \in SUBSET Seq(Segments)
      BY <1>1, ZenonT(30) DEF IInv, RegistryInv
    <3>2. msg.name \in Seq(Literals)
      BY <1>1, DispatchAssumption, ZenonT(30) DEF NamesInv, EmittedInv
    <3>3. IsFiniteSet(handlers[a][k]) /\ K \subseteq handlers[a][k]
      BY <1>1, Zenon DEF NamesInv, HandlersFinite, StarsOnly
    <3>4. IsFiniteSet(K)
      BY <3>3, FS_Subset, Zenon
    <3>5. \A p \in K : /\ p \in Seq(Segments) /\ Matches(msg.name, p)
                       /\ \A i \in DOMAIN p : p[i] # Hash
      BY <3>1, Zenon DEF StarsOnly
    <3> HIDE DEF K
    <3>6. OneWinner(msg.name, K)
      BY <3>2, <3>4, <3>5, StarsHaveOneWinner, ZenonT(30)
    <3> QED
      BY <3>6, Zenon DEF K
  <2> QED
    BY <2>1, ShortFacts, Zenon DEF StarsResolveAlike
<1> QED
  BY <1>1, NamesInvariant, PTL
=============================================================================
