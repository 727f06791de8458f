-------------------------- MODULE KeyMatcherProofs --------------------------
(***************************************************************************)
(* The matcher of keymatcher.go for patterns and names of any length: it   *)
(* accepts what a topic exchange routes, it resolves a name that some      *)
(* handler matches to a handler that matches it, and the choice between    *)
(* patterns of stars and literals does not depend on the order in which    *)
(* the map of handlers is walked.                                          *)
(***************************************************************************)
EXTENDS KeyMatcher, FiniteSetTheorems, TLAPS
-----------------------------------------------------------------------------
(* The matcher against the routing of a topic exchange.                    *)

\* A set of numbers has a least one.
LEMMA Least ==
  ASSUME NEW T, T \subseteq Nat, T # {}
  PROVE  \E x \in T : \A y \in T : x <= y
<1>1. PICK x \in T : \A y \in T : ~(<<y, x>> \in OpToRel(<, Nat))
  BY NatLessThanWellFounded, WFMin, Zenon
<1>2. ASSUME NEW y \in T PROVE x <= y
  <2>1. ~(<<y, x>> \in {ss \in Nat \X Nat : ss[1] < ss[2]})
    BY <1>1 DEF OpToRel
  <2> QED
    BY <2>1
<1> QED
  BY <1>2

\* A segment of a pattern takes the piece of the key from one cut to the next.
Takes(segment, key, from, to) ==
  IF segment = Hash THEN from <= to
  ELSE to = from + 1 /\ segment \in {Star, key[to]}
Cuts(key, pattern, cut) ==
  /\ cut \in [0..Len(pattern) -> 0..Len(key)]
  /\ cut[0] = 0 /\ cut[Len(pattern)] = Len(key)
  /\ \A i \in 1..Len(pattern) : Takes(pattern[i], key, cut[i - 1], cut[i])

\* TopicMatches, piece by piece.
LEMMA TopicCuts ==
  ASSUME NEW S, NEW pattern \in Seq(S), NEW key
  PROVE  TopicMatches(key, pattern) <=> \E cut : Cuts(key, pattern, cut)
<1>1. DOMAIN pattern = 1..Len(pattern)
  OBVIOUS
<1> QED
  BY <1>1, Zenon DEF TopicMatches, Cuts, Takes

\* The cuts do not go back behind the first one.
LEMMA CutsGrow ==
  ASSUME NEW S, NEW pattern \in Seq(S), NEW key \in Seq(S), NEW cut, Cuts(key, pattern, cut),
         NEW j \in 1..Len(pattern)
  PROVE  cut[1] <= cut[j]
<1> DEFINE T == {i \in 1..Len(pattern) : ~(cut[1] <= cut[i])}
<1>0. Len(pattern) \in Nat /\ Len(key) \in Nat
  OBVIOUS
<1>1. \A i \in 0..Len(pattern) : cut[i] \in Nat
  <2>1. cut \in [0..Len(pattern) -> 0..Len(key)]
    BY Zenon DEF Cuts
  <2> QED
    BY ONLY <1>0, <2>1, SMTT(20)
<1>2. \A i \in 1..Len(pattern) : cut[i - 1] <= cut[i]
  <2>1. \A i \in 1..Len(pattern) : Takes(pattern[i], key, cut[i - 1], cut[i])
    BY Zenon DEF Cuts
  <2> QED
    BY ONLY <1>0, <1>1, <2>1, SMTT(20) DEF Takes
<1>3. SUFFICES ASSUME T # {} PROVE FALSE
  OBVIOUS
<1>4. PICK x \in T : \A y \in T : x <= y
  <2>1. T \subseteq Nat
    BY <1>0
  <2> HIDE DEF T
  <2> QED
    BY <2>1, <1>3, Least, Zenon
<1>5. x # 1 /\ x - 1 \in 1..Len(pattern) /\ x - 1 \notin T
  BY <1>0, <1>1, <1>4
<1>6. cut[1] <= cut[x - 1] /\ ~(cut[1] <= cut[x]) /\ cut[x - 1] <= cut[x]
  BY <1>2, <1>5, Zenon
<1>7. x - 1 \in 0..Len(pattern) /\ x \in 0..Len(pattern) /\ 1 \in 0..Len(pattern)
  BY <1>0, <1>5
<1> QED
  BY ONLY <1>1, <1>6, <1>7

\* Lengths and elements of what is left of a name.
LEMMA Remainder ==
  ASSUME NEW S, NEW key \in Seq(S), NEW i \in 0..Len(key)
  PROVE  LET rest == SubSeq(key, i + 1, Len(key)) IN
         /\ rest \in Seq(S) /\ Len(rest) = Len(key) - i
         /\ \A j \in 1..(Len(key) - i) : rest[j] = key[i + j]
BY SMT
\* The same of a tail.
LEMMA TailOf ==
  ASSUME NEW S, NEW s \in Seq(S), s # <<>>
  PROVE  /\ Tail(s) \in Seq(S) /\ Len(Tail(s)) = Len(s) - 1 /\ Len(s) \in Nat /\ Len(s) >= 1
         /\ \A j \in 1..(Len(s) - 1) : Tail(s)[j] = s[j + 1]
         /\ Head(s) = s[1] /\ s[1] \in S
BY SMT

\* The first cut taken, the others cut the rest of the key.
LEMMA CutsUnfold ==
  ASSUME NEW S, NEW pattern \in Seq(S), pattern # <<>>, NEW key \in Seq(S), NEW cut,
         Cuts(key, pattern, cut)
  PROVE  \E i \in 0..Len(key) : /\ Takes(pattern[1], key, 0, i)
                                /\ TopicMatches(SubSeq(key, i + 1, Len(key)), Tail(pattern))
<1> DEFINE n == Len(pattern)
           i == cut[1]
           rest == SubSeq(key, i + 1, Len(key))
           cutRest == [j \in 0..(n - 1) |-> cut[j + 1] - i]
<1>0. n \in Nat /\ n >= 1 /\ Len(key) \in Nat
  BY TailOf
<1>1. cut \in [0..n -> 0..Len(key)] /\ cut[0] = 0 /\ cut[n] = Len(key)
  BY Zenon DEF Cuts
<1>2. \A j \in 1..n : Takes(pattern[j], key, cut[j - 1], cut[j])
  BY Zenon DEF Cuts
<1>3. i \in 0..Len(key) /\ Takes(pattern[1], key, 0, i)
  <2>1. 1 \in 1..n /\ 1 - 1 = 0 /\ 1 \in 0..n
    BY <1>0
  <2> QED
    BY <1>1, <1>2, <2>1, Zenon
<1>4. \A j \in 1..n : i <= cut[j]
  BY CutsGrow, Zenon
<1>5. /\ Len(rest) = Len(key) - i /\ \A j \in 1..(Len(key) - i) : rest[j] = key[i + j]
      /\ Tail(pattern) \in Seq(S) /\ Len(Tail(pattern)) = n - 1
      /\ \A j \in 1..(n - 1) : Tail(pattern)[j] = pattern[j + 1]
  BY <1>3, Remainder, TailOf, ZenonT(30)
<1>6. cutRest \in [0..Len(Tail(pattern)) -> 0..Len(rest)]
  <2>1. ASSUME NEW j \in 0..(n - 1) PROVE cut[j + 1] - i \in 0..(Len(key) - i)
    <3>1. j + 1 \in 1..n /\ j + 1 \in 0..n
      BY <1>0
    <3>2. cut[j + 1] \in 0..Len(key) /\ i <= cut[j + 1]
      BY <1>1, <1>4, <3>1, Zenon
    <3> QED
      BY ONLY <1>0, <1>3, <3>2
  <2> QED
    BY <1>5, <2>1, Zenon
<1>7. cutRest[0] = 0 /\ cutRest[n - 1] = Len(rest)
  <2>1. 0 \in 0..(n - 1) /\ n - 1 \in 0..(n - 1) /\ n - 1 + 1 = n /\ 0 + 1 = 1
    BY <1>0
  <2>2. cutRest[0] = cut[1] - cut[1] /\ cutRest[n - 1] = cut[n] - cut[1]
    BY <2>1, Zenon
  <2> HIDE DEF cutRest, rest
  <2> QED
    BY ONLY <2>2, <1>1, <1>3, <1>5, <1>0
<1>8. ASSUME NEW j \in 1..(n - 1)
      PROVE  Takes(Tail(pattern)[j], rest, cutRest[j - 1], cutRest[j])
  <2>1. j - 1 \in 0..(n - 1) /\ j \in 0..(n - 1) /\ j + 1 \in 1..n /\ j - 1 + 1 = j
        /\ j + 1 - 1 = j /\ j \in 1..n /\ j \in 0..n /\ j + 1 \in 0..n
    BY <1>0
  <2>2. cutRest[j - 1] = cut[j] - i /\ cutRest[j] = cut[j + 1] - i
    BY <2>1, Zenon
  <2>3. Takes(pattern[j + 1], key, cut[j], cut[j + 1])
    <3>1. PICK l \in 1..n : l = j + 1 /\ l - 1 = j
      BY <2>1
    <3> QED
      BY <1>2, <3>1, Zenon
  <2>4. Tail(pattern)[j] = pattern[j + 1]
    BY <1>5, Zenon
  <2>5. cut[j] \in 0..Len(key) /\ cut[j + 1] \in 0..Len(key) /\ i <= cut[j] /\ i <= cut[j + 1]
    BY <1>1, <1>4, <2>1, Zenon
  <2>6. CASE pattern[j + 1] = Hash
    BY ONLY <2>2, <2>3, <2>4, <2>5, <2>6, <1>3, <1>0 DEF Takes
  <2>7. CASE pattern[j + 1] # Hash
    <3>1. cut[j + 1] = cut[j] + 1 /\ pattern[j + 1] \in {Star, key[cut[j + 1]]}
      BY <2>3, <2>7, Zenon DEF Takes
    <3>2. cut[j + 1] - i \in 1..(Len(key) - i) /\ i + (cut[j + 1] - i) = cut[j + 1]
          /\ cut[j + 1] - i = cut[j] - i + 1
      <4> DEFINE a == cut[j]  b == cut[j + 1]
      <4>1. b = a + 1 /\ a \in 0..Len(key) /\ b \in 0..Len(key) /\ i <= a /\ i \in 0..Len(key)
        BY <3>1, <2>5, <1>3, Zenon
      <4> HIDE DEF i, a, b
      <4>2. b - i \in 1..(Len(key) - i) /\ i + (b - i) = b /\ b - i = a - i + 1
        BY ONLY <4>1, <1>0
      <4> QED
        BY <4>2, Zenon DEF a, b
    <3>3. rest[cut[j + 1] - i] = key[cut[j + 1]]
      BY <1>5, <3>2, Zenon
    <3> QED
      BY ONLY <2>2, <2>4, <2>7, <3>1, <3>2, <3>3, Zenon DEF Takes
  <2> QED
    BY <2>6, <2>7, Zenon
<1>9. Cuts(rest, Tail(pattern), cutRest)
  <2> HIDE DEF cutRest, rest, n
  <2> QED
    BY <1>5, <1>6, <1>7, <1>8, Zenon DEF Cuts
<1> HIDE DEF cutRest
<1>10. TopicMatches(rest, Tail(pattern))
  BY <1>9, <1>5, TopicCuts, Zenon
<1> QED
  BY <1>3, <1>10, Zenon

\* And back: cuts of the rest, with the first piece before them, cut the key.
LEMMA CutsFold ==
  ASSUME NEW S, NEW pattern \in Seq(S), pattern # <<>>, NEW key \in Seq(S),
         NEW i \in 0..Len(key), Takes(pattern[1], key, 0, i),
         TopicMatches(SubSeq(key, i + 1, Len(key)), Tail(pattern))
  PROVE  TopicMatches(key, pattern)
<1> DEFINE n == Len(pattern)
           rest == SubSeq(key, i + 1, Len(key))
<1>0. n \in Nat /\ n >= 1 /\ Len(key) \in Nat
  BY TailOf
<1>1. /\ Len(rest) = Len(key) - i /\ \A j \in 1..(Len(key) - i) : rest[j] = key[i + j]
      /\ Tail(pattern) \in Seq(S) /\ Len(Tail(pattern)) = n - 1
      /\ \A j \in 1..(n - 1) : Tail(pattern)[j] = pattern[j + 1]
  BY Remainder, TailOf, ZenonT(30)
<1>2. PICK cutRest : Cuts(rest, Tail(pattern), cutRest)
  BY <1>1, TopicCuts, Zenon
<1> DEFINE cut == [j \in 0..n |-> IF j = 0 THEN 0 ELSE i + cutRest[j - 1]]
<1>3. /\ cutRest \in [0..(n - 1) -> 0..(Len(key) - i)] /\ cutRest[0] = 0
      /\ cutRest[n - 1] = Len(key) - i
      /\ \A j \in 1..(n - 1) : Takes(Tail(pattern)[j], rest, cutRest[j - 1], cutRest[j])
  BY <1>1, <1>2, Zenon DEF Cuts
<1> HIDE DEF rest
<1>4. cut \in [0..n -> 0..Len(key)]
  <2>1. ASSUME NEW j \in 0..n, j # 0 PROVE i + cutRest[j - 1] \in 0..Len(key)
    <3>1. j - 1 \in 0..(n - 1)
      BY <1>0, <2>1
    <3>2. cutRest[j - 1] \in 0..(Len(key) - i)
      BY <1>3, <3>1, Zenon
    <3> QED
      BY ONLY <1>0, <3>2, i \in 0..Len(key)
  <2>2. 0 \in 0..Len(key)
    BY <1>0
  <2> QED
    BY <2>1, <2>2, Zenon
<1>5. cut[0] = 0 /\ cut[1] = i /\ cut[n] = Len(key)
  <2>1. 0 \in 0..n /\ 1 \in 0..n /\ n \in 0..n /\ n # 0 /\ 1 # 0 /\ 1 - 1 = 0
    BY <1>0
  <2>2. cut[0] = 0 /\ cut[1] = i + cutRest[0] /\ cut[n] = i + cutRest[n - 1]
    BY <2>1, Zenon
  <2> HIDE DEF cut
  <2> QED
    BY ONLY <2>2, <1>0, <1>3, i \in 0..Len(key)
<1>6. ASSUME NEW j \in 1..n PROVE Takes(pattern[j], key, cut[j - 1], cut[j])
  <2>1. CASE j = 1
    <3>1. j - 1 = 0
      BY <2>1
    <3> HIDE DEF cut
    <3> QED
      BY <1>5, <2>1, <3>1, Zenon
  <2>2. CASE j # 1
    <3>1. /\ j - 1 \in 1..(n - 1) /\ j - 1 - 1 \in 0..(n - 1) /\ j - 1 \in 0..(n - 1)
          /\ j - 1 + 1 = j /\ j \in 0..n /\ j - 1 \in 0..n /\ j # 0 /\ j - 1 # 0
      BY <1>0, <2>2
    <3>2. cut[j - 1] = i + cutRest[j - 1 - 1] /\ cut[j] = i + cutRest[j - 1]
      BY <3>1, Zenon
    <3>3. Takes(Tail(pattern)[j - 1], rest, cutRest[j - 1 - 1], cutRest[j - 1])
      BY <1>3, <3>1, Zenon
    <3>4. Tail(pattern)[j - 1] = pattern[j]
      BY <1>1, <3>1, Zenon
    <3>5. cutRest[j - 1 - 1] \in 0..(Len(key) - i) /\ cutRest[j - 1] \in 0..(Len(key) - i)
      BY <1>3, <3>1, Zenon
    <3> HIDE DEF cut, rest
    <3> DEFINE a == cutRest[j - 1 - 1]  b == cutRest[j - 1]
    <3>6. CASE pattern[j] = Hash
      BY ONLY <3>2, <3>3, <3>4, <3>5, <3>6, <1>0, i \in 0..Len(key) DEF Takes
    <3>7. CASE pattern[j] # Hash
      <4>1. b = a + 1 /\ pattern[j] \in {Star, rest[b]}
        BY <3>3, <3>4, <3>7, Zenon DEF Takes
      <4>2. b = a + 1 /\ a \in 0..(Len(key) - i) /\ b \in 0..(Len(key) - i)
        BY <3>5, <4>1, Zenon
      <4> HIDE DEF a, b
      <4>3. b \in 1..(Len(key) - i) /\ i + b = i + a + 1
        BY ONLY <4>2, <1>0, i \in 0..Len(key)
      <4>4. rest[b] = key[i + b]
        BY <1>1, <4>3, Zenon
      <4>5. cut[j - 1] = i + a /\ cut[j] = i + b
        BY <3>2, Zenon DEF a, b
      <4> QED
        BY ONLY <3>7, <4>1, <4>3, <4>4, <4>5, Zenon DEF Takes
    <3> QED
      BY <3>6, <3>7, Zenon
  <2> QED
    BY <2>1, <2>2, Zenon
<1> HIDE DEF cut
<1>7. Cuts(key, pattern, cut)
  BY <1>4, <1>5, <1>6, Zenon DEF Cuts
<1> QED
  BY <1>7, TopicCuts, Zenon

\* What matchSegments asks of one pattern and one key, given f for shorter patterns.
MatchStep(f, pattern, key) ==
  IF pattern = <<>> THEN key = <<>>
  ELSE IF Head(pattern) = Hash THEN
      \/ Tail(pattern) = <<>>
      \/ \E i \in 0..Len(key) : f[Tail(pattern)][SubSeq(key, i + 1, Len(key))]
    ELSE /\ key # <<>> /\ Head(pattern) \in {Star, Head(key)}
         /\ f[Tail(pattern)][Tail(key)]

MatchEquation(f) ==
  f = [pattern \in Seq(Segments) |-> [key \in Seq(Segments) |-> MatchStep(f, pattern, key)]]

Routing ==
  [pattern \in Seq(Segments) |-> [key \in Seq(Segments) |-> TopicMatches(key, pattern)]]

\* The empty pattern takes the empty key.
LEMMA TopicEmpty ==
  ASSUME NEW S, NEW key \in Seq(S)
  PROVE  TopicMatches(key, <<>>) <=> key = <<>>
<1>1. Len(<<>>) = 0 /\ Len(key) \in Nat /\ (Len(key) = 0 <=> key = <<>>) /\ <<>> \in Seq(S)
  OBVIOUS
<1>2. 0..0 = {0} /\ 1..0 = {} /\ 0 \in 0..Len(key)
  BY <1>1
<1>3. ASSUME NEW cut, Cuts(key, <<>>, cut) PROVE key = <<>>
  BY <1>1, <1>3 DEF Cuts
<1>4. ASSUME key = <<>> PROVE Cuts(key, <<>>, [j \in 0..0 |-> 0])
  <2>1. Len(key) = 0
    BY <1>1, <1>4
  <2> QED
    BY <1>1, <1>2, <2>1, Zenon DEF Cuts
<1> QED
  BY <1>1, <1>3, <1>4, TopicCuts, Zenon

\* The routing of the broker satisfies the equation of matchSegments.
LEMMA RoutingStep ==
  ASSUME NEW pattern \in Seq(Segments), NEW key \in Seq(Segments)
  PROVE  TopicMatches(key, pattern) <=> MatchStep(Routing, pattern, key)
<1>1. CASE pattern = <<>>
  BY <1>1, TopicEmpty, Zenon DEF MatchStep
<1>2. CASE pattern # <<>>
  <2> DEFINE rest(i) == SubSeq(key, i + 1, Len(key))
  <2>1. /\ Tail(pattern) \in Seq(Segments) /\ Head(pattern) = pattern[1]
        /\ \A i \in 0..Len(key) : rest(i) \in Seq(Segments)
    BY <1>2, TailOf, Remainder, Zenon
  <2>2. \A i \in 0..Len(key) :
          Routing[Tail(pattern)][rest(i)] = TopicMatches(rest(i), Tail(pattern))
    BY <2>1, Zenon DEF Routing
  <2> HIDE DEF rest
  <2>3. TopicMatches(key, pattern) <=>
          \E i \in 0..Len(key) :
            Takes(pattern[1], key, 0, i) /\ TopicMatches(rest(i), Tail(pattern))
    BY <1>2, TopicCuts, CutsUnfold, CutsFold, Zenon DEF rest
  <2>4. CASE pattern[1] = Hash
    <3>1. \A i \in 0..Len(key) : Takes(pattern[1], key, 0, i)
      <4>1. \A i \in 0..Len(key) : 0 <= i
        BY SMT
      <4> QED
        BY <2>4, <4>1, Zenon DEF Takes
    <3>2. Tail(pattern) = <<>> => TopicMatches(rest(Len(key)), Tail(pattern))
      <4>1. Len(key) \in 0..Len(key) /\ rest(Len(key)) = <<>>
        BY DEF rest
      <4> QED
        BY <4>1, <2>1, TopicEmpty, Zenon
    <3>3. Len(key) \in 0..Len(key)
      OBVIOUS
    <3> QED
      BY <1>2, <2>1, <2>2, <2>3, <2>4, <3>1, <3>2, <3>3, Zenon DEF MatchStep, rest
  <2>5. CASE pattern[1] # Hash
    <3>1. \A i \in 0..Len(key) : Takes(pattern[1], key, 0, i) <=>
            i = 1 /\ pattern[1] \in {Star, key[1]}
      <4>1. 0 + 1 = 1
        OBVIOUS
      <4> QED
        BY <2>5, <4>1, Zenon DEF Takes
    <3>2. key # <<>> => 1 \in 0..Len(key) /\ rest(1) = Tail(key) /\ Head(key) = key[1]
      BY DEF rest
    <3>3. 1 \in 0..Len(key) => key # <<>>
      OBVIOUS
    <3> QED
      BY <1>2, <2>1, <2>2, <2>3, <2>5, <3>1, <3>2, <3>3, Zenon DEF MatchStep
  <2> QED
    BY <2>4, <2>5, Zenon
<1> QED
  BY <1>1, <1>2, Zenon

\* The equation for one pattern and one key.
LEMMA MatchApply ==
  ASSUME NEW f, MatchEquation(f), NEW pattern \in Seq(Segments), NEW key \in Seq(Segments)
  PROVE  f[pattern][key] = MatchStep(f, pattern, key)
<1> DEFINE Table(h) == [p \in Seq(Segments) |-> [k \in Seq(Segments) |-> MatchStep(h, p, k)]]
<1>1. f = Table(f)
  BY Zenon DEF MatchEquation
<1>2. \A h : Table(h)[pattern][key] = MatchStep(h, pattern, key)
  BY Zenon
<1> HIDE DEF Table
<1>3. f[pattern][key] = Table(f)[pattern][key]
  BY <1>1, SMT
<1> QED
  BY <1>2, <1>3, SMT

\* One function at most satisfies the equation: the patterns get shorter.
LEMMA MatchUnique ==
  ASSUME NEW f, NEW g, MatchEquation(f), MatchEquation(g),
         NEW pattern \in Seq(Segments), NEW key \in Seq(Segments)
  PROVE  f[pattern][key] = g[pattern][key]
<1> DEFINE Differ(p) == \E k \in Seq(Segments) : f[p][k] # g[p][k]
           T == {Len(p) : p \in {p \in Seq(Segments) : Differ(p)}}
<1>1. SUFFICES ASSUME T # {} PROVE FALSE
  BY Zenon
<1>2. PICK n \in T : \A m \in T : n <= m
  <2>1. T \subseteq Nat
    <3>1. \A p \in Seq(Segments) : Len(p) \in Nat
      OBVIOUS
    <3> QED
      BY <3>1, Zenon
  <2> HIDE DEF T
  <2> QED
    BY <1>1, <2>1, Least, Zenon
<1>3. PICK p \in Seq(Segments) : Differ(p) /\ n = Len(p)
  BY Zenon
<1>4. \A q \in Seq(Segments) : Len(q) < n => ~Differ(q)
  <2>1. ASSUME NEW q \in Seq(Segments), Differ(q), Len(q) < n PROVE FALSE
    <3>1. Len(q) \in T /\ n <= Len(q)
      BY <1>2, <2>1, Zenon
    <3>2. Len(q) \in Nat /\ n \in Nat
      BY <1>3
    <3> QED
      BY ONLY <2>1, <3>1, <3>2
  <2> QED
    BY <2>1, Zenon
<1>5. PICK k \in Seq(Segments) : f[p][k] # g[p][k]
  BY <1>3, Zenon
<1>6. f[p][k] = MatchStep(f, p, k) /\ g[p][k] = MatchStep(g, p, k)
  BY MatchApply, ZenonT(30)
<1> HIDE DEF T
<1>7. CASE p = <<>>
  BY <1>5, <1>6, <1>7, Zenon DEF MatchStep
<1>8. CASE p # <<>>
  <2>1. Tail(p) \in Seq(Segments) /\ Len(Tail(p)) < n
    BY <1>3, <1>8, TailOf
  <2>2. \A l \in Seq(Segments) : f[Tail(p)][l] = g[Tail(p)][l]
    BY <1>4, <2>1, Zenon
  <2>3. \A i \in 0..Len(k) : SubSeq(k, i + 1, Len(k)) \in Seq(Segments)
    BY Remainder, Zenon
  <2>4. k # <<>> => Tail(k) \in Seq(Segments)
    BY TailOf, Zenon
  <2> QED
    BY <1>5, <1>6, <1>8, <2>2, <2>3, <2>4, Zenon DEF MatchStep
<1> QED
  BY <1>7, <1>8, Zenon

\* matchSegments is the function its recursion describes.
LEMMA MatchDefined == MatchEquation(matchSegments) /\ MatchEquation(Routing)
<1>1. MatchEquation(Routing)
  <2>1. ASSUME NEW pattern \in Seq(Segments), NEW key \in Seq(Segments)
        PROVE  TopicMatches(key, pattern) = MatchStep(Routing, pattern, key)
    <3>1. TopicMatches(key, pattern) \in BOOLEAN
      BY Zenon DEF TopicMatches
    <3>2. MatchStep(Routing, pattern, key) \in BOOLEAN
      BY Zenon DEF MatchStep
    <3> QED
      BY <3>1, <3>2, RoutingStep
  <2> DEFINE h == Routing
  <2>2. [pattern \in Seq(Segments) |-> [key \in Seq(Segments) |-> TopicMatches(key, pattern)]]
        = [pattern \in Seq(Segments) |-> [key \in Seq(Segments) |-> MatchStep(h, pattern, key)]]
    <3>1. ASSUME NEW pattern \in Seq(Segments)
          PROVE  [key \in Seq(Segments) |-> TopicMatches(key, pattern)]
                 = [key \in Seq(Segments) |-> MatchStep(h, pattern, key)]
      BY <2>1, Zenon
    <3> HIDE DEF h
    <3> QED
      BY <3>1, Zenon
  <2> QED
    BY <2>2, Zenon DEF MatchEquation, Routing
<1>2. matchSegments = CHOOSE f : MatchEquation(f)
  BY Zenon DEF matchSegments, MatchEquation, MatchStep
<1> QED
  BY <1>1, <1>2, Zenon

\* The matcher of keymatcher.go accepts, for every pattern and every name, exactly
\* what a topic exchange routes through a binding with the pattern.
THEOREM MatcherIsRouting ==
  \A pattern \in Seq(Segments), key \in Seq(Segments) :
    Matches(key, pattern) <=> HasWildcard(pattern) /\ TopicMatches(key, pattern)
<1>1. ASSUME NEW pattern \in Seq(Segments), NEW key \in Seq(Segments)
      PROVE  matchSegments[pattern][key] = TopicMatches(key, pattern)
  <2>1. Routing[pattern][key] = TopicMatches(key, pattern)
    BY Zenon DEF Routing
  <2>2. matchSegments[pattern][key] = Routing[pattern][key]
    <3>1. MatchEquation(matchSegments) /\ MatchEquation(Routing)
      BY MatchDefined, Zenon
    <3> QED
      BY <3>1, MatchUnique
  <2> QED
    BY <2>1, <2>2, Zenon
<1> QED
  BY <1>1, Zenon DEF Matches

\* The short names and patterns are sequences.
LEMMA ShortSequences ==
  ASSUME NEW S
  PROVE  UpTo(S, 3) \subseteq Seq(S)
<1>1. ASSUME NEW i \in 1..3, NEW s \in [1..i -> S] PROVE s \in Seq(S)
  <2>1. i \in Nat
    BY <1>1
  <2> QED
    BY <1>1, <2>1
<1> QED
  BY <1>1, Zenon DEF UpTo

\* A name is a pattern, too.
LEMMA NamesArePatterns == Seq(Literals) \subseteq Seq(Segments)
BY DEF Segments

\* What AgreeOn asks for holds of all patterns and names.
LEMMA AgreeOnAll ==
  ASSUME NEW patterns \in SUBSET Seq(Segments), NEW keys \in SUBSET Seq(Literals)
  PROVE  AgreeOn(patterns, keys)
BY MatcherIsRouting, NamesArePatterns, Zenon DEF AgreeOn

\* Without a hash every piece has length one, so the cuts count the segments.
LEMMA CutsCount ==
  ASSUME NEW S, NEW pattern \in Seq(S), NEW key \in Seq(S), NEW cut, Cuts(key, pattern, cut),
         \A i \in 1..Len(pattern) : pattern[i] # Hash
  PROVE  \A i \in 0..Len(pattern) : cut[i] = i
<1> DEFINE T == {i \in 0..Len(pattern) : cut[i] # i}
<1>0. Len(pattern) \in Nat
  OBVIOUS
<1>1. \A i \in 1..Len(pattern) : cut[i] = cut[i - 1] + 1
  BY Zenon DEF Cuts, Takes
<1>2. SUFFICES ASSUME T # {} PROVE FALSE
  BY Zenon
<1>3. PICK x \in T : \A y \in T : x <= y
  <2>1. T \subseteq Nat
    BY <1>0
  <2> HIDE DEF T
  <2> QED
    BY <1>2, <2>1, Least, Zenon
<1>4. x # 0
  <2>1. cut[0] = 0
    BY Zenon DEF Cuts
  <2> QED
    BY <1>3, <2>1, Zenon
<1>5. x \in 1..Len(pattern) /\ x - 1 \in 0..Len(pattern) /\ ~(x <= x - 1) /\ x - 1 + 1 = x
  BY <1>0, <1>3, <1>4
<1>6. cut[x - 1] = x - 1
  BY <1>3, <1>5, Zenon
<1> QED
  BY <1>1, <1>3, <1>5, <1>6, Zenon

\* A pattern without a hash matches segment by segment.
LEMMA PlainMatch ==
  ASSUME NEW S, NEW pattern \in Seq(S), NEW key \in Seq(S), TopicMatches(key, pattern),
         \A i \in 1..Len(pattern) : pattern[i] # Hash
  PROVE  /\ Len(pattern) = Len(key)
         /\ \A i \in 1..Len(pattern) : pattern[i] \in {Star, key[i]}
<1>1. PICK cut : Cuts(key, pattern, cut)
  BY TopicCuts, Zenon
<1>2. \A i \in 0..Len(pattern) : cut[i] = i
  BY <1>1, CutsCount
<1>3. Len(pattern) \in 0..Len(pattern) /\ \A i \in 1..Len(pattern) : i \in 0..Len(pattern)
  OBVIOUS
<1>4. Len(pattern) = Len(key)
  BY <1>1, <1>2, <1>3, Zenon DEF Cuts
<1>5. \A i \in 1..Len(pattern) : pattern[i] \in {Star, key[cut[i]]}
  BY <1>1, Zenon DEF Cuts, Takes
<1> QED
  BY <1>2, <1>3, <1>4, <1>5, Zenon

\* A binding without a wildcard takes the name itself only.
LEMMA LiteralMatch ==
  ASSUME NEW S, NEW pattern \in Seq(S), NEW key \in Seq(S), TopicMatches(key, pattern),
         ~HasWildcard(pattern)
  PROVE  key = pattern
<1>1. \A i \in 1..Len(pattern) : pattern[i] # Hash /\ pattern[i] # Star
  <2>1. DOMAIN pattern = 1..Len(pattern)
    OBVIOUS
  <2> QED
    BY <2>1, Zenon DEF HasWildcard
<1>2. Len(pattern) = Len(key) /\ \A i \in 1..Len(pattern) : pattern[i] = key[i]
  BY <1>1, PlainMatch, Zenon
<1> QED
  BY <1>2
-----------------------------------------------------------------------------
(* The result of resolvePattern is a candidate.                            *)

\* Counting up from a, every number to n is reached.
LEMMA Counting ==
  ASSUME NEW a \in Nat, NEW n \in Nat, NEW G, a \in G,
         \A i \in a..(n - 1) : i \in G => i + 1 \in G
  PROVE  \A i \in a..n : i \in G
<1> DEFINE T == {i \in a..n : i \notin G}
<1>1. SUFFICES ASSUME T # {} PROVE FALSE
  BY Zenon
<1>2. PICK x \in T : \A y \in T : x <= y
  <2>1. T \subseteq Nat
    OBVIOUS
  <2> HIDE DEF T
  <2> QED
    BY <1>1, <2>1, Least, Zenon
<1>3. x # a
  BY <1>2, Zenon
<1>4. x - 1 \in a..(n - 1) /\ x - 1 \in a..n /\ ~(x <= x - 1) /\ x - 1 + 1 = x
  BY <1>2, <1>3
<1>5. x - 1 \in G
  BY <1>2, <1>4, Zenon
<1>6. x - 1 + 1 \in G
  BY <1>4, <1>5, Zenon
<1> QED
  BY <1>2, <1>4, <1>6, Zenon

\* The choice of resolvePattern among the first i candidates, given the choices before.
LeaderStep(c, f, i) ==
  IF i = 0 THEN Nothing
  ELSE IF i = 1 \/ compare(c[i], f[i - 1]) < 0 THEN c[i]
  ELSE f[i - 1]
Leaders(c, n, f) == f = [i \in 0..n |-> LeaderStep(c, f, i)]

\* The choices are the function MostSpecific describes.
LEMMA LeadersExist ==
  ASSUME NEW c, NEW n \in Nat
  PROVE  \E f : Leaders(c, n, f)
<1> DEFINE Good(k, f) == f = [i \in 0..k |-> f[i]] /\ \A i \in 0..k : f[i] = LeaderStep(c, f, i)
           G == {k \in Nat : \E f : Good(k, f)}
<1>1. 0 \in G
  <2> DEFINE f == [i \in 0..0 |-> Nothing]
  <2>1. \A i \in 0..0 : i = 0
    OBVIOUS
  <2>2. Good(0, f)
    BY <2>1, Zenon DEF LeaderStep
  <2>3. 0 \in Nat
    OBVIOUS
  <2> QED
    BY <2>2, <2>3, Zenon
<1>2. ASSUME NEW k \in 0..(n - 1), k \in G PROVE k + 1 \in G
  <2>1. PICK g : Good(k, g)
    BY <1>2, Zenon
  <2> DEFINE f == [i \in 0..(k + 1) |-> IF i \in 0..k THEN g[i] ELSE LeaderStep(c, g, i)]
  <2>2. \A i \in 0..k : f[i] = g[i]
    <3>1. \A i \in 0..k : i \in 0..(k + 1)
      OBVIOUS
    <3> QED
      BY <3>1, Zenon
  <2>3. ASSUME NEW i \in 0..(k + 1) PROVE f[i] = LeaderStep(c, f, i)
    <3>1. f[i] = LeaderStep(c, g, i)
      BY <2>1, Zenon
    <3>2. i # 0 => i - 1 \in 0..k
      OBVIOUS
    <3>3. i # 0 => f[i - 1] = g[i - 1]
      BY <2>2, <3>2, Zenon
    <3> HIDE DEF f
    <3> QED
      BY <3>1, <3>3, Zenon DEF LeaderStep
  <2>4. f = [i \in 0..(k + 1) |-> f[i]]
    BY Zenon
  <2>5. k + 1 \in Nat
    OBVIOUS
  <2> HIDE DEF f
  <2> QED
    BY <2>3, <2>4, <2>5, Zenon
<1>3. n \in G
  <2>1. 0 \in Nat /\ n \in 0..n
    OBVIOUS
  <2> HIDE DEF G
  <2>2. \A i \in 0..n : i \in G
    BY <1>1, <1>2, <2>1, Counting, Zenon
  <2> QED
    BY <2>1, <2>2, Zenon
<1>4. PICK f : Good(n, f)
  BY <1>3, Zenon
<1>5. f = [i \in 0..n |-> LeaderStep(c, f, i)]
  <2> DEFINE H(i) == f[i]  L(i) == LeaderStep(c, f, i)
  <2>1. f = [i \in 0..n |-> H(i)] /\ \A i \in 0..n : H(i) = L(i)
    BY <1>4, Zenon
  <2> HIDE DEF H, L
  <2>2. [i \in 0..n |-> H(i)] = [i \in 0..n |-> L(i)]
    BY <2>1, Zenon
  <2>3. f = [i \in 0..n |-> L(i)]
    BY <2>1, <2>2
  <2> QED
    BY <2>3 DEF L
<1> QED
  BY <1>5, Zenon DEF Leaders

\* The choice after each candidate.
LEMMA LeaderAt ==
  ASSUME NEW c, NEW n \in Nat, NEW f, Leaders(c, n, f), NEW i \in 0..n
  PROVE  f[i] = LeaderStep(c, f, i)
<1> DEFINE Table(h) == [k \in 0..n |-> LeaderStep(c, h, k)]
<1>1. f = Table(f)
  BY DEF Leaders
<1>2. \A h : Table(h)[i] = LeaderStep(c, h, i)
  BY Zenon
<1> HIDE DEF Table
<1>3. f[i] = Table(f)[i]
  BY <1>1, SMT
<1> QED
  BY <1>2, <1>3, SMT

\* MostSpecific returns the last of the choices.
LEMMA MostSpecificLeads ==
  ASSUME NEW c, Len(c) \in Nat
  PROVE  \E f : Leaders(c, Len(c), f) /\ MostSpecific(c) = f[Len(c)]
<1> DEFINE f == CHOOSE f : Leaders(c, Len(c), f)
<1>1. Leaders(c, Len(c), f)
  BY LeadersExist, Zenon
<1>2. MostSpecific(c) = f[Len(c)]
  BY Zenon DEF MostSpecific, Leaders, LeaderStep
<1> HIDE DEF f
<1> QED
  BY <1>1, <1>2, Zenon

\* Every choice is one of the candidates before it.
LEMMA LeaderAmong ==
  ASSUME NEW c, NEW n \in Nat, NEW f, Leaders(c, n, f), n >= 1
  PROVE  \A i \in 1..n : \E j \in 1..i : f[i] = c[j]
<1> DEFINE G == {i \in 1..n : \E j \in 1..i : f[i] = c[j]}
<1>1. 1 \in G
  <2>1. 1 \in 0..n /\ 1 \in 1..n /\ 1 \in 1..1 /\ 1 # 0
    OBVIOUS
  <2>2. f[1] = c[1]
    <3>1. f[1] = LeaderStep(c, f, 1)
      BY <2>1, LeaderAt
    <3> QED
      BY <2>1, <3>1 DEF LeaderStep
  <2> QED
    BY <2>1, <2>2, Zenon
<1>2. ASSUME NEW i \in 1..(n - 1), i \in G PROVE i + 1 \in G
  <2>1. PICK j \in 1..i : f[i] = c[j]
    BY <1>2, Zenon
  <2>2. i + 1 \in 0..n /\ i + 1 \in 1..n /\ i + 1 \in 1..(i + 1) /\ j \in 1..(i + 1)
        /\ i + 1 # 0 /\ i + 1 - 1 = i
    OBVIOUS
  <2>3. f[i + 1] = c[i + 1] \/ f[i + 1] = f[i]
    <3>1. f[i + 1] = LeaderStep(c, f, i + 1)
      BY <2>2, LeaderAt, Zenon
    <3>2. f[i + 1 - 1] = f[i]
      BY <2>2, Zenon
    <3> QED
      BY <2>2, <3>1, <3>2 DEF LeaderStep
  <2> QED
    BY <2>1, <2>2, <2>3, Zenon
<1> HIDE DEF G
<1>3. 1 \in Nat
  OBVIOUS
<1>4. \A i \in 1..n : i \in G
  BY <1>1, <1>2, <1>3, Counting, Zenon
<1> QED
  BY <1>4, Zenon DEF G

\* The orders in which a finite map is walked.
Orders(K) ==
  LET n == Cardinality(K) IN
  {o \in [1..n -> K] : \A i, j \in 1..n : o[i] = o[j] => i = j}

\* A walk passes every key, and there is one.
LEMMA OrdersWalk ==
  ASSUME NEW K, IsFiniteSet(K)
  PROVE  /\ Cardinality(K) \in Nat /\ (K # {} => Cardinality(K) >= 1) /\ Orders(K) # {}
         /\ \A o \in Orders(K) : /\ Len(o) = Cardinality(K)
                                 /\ \A i \in 1..Cardinality(K) : o[i] \in K
                                 /\ \A k \in K : \E i \in 1..Cardinality(K) : o[i] = k
<1> DEFINE n == Cardinality(K)
<1>1. n \in Nat /\ ExistsBijection(1..n, K)
  BY FS_CardinalityType, Zenon
<1>2. n = 0 => K = {}
  BY FS_EmptySet, Zenon
<1>3. Orders(K) # {}
  BY <1>1, Zenon DEF Orders, ExistsBijection, Bijection, Injection, IsInjective
<1>4. IsFiniteSet(1..n) /\ Cardinality(1..n) = n
  <2>1. 1 \in Int /\ n \in Int
    BY <1>1
  <2>2. IsFiniteSet(1..n) /\ Cardinality(1..n) = IF 1 > n THEN 0 ELSE n - 1 + 1
    BY <2>1, FS_Interval, Zenon
  <2> HIDE DEF n
  <2> QED
    BY <1>1, <2>2
<1> HIDE DEF n
<1>5. ASSUME NEW o \in Orders(K)
      PROVE  Len(o) = n /\ (\A i \in 1..n : o[i] \in K) /\ \A k \in K : \E i \in 1..n : o[i] = k
  <2>1. o \in [1..n -> K] /\ \A i, j \in 1..n : o[i] = o[j] => i = j
    BY Zenon DEF Orders, n
  <2>2. o \in Injection(1..n, K)
    BY <2>1, Zenon DEF Injection, IsInjective
  <2>3. o \in Surjection(1..n, K)
    BY <1>4, <2>2, FS_Injection, Zenon DEF n
  <2>4. Len(o) = n
    BY <1>1, <2>1
  <2> QED
    BY <2>1, <2>3, <2>4, Zenon DEF Surjection
<1>6. K # {} => n >= 1
  BY <1>1, <1>2
<1> QED
  BY <1>1, <1>3, <1>5, <1>6, Zenon DEF n

\* A name with a handler that matches it resolves to a handler that matches it, in
\* whatever order the map is walked; resolvePattern returns no key only when no key
\* matches.
LEMMA ResolvesToMatch ==
  ASSUME NEW name, NEW keys, IsFiniteSet(keys), NEW k \in keys, Matches(name, k),
         NEW r \in resolvePattern(name, keys)
  PROVE  r \in keys /\ Matches(name, r)
<1> DEFINE K == {p \in keys : Matches(name, p)}
           n == Cardinality(K)
<1>1. IsFiniteSet(K) /\ K # {}
  <2>1. K \in SUBSET keys /\ k \in K
    BY Zenon
  <2> HIDE DEF K
  <2> QED
    BY <2>1, FS_Subset, Zenon
<1>2. PICK o \in Orders(K) : r = MostSpecific(o)
  BY Zenon DEF resolvePattern, Orders
<1> HIDE DEF K
<1>3. n \in Nat /\ n >= 1 /\ Len(o) = n /\ \A i \in 1..n : o[i] \in K
  BY <1>1, OrdersWalk, Zenon
<1> HIDE DEF n
<1>4. PICK f : Leaders(o, n, f) /\ MostSpecific(o) = f[n]
  BY <1>3, MostSpecificLeads, Zenon
<1>5. n \in 1..n
  BY <1>3
<1>6. PICK j \in 1..n : f[n] = o[j]
  <2>1. \A i \in 1..n : \E j \in 1..i : f[i] = o[j]
    BY <1>3, <1>4, LeaderAmong
  <2> QED
    BY <1>5, <2>1, Zenon
<1>7. r \in K
  BY <1>2, <1>3, <1>4, <1>6, Zenon
<1> QED
  BY <1>7, Zenon DEF K
-----------------------------------------------------------------------------
(* One winner among patterns of stars and literals.                        *)

\* What a pattern of stars and literals that matches the name looks like.
Fits(name, p) ==
  /\ p \in Seq(Segments) /\ Len(p) = Len(name)
  /\ \A i \in 1..Len(name) : p[i] # Hash /\ p[i] \in {Star, name[i]}

\* Where a first differs from b it has the literal.
Beats(a, b) ==
  \E i \in DOMAIN a : b[i] = Star /\ a[i] # Star /\ \A j \in 1..(i - 1) : a[j] = b[j]

\* Two of them that differ have a first difference, a star against a literal.
LEMMA FirstDifference ==
  ASSUME NEW name \in Seq(Literals), NEW a, NEW b, Fits(name, a), Fits(name, b), a # b
  PROVE  Beats(a, b) \/ Beats(b, a)
<1> DEFINE n == Len(name)
           T == {i \in 1..n : a[i] # b[i]}
<1>0. n \in Nat /\ a \in Seq(Segments) /\ b \in Seq(Segments) /\ Len(a) = n /\ Len(b) = n
      /\ DOMAIN a = 1..n /\ DOMAIN b = 1..n
  BY DEF Fits
<1>1. T # {}
  <2>1. SUFFICES ASSUME \A i \in 1..n : a[i] = b[i] PROVE FALSE
    BY Zenon
  <2> QED
    BY <1>0, <2>1
<1>2. PICK x \in T : \A y \in T : x <= y
  <2>1. T \subseteq Nat
    BY <1>0
  <2> HIDE DEF T
  <2> QED
    BY <1>1, <2>1, Least, Zenon
<1>3. \A j \in 1..(x - 1) : j \in 1..n /\ ~(x <= j)
  BY <1>0, <1>2
<1>4. \A j \in 1..(x - 1) : a[j] = b[j]
  BY <1>2, <1>3, Zenon
<1>5. x \in 1..n /\ a[x] # b[x]
  BY <1>2, Zenon
<1>6. (a[x] = Star /\ b[x] # Star) \/ (a[x] # Star /\ b[x] = Star)
  <2>1. a[x] \in {Star, name[x]} /\ b[x] \in {Star, name[x]}
    BY <1>5, Zenon DEF Fits
  <2> QED
    BY <1>5, <2>1
<1> HIDE DEF T, n
<1> QED
  BY <1>0, <1>4, <1>5, <1>6, Zenon DEF Beats

\* The first difference decides one way.
LEMMA BeatsOnce ==
  ASSUME NEW n \in Nat, NEW a, NEW b, DOMAIN a = 1..n, DOMAIN b = 1..n
  PROVE  ~(Beats(a, b) /\ Beats(b, a))
<1>1. SUFFICES ASSUME Beats(a, b), Beats(b, a) PROVE FALSE
  OBVIOUS
<1>2. PICK i \in 1..n : b[i] = Star /\ a[i] # Star /\ \A j \in 1..(i - 1) : a[j] = b[j]
  BY <1>1, Zenon DEF Beats
<1>3. PICK k \in 1..n : a[k] = Star /\ b[k] # Star /\ \A j \in 1..(k - 1) : b[j] = a[j]
  BY <1>1, Zenon DEF Beats
<1>4. i = k \/ i \in 1..(k - 1) \/ k \in 1..(i - 1)
  OBVIOUS
<1> QED
  BY <1>2, <1>3, <1>4, Zenon

\* And it is transitive.
LEMMA BeatsAll ==
  ASSUME NEW n \in Nat, NEW a, NEW b, NEW c, DOMAIN a = 1..n, DOMAIN b = 1..n,
         Beats(a, b), Beats(b, c)
  PROVE  Beats(a, c)
<1>1. PICK i \in 1..n : b[i] = Star /\ a[i] # Star /\ \A j \in 1..(i - 1) : a[j] = b[j]
  BY Zenon DEF Beats
<1>2. PICK k \in 1..n : c[k] = Star /\ b[k] # Star /\ \A j \in 1..(k - 1) : b[j] = c[j]
  BY Zenon DEF Beats
<1>3. i = k \/ (i \in 1..(k - 1) /\ \A j \in 1..(i - 1) : j \in 1..(k - 1))
      \/ (k \in 1..(i - 1) /\ \A j \in 1..(k - 1) : j \in 1..(i - 1))
  OBVIOUS
<1>4. CASE i \in 1..(k - 1) /\ \A j \in 1..(i - 1) : j \in 1..(k - 1)
  <2>1. c[i] = Star /\ a[i] # Star /\ \A j \in 1..(i - 1) : a[j] = c[j]
    BY <1>1, <1>2, <1>4
  <2> QED
    BY <2>1, Zenon DEF Beats
<1>5. CASE k \in 1..(i - 1) /\ \A j \in 1..(k - 1) : j \in 1..(i - 1)
  <2>1. c[k] = Star /\ a[k] # Star /\ \A j \in 1..(k - 1) : a[j] = c[j]
    BY <1>1, <1>2, <1>5
  <2> QED
    BY <2>1, Zenon DEF Beats
<1> QED
  BY <1>1, <1>2, <1>3, <1>4, <1>5, Zenon

\* What compareSegments asks of one position, given f for the positions after it.
FromStep(a, b, s, f, i, c) ==
  IF i > s THEN c
  ELSE IF a[i] = b[i] THEN f[i + 1][c]
  ELSE IF a[i] \notin {Star, Hash} THEN -1
  ELSE IF b[i] \notin {Star, Hash} THEN 1
  ELSE f[i + 1][IF a[i] = Hash THEN 1 ELSE -1]
From(a, b, s, f) == f = [i \in 1..(s + 1) |-> [c \in Int |-> FromStep(a, b, s, f, i, c)]]

\* A function that satisfies it: the first difference from i on decides.
LEMMA FromExists ==
  ASSUME NEW name \in Seq(Literals), NEW a, NEW b, Fits(name, a), Fits(name, b)
  PROVE  \E f : From(a, b, Len(name), f)
<1> DEFINE n == Len(name)
           Leads(i, x, y) == \E k \in i..n : x[k] # Star /\ y[k] = Star
                                             /\ \A j \in i..(k - 1) : x[j] = y[j]
           V(i, c) == IF Leads(i, a, b) THEN -1 ELSE IF Leads(i, b, a) THEN 1 ELSE c
           f == [i \in 1..(n + 1) |-> [c \in Int |-> V(i, c)]]
<1>0. n \in Nat
  OBVIOUS
<1>1. \A i \in 1..n : \A x, y : x[i] = y[i] => (Leads(i, x, y) <=> Leads(i + 1, x, y))
  <2>1. ASSUME NEW i \in 1..n, NEW x, NEW y, x[i] = y[i], Leads(i, x, y)
        PROVE  Leads(i + 1, x, y)
    <3>0. PICK k \in i..n : x[k] # Star /\ y[k] = Star /\ \A j \in i..(k - 1) : x[j] = y[j]
      BY <2>1, Zenon
    <3>1. k # i
      BY <2>1, <3>0, Zenon
    <3>2. k \in (i + 1)..n /\ \A j \in (i + 1)..(k - 1) : j \in i..(k - 1)
      BY <1>0, <3>1
    <3> QED
      BY <3>0, <3>2, Zenon
  <2>2. ASSUME NEW i \in 1..n, NEW x, NEW y, x[i] = y[i], Leads(i + 1, x, y)
        PROVE  Leads(i, x, y)
    <3>0. PICK k \in (i + 1)..n : /\ x[k] # Star /\ y[k] = Star
                                  /\ \A j \in (i + 1)..(k - 1) : x[j] = y[j]
      BY <2>2, Zenon
    <3>1. k \in i..n /\ \A j \in i..(k - 1) : j = i \/ j \in (i + 1)..(k - 1)
      BY <1>0
    <3>2. \A j \in i..(k - 1) : x[j] = y[j]
      BY <2>2, <3>0, <3>1, Zenon
    <3> QED
      BY <3>0, <3>1, <3>2, Zenon
  <2> HIDE DEF Leads
  <2> QED
    BY <2>1, <2>2, Zenon
<1>2. \A i \in 1..n : \A x, y : x[i] # Star /\ y[i] = Star => Leads(i, x, y) /\ ~Leads(i, y, x)
  <2>1. ASSUME NEW i \in 1..n, NEW x, NEW y, x[i] # Star, y[i] = Star
        PROVE  Leads(i, x, y)
    <3>1. i \in i..n /\ i..(i - 1) = {}
      BY <1>0
    <3> QED
      BY <2>1, <3>1, Zenon
  <2>2. ASSUME NEW i \in 1..n, NEW x, NEW y, x[i] # Star, y[i] = Star, Leads(i, y, x)
        PROVE  FALSE
    <3>0. PICK k \in i..n : y[k] # Star /\ x[k] = Star /\ \A j \in i..(k - 1) : y[j] = x[j]
      BY <2>2, Zenon
    <3>1. k = i \/ i \in i..(k - 1)
      BY <1>0
    <3> QED
      BY <2>2, <3>0, <3>1, Zenon
  <2> HIDE DEF Leads
  <2> QED
    BY <2>1, <2>2, Zenon
<1>3. \A x, y : ~Leads(n + 1, x, y)
  <2>1. (n + 1)..n = {}
    BY <1>0
  <2> QED
    BY <2>1, Zenon
<1>4. \A i \in 1..n : /\ a[i] = Star \/ a[i] \notin {Star, Hash}
                      /\ b[i] = Star \/ b[i] \notin {Star, Hash}
                      /\ (a[i] # b[i] => a[i] = Star \/ b[i] = Star)
  BY Zenon DEF Fits
<1> HIDE DEF Leads
<1>5. ASSUME NEW i \in 1..(n + 1), NEW c \in Int PROVE V(i, c) = FromStep(a, b, n, f, i, c)
  <2>1. CASE i = n + 1
    <3>1. i > n
      BY <1>0, <2>1
    <3> HIDE DEF n, f
    <3> QED
      BY <1>3, <2>1, <3>1, Zenon DEF FromStep
  <2>2. CASE i # n + 1
    <3>1. i \in 1..n /\ ~(i > n) /\ i + 1 \in 1..(n + 1)
      BY <1>0, <2>2
    <3>2. CASE a[i] = b[i]
      <4>1. f[i + 1][c] = V(i + 1, c)
        BY <3>1, Zenon
      <4>2. V(i + 1, c) = V(i, c)
        <5>1. (Leads(i, a, b) <=> Leads(i + 1, a, b)) /\ (Leads(i, b, a) <=> Leads(i + 1, b, a))
          BY <1>1, <3>1, <3>2, Zenon
        <5> QED
          BY <5>1, Zenon
      <4> HIDE DEF f, V
      <4> QED
        BY <3>1, <3>2, <4>1, <4>2, Zenon DEF FromStep
    <3>3. CASE a[i] # b[i] /\ b[i] = Star
      <4>1. a[i] \notin {Star, Hash}
        BY <1>4, <3>1, <3>3, Zenon
      <4>2. V(i, c) = -1
        BY <1>2, <3>1, <3>3, Zenon
      <4> HIDE DEF f, V
      <4> QED
        BY <3>1, <3>3, <4>1, <4>2, Zenon DEF FromStep
    <3>4. CASE a[i] # b[i] /\ a[i] = Star
      <4>1. b[i] \notin {Star, Hash} /\ b[i] # Star
        BY <1>4, <3>1, <3>4, Zenon
      <4>2. V(i, c) = 1
        BY <1>2, <3>1, <3>4, <4>1, Zenon
      <4> HIDE DEF f, V
      <4> QED
        BY <3>1, <3>4, <4>1, <4>2, Zenon DEF FromStep
    <3> QED
      BY <1>4, <3>1, <3>2, <3>3, <3>4, Zenon
  <2> QED
    BY <2>1, <2>2, Zenon
<1>6. f = [i \in 1..(n + 1) |-> [c \in Int |-> FromStep(a, b, n, f, i, c)]]
  <2> DEFINE g == f
  <2>1. \A i \in 1..(n + 1), c \in Int : V(i, c) = FromStep(a, b, n, g, i, c)
    BY <1>5, Zenon
  <2> HIDE DEF g, V
  <2>2. [i \in 1..(n + 1) |-> [c \in Int |-> V(i, c)]]
        = [i \in 1..(n + 1) |-> [c \in Int |-> FromStep(a, b, n, g, i, c)]]
    <3>1. ASSUME NEW i \in 1..(n + 1)
          PROVE  [c \in Int |-> V(i, c)] = [c \in Int |-> FromStep(a, b, n, g, i, c)]
      BY <2>1, Zenon
    <3> QED
      BY <3>1, Zenon
  <2> QED
    BY <2>2, Zenon DEF g
<1> HIDE DEF f
<1> QED
  BY <1>6, Zenon DEF From

\* The equation for one position and one preference.
LEMMA FromAt ==
  ASSUME NEW a, NEW b, NEW s \in Nat, NEW f, From(a, b, s, f),
         NEW i \in 1..(s + 1), NEW c \in Int
  PROVE  f[i][c] = FromStep(a, b, s, f, i, c)
<1> DEFINE Table(h) == [k \in 1..(s + 1) |-> [d \in Int |-> FromStep(a, b, s, h, k, d)]]
<1>1. f = Table(f)
  BY Zenon DEF From
<1>2. \A h : Table(h)[i][c] = FromStep(a, b, s, h, i, c)
  BY Zenon
<1> HIDE DEF Table
<1>3. f[i][c] = Table(f)[i][c]
  BY <1>1, SMT
<1> QED
  BY <1>2, <1>3, SMT

\* The first position that differs decides from the first position on.
LEMMA FromDecides ==
  ASSUME NEW n \in Nat, NEW a, NEW b, NEW f, From(a, b, n, f), NEW x \in 1..n, a[x] # b[x],
         \A j \in 1..(x - 1) : a[j] = b[j], a[x] \notin {Star, Hash} \/ b[x] \notin {Star, Hash}
  PROVE  f[1][0] = IF a[x] \notin {Star, Hash} THEN -1 ELSE 1
<1> DEFINE v == IF a[x] \notin {Star, Hash} THEN -1 ELSE 1
           G == {k \in 0..(x - 1) : f[x - k][0] = v}
<1>0. 0 \in Int /\ 0 \in Nat /\ x - 1 \in Nat /\ x - 1 \in 0..(x - 1) /\ 0 \in 0..(x - 1)
      /\ x - 0 = x /\ x - (x - 1) = 1
  OBVIOUS
<1>1. 0 \in G
  <2>1. x \in 1..(n + 1) /\ ~(x > n)
    OBVIOUS
  <2>2. f[x][0] = FromStep(a, b, n, f, x, 0)
    BY <1>0, <2>1, FromAt
  <2>3. f[x][0] = v
    BY <2>1, <2>2, Zenon DEF FromStep
  <2> QED
    BY <1>0, <2>3, Zenon
<1>2. ASSUME NEW k \in 0..(x - 1 - 1), k \in G PROVE k + 1 \in G
  <2> DEFINE i == x - (k + 1)
  <2>1. i \in 1..(n + 1) /\ ~(i > n) /\ i \in 1..(x - 1) /\ i + 1 = x - k
        /\ k + 1 \in 0..(x - 1)
    OBVIOUS
  <2>2. f[x - k][0] = v
    BY <1>2, Zenon
  <2> HIDE DEF i
  <2>3. f[i][0] = FromStep(a, b, n, f, i, 0)
    BY <1>0, <2>1, FromAt, SMTT(20)
  <2>4. f[i + 1][0] = v
    BY <2>1, <2>2, Zenon
  <2>5. f[i][0] = v
    BY <2>1, <2>3, <2>4, Zenon DEF FromStep
  <2> QED
    BY <2>1, <2>5, Zenon DEF i
<1> HIDE DEF G, v
<1>3. \A k \in 0..(x - 1) : k \in G
  <2>1. PICK y \in Nat : y = x - 1
    BY <1>0, Zenon
  <2>2. \A k \in 0..(y - 1) : k \in G => k + 1 \in G
    BY <1>2, <2>1, Zenon
  <2>3. \A k \in 0..y : k \in G
    BY <1>0, <1>1, <2>2, Counting, Zenon
  <2> QED
    BY <2>1, <2>3, Zenon
<1>4. f[x - (x - 1)][0] = v
  BY <1>0, <1>3, Zenon DEF G
<1>5. f[1][0] = v
  BY <1>0, <1>4, Zenon
<1> QED
  BY <1>5, Zenon DEF v

\* compare agrees with the first difference.
LEMMA CompareBeats ==
  ASSUME NEW name \in Seq(Literals), NEW a, NEW b, Fits(name, a), Fits(name, b)
  PROVE  /\ Beats(a, b) => compare(a, b) < 0
         /\ Beats(b, a) => ~(compare(a, b) < 0)
<1> DEFINE n == Len(name)
           f == CHOOSE f : From(a, b, n, f)
<1>0. n \in Nat /\ Len(a) = n /\ Len(b) = n /\ DOMAIN a = 1..n /\ DOMAIN b = 1..n /\ n - n = 0
      /\ ~(n < n)
  BY DEF Fits
<1>1. From(a, b, n, f)
  BY FromExists, Zenon
<1>2. compare(a, b) = f[1][0]
  <2>1. compare(a, b) = compareSegments(0, a, b)
    BY <1>0, Zenon DEF compare
  <2>2. compareSegments(0, a, b) = f[1][0]
    <3> DEFINE s == IF Len(a) < Len(b) THEN Len(a) ELSE Len(b)
               chosen(k) == CHOOSE g : From(a, b, k, g)
    <3>1. compareSegments(0, a, b) = chosen(s)[1][0]
      BY Zenon DEF compareSegments, From, FromStep
    <3>2. s = n
      BY <1>0, Zenon
    <3>3. chosen(n) = f
      BY Zenon
    <3> HIDE DEF s, chosen, f, n
    <3> QED
      BY <3>1, <3>2, <3>3, Zenon
  <2> QED
    BY <2>1, <2>2, Zenon
<1> HIDE DEF f, n
<1>3. ASSUME NEW x \in 1..n PROVE a[x] # Hash /\ b[x] # Hash
  BY Zenon DEF Fits, n
<1>4. ASSUME Beats(a, b) PROVE compare(a, b) < 0
  <2>1. PICK x \in 1..n : b[x] = Star /\ a[x] # Star /\ \A j \in 1..(x - 1) : a[j] = b[j]
    BY <1>0, <1>4, Zenon DEF Beats
  <2>2. a[x] \notin {Star, Hash} /\ a[x] # b[x]
    BY <1>3, <2>1, Zenon
  <2>3. f[1][0] = -1
    <3>1. f[1][0] = IF a[x] \notin {Star, Hash} THEN -1 ELSE 1
      <4>1. \A j \in 1..(x - 1) : a[j] = b[j]
        BY <2>1, Zenon
      <4>2. a[x] \notin {Star, Hash} \/ b[x] \notin {Star, Hash}
        BY <2>2, Zenon
      <4> QED
        BY ONLY <1>0, <1>1, <2>2, <4>1, <4>2, x \in 1..n, FromDecides, SMTT(20)
    <3> QED
      BY <2>2, <3>1, Zenon
  <2> QED
    BY <1>2, <2>3
<1>5. ASSUME Beats(b, a) PROVE ~(compare(a, b) < 0)
  <2>1. PICK x \in 1..n : a[x] = Star /\ b[x] # Star /\ \A j \in 1..(x - 1) : b[j] = a[j]
    BY <1>0, <1>5, Zenon DEF Beats
  <2>2. a[x] \in {Star, Hash} /\ b[x] \notin {Star, Hash} /\ a[x] # b[x]
    BY <1>3, <2>1, Zenon
  <2>3. f[1][0] = 1
    <3>1. \A j \in 1..(x - 1) : a[j] = b[j]
      BY <2>1, Zenon
    <3>2. f[1][0] = IF a[x] \notin {Star, Hash} THEN -1 ELSE 1
      <4>1. a[x] \notin {Star, Hash} \/ b[x] \notin {Star, Hash}
        BY <2>2, Zenon
      <4> QED
        BY ONLY <1>0, <1>1, <2>2, <3>1, <4>1, x \in 1..n, FromDecides, SMTT(20)
    <3> QED
      BY <2>2, <3>2, Zenon
  <2> QED
    BY <1>2, <2>3
<1> QED
  BY <1>4, <1>5, Zenon

\* The choice after each candidate is the candidate or beats it, and so the ones before.
LEMMA LeaderBeats ==
  ASSUME NEW name \in Seq(Literals), NEW n \in Nat, n >= 1, NEW c,
         \A i \in 1..n : Fits(name, c[i]), NEW f, Leaders(c, n, f)
  PROVE  \A i \in 1..n : \A j \in 1..i : f[i] = c[j] \/ Beats(f[i], c[j])
<1> DEFINE Best(w, i) == \A j \in 1..i : w = c[j] \/ Beats(w, c[j])
           G == {i \in 1..n : Best(f[i], i)}
<1>0. \A i \in 1..n : f[i] = LeaderStep(c, f, i)
  <2>1. \A i \in 1..n : i \in 0..n
    OBVIOUS
  <2> QED
    BY <2>1, LeaderAt
<1>1. 1 \in G
  <2>1. 1 \in 1..n /\ 1 # 0 /\ \A j \in 1..1 : j = 1
    OBVIOUS
  <2>2. f[1] = c[1]
    <3>1. f[1] = LeaderStep(c, f, 1)
      BY <1>0, <2>1, Zenon
    <3> QED
      BY <2>1, <3>1 DEF LeaderStep
  <2> QED
    BY <2>1, <2>2, Zenon
<1>2. ASSUME NEW i \in 1..(n - 1), i \in G PROVE i + 1 \in G
  <2> DEFINE w == f[i]  d == c[i + 1]
  <2>1. /\ i + 1 \in 1..n /\ i \in 1..n /\ i + 1 # 0 /\ i + 1 # 1 /\ i + 1 - 1 = i
        /\ \A j \in 1..(i + 1) : j = i + 1 \/ j \in 1..i
    OBVIOUS
  <2>2. Best(w, i)
    BY <1>2, Zenon
  <2>3. f[i + 1] = IF compare(d, w) < 0 THEN d ELSE w
    <3>1. f[i + 1] = LeaderStep(c, f, i + 1)
      BY <1>0, <2>1, Zenon
    <3> QED
      BY <2>1, <3>1 DEF LeaderStep
  <2>4. Fits(name, d) /\ Fits(name, w)
    <3>1. PICK j \in 1..i : w = c[j]
      BY <2>1, LeaderAmong, SMTT(20)
    <3>2. j \in 1..n
      BY <2>1
    <3> QED
      BY <2>1, <3>1, <3>2, Zenon
  <2>5. d = w \/ Beats(d, w) \/ Beats(w, d)
    BY <2>4, FirstDifference, Zenon
  <2>6. (f[i + 1] = d /\ (d = w \/ Beats(d, w))) \/ (f[i + 1] = w /\ (d = w \/ Beats(w, d)))
    BY <2>3, <2>4, <2>5, CompareBeats, Zenon
  <2>7. \A j \in 1..i : Beats(d, w) => Beats(d, c[j]) \/ d = c[j]
    <3>1. ASSUME NEW j \in 1..i, Beats(d, w), Beats(w, c[j]) PROVE Beats(d, c[j])
      <4>1. Len(name) \in Nat /\ DOMAIN d = 1..Len(name) /\ DOMAIN w = 1..Len(name)
        BY <2>4 DEF Fits
      <4> QED
        BY <3>1, <4>1, BeatsAll, Zenon
    <3> QED
      BY <2>2, <3>1, Zenon
  <2> HIDE DEF w, d
  <2>8. Best(f[i + 1], i)
    <3>1. CASE f[i + 1] = w
      BY <2>2, <3>1, Zenon
    <3>2. CASE f[i + 1] = d /\ Beats(d, w)
      BY <2>7, <3>2, Zenon
    <3> QED
      BY <2>6, <3>1, <3>2, Zenon
  <2>9. f[i + 1] = c[i + 1] \/ Beats(f[i + 1], c[i + 1])
    BY <2>6, Zenon DEF d
  <2>10. Best(f[i + 1], i + 1)
    BY <2>1, <2>8, <2>9, Zenon
  <2> QED
    BY <2>1, <2>10, Zenon
<1> HIDE DEF G
<1>3. 1 \in Nat
  OBVIOUS
<1>4. \A i \in 1..n : i \in G
  BY <1>1, <1>2, <1>3, Counting, Zenon
<1> QED
  BY <1>4, Zenon DEF G

\* A pattern of stars and literals that the matcher accepts.
LEMMA StarsFit ==
  ASSUME NEW name \in Seq(Literals), NEW p \in Seq(Segments), Matches(name, p),
         \A i \in DOMAIN p : p[i] # Hash
  PROVE  Fits(name, p)
<1>1. name \in Seq(Segments) /\ DOMAIN p = 1..Len(p)
  BY NamesArePatterns
<1>2. TopicMatches(name, p)
  BY <1>1, MatcherIsRouting, Zenon
<1>3. Len(p) = Len(name) /\ \A i \in 1..Len(p) : p[i] \in {Star, name[i]}
  BY <1>1, <1>2, PlainMatch
<1> QED
  BY <1>1, <1>3, Zenon DEF Fits

\* Whatever the order of the map of handlers, candidates of stars and literals have
\* one winner, the one that has the literal where it first differs from another, so
\* that no other has all of its literals: resolvePattern is deterministic, for any
\* finite number of candidates of any length.
THEOREM StarsHaveOneWinner ==
  ASSUME NEW name \in Seq(Literals), NEW K, IsFiniteSet(K),
         \A k \in K : /\ k \in Seq(Segments) /\ Matches(name, k)
                      /\ \A i \in DOMAIN k : k[i] # Hash
  PROVE  OneWinner(name, K)
<1>1. SUFFICES ASSUME K # {} PROVE OneWinner(name, K)
  BY Zenon DEF OneWinner
<1> DEFINE n == Cardinality(K)
           Best(w) == w \in K /\ \A k \in K : w = k \/ Beats(w, k)
<1>2. \A k \in K : Fits(name, k)
  BY StarsFit, Zenon
<1>3. /\ n \in Nat /\ n >= 1 /\ Orders(K) # {}
      /\ \A o \in Orders(K) : /\ Len(o) = n /\ \A i \in 1..n : o[i] \in K
                              /\ \A k \in K : \E i \in 1..n : o[i] = k
  BY <1>1, OrdersWalk
<1>4. resolvePattern(name, K) = {MostSpecific(o) : o \in Orders(K)}
  <2>1. {k \in K : Matches(name, k)} = K
    BY Zenon
  <2> DEFINE Result(S) == {MostSpecific(o) : o \in Orders(S)}
  <2>2. resolvePattern(name, K) = Result({k \in K : Matches(name, k)})
    BY Zenon DEF resolvePattern, Orders
  <2> HIDE DEF Result
  <2>3. resolvePattern(name, K) = Result(K)
    BY <2>1, <2>2, Zenon
  <2> QED
    BY <2>3, Zenon DEF Result
<1> HIDE DEF n
<1>5. ASSUME NEW o \in Orders(K) PROVE Best(MostSpecific(o))
  <2>1. Len(o) = n /\ (\A i \in 1..n : o[i] \in K) /\ \A k \in K : \E i \in 1..n : o[i] = k
    BY <1>3, Zenon
  <2>2. PICK f : Leaders(o, n, f) /\ MostSpecific(o) = f[n]
    <3>1. Len(o) \in Nat
      BY <1>3, <2>1, Zenon
    <3>2. \E f : Leaders(o, Len(o), f) /\ MostSpecific(o) = f[Len(o)]
      BY <3>1, MostSpecificLeads, Zenon
    <3> QED
      BY <2>1, <3>2, Zenon
  <2>3. n \in 1..n
    BY <1>3
  <2>4. \A i \in 1..n : Fits(name, o[i])
    BY <1>2, <2>1, Zenon
  <2>5. \A i \in 1..n : \A j \in 1..i : f[i] = o[j] \/ Beats(f[i], o[j])
    BY <1>3, <2>2, <2>4, LeaderBeats, Zenon
  <2>6. \A i \in 1..n : \E j \in 1..i : f[i] = o[j]
    BY <1>3, <2>2, LeaderAmong
  <2>7. f[n] \in K /\ \A j \in 1..n : f[n] = o[j] \/ Beats(f[n], o[j])
    BY <2>1, <2>3, <2>5, <2>6, Zenon
  <2>8. \A k \in K : f[n] = k \/ Beats(f[n], k)
    BY <2>1, <2>7, Zenon
  <2> QED
    BY <2>2, <2>7, <2>8, Zenon
<1>6. ASSUME NEW v, NEW w, Best(v), Best(w) PROVE v = w
  <2>1. SUFFICES ASSUME v # w PROVE FALSE
    BY Zenon
  <2>2. Beats(v, w) /\ Beats(w, v) /\ Fits(name, v) /\ Fits(name, w)
    BY <1>2, <1>6, <2>1, Zenon
  <2>3. Len(name) \in Nat /\ DOMAIN v = 1..Len(name) /\ DOMAIN w = 1..Len(name)
    BY <2>2 DEF Fits
  <2> QED
    BY <2>2, <2>3, BeatsOnce, Zenon
<1> HIDE DEF Best
<1>7. PICK o \in Orders(K) : TRUE
  BY <1>3, Zenon
<1> DEFINE w == MostSpecific(o)
<1>8. Best(w)
  BY <1>5, Zenon
<1>9. resolvePattern(name, K) = {w}
  BY <1>4, <1>5, <1>6, Zenon
<1> HIDE DEF w
<1>10. w \in K /\ \A k \in K \ {w} : Beats(w, k)
  BY <1>8, Zenon DEF Best
<1>11. ASSUME NEW k, Beats(w, k) PROVE ~Narrows(k, w)
  BY <1>11, Zenon DEF Beats, Narrows
<1> QED
  BY <1>9, <1>10, <1>11, Zenon DEF OneWinner

\* In particular the short patterns and names.
LEMMA ShortFacts == ShortAgree /\ ShortOneWinner
<1>1. ShortNames \subseteq Seq(Literals) /\ UpTo(Segments, 3) \subseteq Seq(Segments)
  BY ShortSequences, Zenon DEF ShortNames
<1>2. ShortAgree
  BY <1>1, AgreeOnAll, Zenon DEF ShortAgree
<1>3. ShortOneWinner
  <2>1. SUFFICES ASSUME NEW name \in ShortNames,
                        NEW keys \in SUBSET {k \in StarsOnly(UpTo(Segments, 3)) :
                                               Matches(name, k)},
                        IsFiniteSet(keys)
                 PROVE  OneWinner(name, keys)
    BY Zenon DEF ShortOneWinner
  <2>2. name \in Seq(Literals)
    BY <1>1, Zenon
  <2>3. \A k \in keys : /\ k \in Seq(Segments) /\ Matches(name, k)
                        /\ \A i \in DOMAIN k : k[i] # Hash
    BY <1>1, <2>1, Zenon DEF StarsOnly
  <2> QED
    BY <2>1, <2>2, <2>3, StarsHaveOneWinner, Zenon
<1> QED
  BY <1>2, <1>3, Zenon
=============================================================================
