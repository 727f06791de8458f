----------------------------- MODULE KeyMatcher -----------------------------
(***************************************************************************)
(* Wildcard names of internal/matcher/keymatcher.go.  A name is the        *)
(* sequence of its dot-separated segments, so strings.Split is built in.   *)
(* A segment is a literal or one of the two wildcards; a wildcard inside a *)
(* longer segment is left out.                                             *)
(***************************************************************************)
EXTENDS Integers, Sequences, FiniteSets

CONSTANT Literals     \* segments without a wildcard

Star == "*"
Hash == "#"
Segments == Literals \cup {Star, Hash}
Nothing == <<>>       \* the empty string: no pattern

HasWildcard(s) == \E i \in DOMAIN s : s[i] \in {Star, Hash}

\* Mutant: a hash stands for one segment at least.
matchSegmentsHashEatsOne[pattern \in Seq(Segments)] == [key \in Seq(Segments) |->
  IF pattern = <<>> THEN key = <<>>
  ELSE LET head == Head(pattern)  rest == Tail(pattern) IN
    IF head = Hash THEN
      \E i \in 1..Len(key) : matchSegmentsHashEatsOne[rest][SubSeq(key, i + 1, Len(key))]
    ELSE /\ key # <<>> /\ head \in {Star, Head(key)}
         /\ matchSegmentsHashEatsOne[rest][Tail(key)]]

\* A hash tries every split of the key, a star takes one segment.
matchSegments[pattern \in Seq(Segments)] == [key \in Seq(Segments) |->
  IF pattern = <<>> THEN key = <<>>
  ELSE LET head == Head(pattern)  rest == Tail(pattern) IN
    IF head = Hash THEN
      \/ rest = <<>>
      \/ \E i \in 0..Len(key) : matchSegments[rest][SubSeq(key, i + 1, Len(key))]
    ELSE /\ key # <<>> /\ head \in {Star, Head(key)}
         /\ matchSegments[rest][Tail(key)]]

\* Mutant of Matches, with the above.
MatchesHashEatsOne(name, pattern) ==
  HasWildcard(pattern) /\ matchSegmentsHashEatsOne[pattern][name]

Matches(name, pattern) == HasWildcard(pattern) /\ matchSegments[pattern][name]

\* Mutant: the length decides before the wildcards do.
compareSegmentsByLength(current, a, b) == current

\* The first position where a literal meets something else decides; a star
\* against a hash decides for the time being; otherwise the lengths do.
compareSegments(current, a, b) ==
  LET Shorter == IF Len(a) < Len(b) THEN Len(a) ELSE Len(b)
      from[i \in 1..(Shorter + 1)] == [c \in Int |->
        IF i > Shorter THEN c
        ELSE IF a[i] = b[i] THEN from[i + 1][c]
        ELSE IF a[i] \notin {Star, Hash} THEN -1
        ELSE IF b[i] \notin {Star, Hash} THEN 1
        ELSE from[i + 1][IF a[i] = Hash THEN 1 ELSE -1]]
  IN from[1][current]

\* Negative when a is more specific than b.
compare(a, b) == compareSegments(Len(b) - Len(a), a, b)

\* The result for candidates in this order.
MostSpecific(candidates) ==
  LET upTo[i \in 0..Len(candidates)] ==
        IF i = 0 THEN Nothing
        ELSE IF i = 1 \/ compare(candidates[i], upTo[i - 1]) < 0 THEN candidates[i]
        ELSE upTo[i - 1]
  IN upTo[Len(candidates)]

\* keysOf ranges over a map, so the order of the candidates is any: the set of
\* the results resolvePattern may return.
resolvePattern(name, keys) ==
  LET matching == {k \in keys : Matches(name, k)}
      n == Cardinality(matching)
      orders == {o \in [1..n -> matching] : \A i, j \in 1..n : o[i] = o[j] => i = j}
  IN {MostSpecific(o) : o \in orders}
-----------------------------------------------------------------------------
(* What the names mean.                                                    *)

\* RabbitMQ's rule for a topic exchange: the key can be cut into one piece per
\* segment of the pattern, of any length for a hash, of length one otherwise.
TopicMatches(key, pattern) ==
  \E cut \in [0..Len(pattern) -> 0..Len(key)] :
    /\ cut[0] = 0 /\ cut[Len(pattern)] = Len(key)
    /\ \A i \in DOMAIN pattern :
         IF pattern[i] = Hash THEN cut[i - 1] <= cut[i]
         ELSE cut[i] = cut[i - 1] + 1 /\ pattern[i] \in {Star, key[cut[i]]}

UpTo(S, n) == UNION {[1..i -> S] : i \in 1..n}

AgreeOn(patterns, keys) ==
  \A pattern \in patterns, key \in keys :
    Matches(key, pattern) <=> HasWildcard(pattern) /\ TopicMatches(key, pattern)

ShortNames == UpTo(Literals, 3)
ShortAgree == AgreeOn(UpTo(Segments, 3), ShortNames)

\* Candidates without a hash, whatever the order of the map: one winner, and no
\* other candidate has all of its literals.  (Of two that have each a literal where
\* the other has a star, the one with the first literal wins, be its wildcards more
\* or fewer.)
StarsOnly(patterns) == {p \in patterns : \A i \in DOMAIN p : p[i] # Hash}
Narrows(k, w) == \A i \in DOMAIN w : w[i] # Star => k[i] = w[i]
OneWinner(name, keys) ==
  keys = {} \/ \E w \in keys :
    /\ resolvePattern(name, keys) = {w}
    /\ \A k \in keys \ {w} : ~Narrows(k, w)
ShortOneWinner ==
  \A name \in ShortNames :
    \A keys \in SUBSET {k \in StarsOnly(UpTo(Segments, 3)) : Matches(name, k)} :
      IsFiniteSet(keys) /\ Cardinality(keys) <= 3 => OneWinner(name, keys)
=============================================================================
