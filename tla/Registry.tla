------------------------------ MODULE Registry ------------------------------
(***************************************************************************)
(* The handler registry of internal/rabbit/registry.go, one per app: the   *)
(* handlers by kind and name, and the cache of wildcard resolutions, which *)
(* lookups fill while the app may still be registering handlers.           *)
(***************************************************************************)
EXTENDS KeyMatcher

CONSTANT Apps

Kinds == {"event", "command", "query", "notification"}

VARIABLES
  handlers,   \* handlers[a][k]: the names and patterns registered
  cache       \* cache[a][k]: delivered name -> pattern, or Nothing

NoCache == [n \in {} |-> Nothing]

\* Mutant: a new handler leaves the cached resolutions of its kind.
ListenKeepsCache(a, k, name) ==
  /\ k = "query" => ~HasWildcard(name)
  /\ name \notin handlers[a][k]
  /\ handlers' = [handlers EXCEPT ![a][k] = @ \cup {name}]
  /\ UNCHANGED cache

\* ListenEvent, ListenCommand, ServeQuery and ListenNotification.  A duplicate
\* name, or a wildcard for a query, is refused and changes nothing.
Listen(a, k, name) ==
  /\ k = "query" => ~HasWildcard(name)
  /\ name \notin handlers[a][k]
  /\ handlers' = [handlers EXCEPT ![a][k] = @ \cup {name}]
  /\ cache' = [cache EXCEPT ![a][k] = NoCache]

\* The lookup under the lock, read or write: an exact handler, else a cached
\* resolution.  The empty set is a miss.
Lookup(a, k, name) ==
  IF name \in handlers[a][k] THEN {name}
  ELSE IF name \in DOMAIN cache[a][k] THEN {cache[a][k][name]}
  ELSE {}

\* What the lookup finds after it took the write lock: the double check, then a
\* resolution over the keys of the map.
LookupLocked(a, k, name) ==
  IF Lookup(a, k, name) # {} THEN Lookup(a, k, name)
  ELSE resolvePattern(name, handlers[a][k])

\* The write lock was taken for name and found is the resolution.
CacheResolution(a, k, name, found) ==
  cache' = IF Lookup(a, k, name) # {} THEN cache
           ELSE [cache EXCEPT ![a][k] =
                  [n \in DOMAIN @ \cup {name} |-> IF n = name THEN found ELSE @[n]]]

\* QueryHandler: exact names only, nothing is cached.
QueryHandler(a, name) == IF name \in handlers[a]["query"] THEN name ELSE Nothing

\* A cached resolution is the one the registered handlers give now, so no
\* handler registered while messages are being dispatched is shadowed by a
\* resolution, or by a miss, cached before it.
CacheCoherent ==
  \A a \in Apps, k \in Kinds : \A name \in DOMAIN cache[a][k] :
    cache[a][k][name] \in resolvePattern(name, handlers[a][k])
=============================================================================
