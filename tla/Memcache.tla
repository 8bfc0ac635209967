------------------------------ MODULE Memcache ------------------------------
(***************************************************************************)
(* The cache of src/lib/google/appengine/api/memcache.js, used by the      *)
(* requests of several Google Apps domains, whose namespace the middleware *)
(* of ext/jsgi/namespace.js sets with api/namespace-manager.js.            *)
(*                                                                         *)
(* The service, the datastore and the application are external.  The       *)
(* application is the one that the arguments of add, remove and incr are   *)
(* for: it reads entities through the cache,                               *)
(*                                                                         *)
(*     v = memcache.get(k);                                                *)
(*     if (v == null) { v = db.get(k); memcache.add(k, v); }               *)
(*                                                                         *)
(* takes them off the cache, for longer than two requests may last, before *)
(* it changes them,                                                        *)
(*                                                                         *)
(*     memcache.remove(k, LOCK); db.put(v);                                *)
(*                                                                         *)
(* and counts requests with memcache.add(c, 0); memcache.incr(c).          *)
(*                                                                         *)
(* All calls act in the namespace of the thread; their own parameter of    *)
(* that name is ignored.  Values survive the JSON they are kept as, null   *)
(* excepted, which get answers for an absent key.                          *)
(***************************************************************************)
EXTENDS Naturals

CONSTANTS
  Request,      \* requests; a name is used again when the request is over
  Domain,       \* the Google Apps domains that requests are for
  Empty,        \* the default namespace
  Key,          \* the keys of entities that are cached
  Absent,       \* nothing is cached under a key: null
  Deadline,     \* in seconds: a request is killed when it is older
  LockTime,     \* in seconds: the second argument of remove
  MaxUpdates,   \* bound: updates of an entity
  MaxCounts     \* bound: requests counted in a domain

ASSUME NamespaceAssumption == Empty \notin Domain
ASSUME TimeAssumption == Deadline \in Nat /\ LockTime \in Nat /\ LockTime > 2 * Deadline
ASSUME BoundAssumption == MaxUpdates \in Nat /\ MaxCounts \in Nat

Namespace == Domain \cup {Empty}

\* An entity is known by the domain that wrote it and its revision.
Entity == Namespace \X (0..MaxUpdates)

ASSUME AbsentAssumption == Absent \notin Entity \cup Nat

VARIABLES
  store,        \* the entities of each namespace
  cache,        \* what is cached under each of their keys ...
  lock,         \* ... and for how long nothing may be added there
  counter,      \* the counter of each namespace, in the cache
  evicted,      \* a counter has been evicted
  served,       \* how many requests of each domain have been counted
  req           \* the requests

vars == <<store, cache, lock, counter, evicted, served, req>>

\* Where a request is, how old, the domain it is for, the namespace of its
\* thread, the key it works on and what it has read there.
Over == [at |-> "over", age |-> 0, domain |-> Empty, namespace |-> Empty,
         key |-> Absent, value |-> Absent]

State == [at : {"over", "arrived", "app", "hit", "loaded", "locked", "counting"},
          age : 0..Deadline, domain : Namespace, namespace : Namespace,
          key : Key \cup {Absent}, value : Entity \cup {Absent}]

Init ==
  /\ store = [n \in Namespace |-> [k \in Key |-> <<n, 0>>]]
  /\ cache = [n \in Namespace |-> [k \in Key |-> Absent]]
  /\ lock = [n \in Namespace |-> [k \in Key |-> 0]]
  /\ counter = [n \in Namespace |-> Absent]
  /\ evicted = [n \in Namespace |-> FALSE]
  /\ served = [d \in Domain |-> 0]
  /\ req = [r \in Request |-> Over]

-----------------------------------------------------------------------------
(***************************************************************************)
(* The calls of memcache.js, in the namespace n.                           *)
(***************************************************************************)
\* Slips of Add and Remove.
AddAlways(n, k, v) == cache' = [cache EXCEPT ![n][k] = v]

RemoveForMillis(n, k, seconds) ==
  /\ cache' = [cache EXCEPT ![n][k] = Absent]
  /\ lock' = [lock EXCEPT ![n][k] = seconds \div 1000]

\* add: only if the key is absent and not locked.
Add(n, k, v) ==
  cache' = [cache EXCEPT ![n][k] = IF @ = Absent /\ lock[n][k] = 0 THEN v ELSE @]

\* remove with seconds: nothing can be added in the next seconds.
Remove(n, k, seconds) ==
  /\ cache' = [cache EXCEPT ![n][k] = Absent]
  /\ lock' = [lock EXCEPT ![n][k] = seconds]

\* incr; an initialValue that is 0 or not given creates nothing.
Incr(n, delta, initialValue) ==
  LET start == IF counter[n] = Absent /\ initialValue # 0 THEN initialValue ELSE counter[n]
      by == IF delta = 0 THEN 1 ELSE delta
  IN counter' = [counter EXCEPT ![n] = IF start = Absent THEN Absent ELSE start + by]

-----------------------------------------------------------------------------
At(r, place) == req[r].at = place
Ns(r) == req[r].namespace
GoesTo(r, place) == req' = [req EXCEPT ![r].at = place]
Ends(r) == req' = [req EXCEPT ![r] = Over]

\* A request comes in, on a thread with no namespace.
Arrive(r, d) ==
  /\ At(r, "over")
  /\ req' = [req EXCEPT ![r].at = "arrived", ![r].domain = d]
  /\ UNCHANGED <<store, cache, lock, counter, evicted, served>>

\* A slip of Middleware: the namespace is left as it is.
MiddlewareIdle(r) ==
  /\ At(r, "arrived")
  /\ GoesTo(r, "app")
  /\ UNCHANGED <<store, cache, lock, counter, evicted, served>>

\* enableRequestNamespace(); return app(request);
Middleware(r) ==
  /\ At(r, "arrived")
  /\ req' = [req EXCEPT ![r].at = "app", ![r].namespace = req[r].domain]
  /\ UNCHANGED <<store, cache, lock, counter, evicted, served>>

\* get: what is cached is the answer ...
Hit(r, k) ==
  /\ At(r, "app")
  /\ cache[Ns(r)][k] # Absent
  /\ req' = [req EXCEPT ![r].at = "hit", ![r].key = k, ![r].value = cache[Ns(r)][k]]
  /\ UNCHANGED <<store, cache, lock, counter, evicted, served>>

\* ... or the entity is read from the datastore ...
Load(r, k) ==
  /\ At(r, "app")
  /\ cache[Ns(r)][k] = Absent
  /\ req' = [req EXCEPT ![r].at = "loaded", ![r].key = k, ![r].value = store[Ns(r)][k]]
  /\ UNCHANGED <<store, cache, lock, counter, evicted, served>>

\* ... and added.
Fill(r) ==
  /\ At(r, "loaded")
  /\ Add(Ns(r), req[r].key, req[r].value)
  /\ Ends(r)
  /\ UNCHANGED <<store, lock, counter, evicted, served>>

Lock(r, k) ==
  /\ At(r, "app")
  /\ Remove(Ns(r), k, LockTime)
  /\ req' = [req EXCEPT ![r].at = "locked", ![r].key = k]
  /\ UNCHANGED <<store, counter, evicted, served>>

Update(r) ==
  LET old == store[Ns(r)][req[r].key] IN
  /\ At(r, "locked")
  /\ old[2] < MaxUpdates
  /\ store' = [store EXCEPT ![Ns(r)][req[r].key] = <<req[r].domain, old[2] + 1>>]
  /\ Ends(r)
  /\ UNCHANGED <<cache, lock, counter, evicted, served>>

\* Slips of CreateCounter: the start is left to incr(c, 1, undefined, 0); or 1
\* is taken for it, which incr takes for an initialValue.
CreateNothing(r) ==
  /\ At(r, "app")
  /\ GoesTo(r, "counting")
  /\ UNCHANGED <<store, cache, lock, counter, evicted, served>>

CreateAtOne(r) ==
  /\ At(r, "app")
  /\ GoesTo(r, "counting")
  /\ counter' = [counter EXCEPT ![Ns(r)] = IF @ = Absent THEN 1 ELSE @]
  /\ UNCHANGED <<store, cache, lock, evicted, served>>

\* add(c, 0), which an initialValue of 0 cannot replace.
CreateCounter(r) ==
  /\ At(r, "app")
  /\ GoesTo(r, "counting")
  /\ counter' = [counter EXCEPT ![Ns(r)] = IF @ = Absent THEN 0 ELSE @]
  /\ UNCHANGED <<store, cache, lock, evicted, served>>

Count(r) ==
  /\ At(r, "counting")
  /\ served[req[r].domain] < MaxCounts
  /\ Incr(Ns(r), 0, 0)
  /\ served' = [served EXCEPT ![req[r].domain] = @ + 1]
  /\ Ends(r)
  /\ UNCHANGED <<store, cache, lock, evicted>>

\* The request has been answered from the cache, it throws, or is killed.
Die(r) ==
  /\ ~At(r, "over")
  /\ Ends(r)
  /\ UNCHANGED <<store, cache, lock, counter, evicted, served>>

\* The service evicts what it likes, or it expires.
Evict(n, k) ==
  /\ cache[n][k] # Absent
  /\ cache' = [cache EXCEPT ![n][k] = Absent]
  /\ UNCHANGED <<store, lock, counter, evicted, served, req>>

EvictCounter(n) ==
  /\ counter[n] # Absent
  /\ counter' = [counter EXCEPT ![n] = Absent]
  /\ evicted' = [evicted EXCEPT ![n] = TRUE]
  /\ UNCHANGED <<store, cache, lock, served, req>>

\* A second passes; no request gets older than its deadline.
Tick ==
  /\ \A r \in Request : At(r, "over") \/ req[r].age < Deadline
  /\ req' = [r \in Request |-> IF At(r, "over") THEN Over ELSE [req[r] EXCEPT !.age = @ + 1]]
  /\ lock' = [n \in Namespace |-> [k \in Key |-> IF lock[n][k] = 0 THEN 0 ELSE lock[n][k] - 1]]
  /\ UNCHANGED <<store, cache, counter, evicted, served>>

Next ==
  \/ \E r \in Request :
       \/ \E d \in Domain : Arrive(r, d)
       \/ Middleware(r) \/ Fill(r) \/ Update(r)
       \/ CreateCounter(r) \/ Count(r) \/ Die(r)
       \/ \E k \in Key : Hit(r, k) \/ Load(r, k) \/ Lock(r, k)
  \/ \E n \in Namespace : EvictCounter(n) \/ \E k \in Key : Evict(n, k)
  \/ Tick

Spec == Init /\ [][Next]_vars

-----------------------------------------------------------------------------
\* Type invariant of the cache and its users (memcache.js, namespace.js).
TypeOK ==
  /\ store \in [Namespace -> [Key -> Entity]]
  /\ cache \in [Namespace -> [Key -> Entity \cup {Absent}]]
  /\ lock \in [Namespace -> [Key -> 0..LockTime]]
  /\ counter \in [Namespace -> (0..MaxCounts) \cup {Absent}]
  /\ evicted \in [Namespace -> BOOLEAN]
  /\ served \in [Domain -> 0..MaxCounts]
  /\ req \in [Request -> State]

\* What is cached is what is stored (memcache.js:56-62, 76-79), although
\* requests interleave, are killed between any two calls, and entries are
\* evicted: a value read before an update is not added after it, because the
\* key stays locked for as long as such a request may live.
CacheIsFresh ==
  \A n \in Namespace, k \in Key : cache[n][k] \in {Absent, store[n][k]}

\* The domains are kept apart (namespace-manager.js:50-52, namespace.js:22-24):
\* what a domain finds in its namespace, in the store or in the cache, it wrote
\* there itself, and nothing is written elsewhere.
DomainsApart ==
  \A n \in Namespace, k \in Key, kept \in {store, cache} :
    kept[n][k] # Absent => kept[n][k][1] = n

\* A counter counts each request once, whatever the interleaving, and misses
\* none unless it was evicted (memcache.js:101-107).
CountsOnce ==
  \A d \in Domain :
    /\ counter[d] # Absent => counter[d] <= served[d]
    /\ ~evicted[d] => served[d] = IF counter[d] = Absent THEN 0 ELSE counter[d]

-----------------------------------------------------------------------------
ByDomain == INSTANCE DomainStore WITH
  Nobody <- Empty,
  entity <- [d \in Domain |-> store[d]],
  from <- [r \in Request |-> req[r].domain],
  shown <- [r \in Request |-> req[r].value]

\* The cache and the shared threads cannot be told from a store for each
\* domain with neither (memcache.js:56-79, namespace.js:22-24): whatever
\* requests of the same or other domains do in between, what one is shown,
\* cached or not, is what its domain's store holds at that moment.
LikeAStorePerDomain == ByDomain!DomainSpec
=============================================================================
