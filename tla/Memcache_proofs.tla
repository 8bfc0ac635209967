--------------------------- MODULE Memcache_proofs ---------------------------
(***************************************************************************)
(* Theorems about the cache (api/memcache.js, ext/jsgi/namespace.js), for  *)
(* every set of requests, domains and keys, and every deadline: a lock that *)
(* is longer than the life of two requests keeps what is cached fresh.     *)
(***************************************************************************)
EXTENDS Memcache, TLAPS

\* A request acts in the namespace of its domain.
NamespaceInv ==
  \A r \in Request : ~At(r, "over") =>
    /\ req[r].domain \in Domain
    /\ ~At(r, "arrived") => Ns(r) = req[r].domain
    /\ req[r].at \in {"loaded", "locked"} => req[r].key \in Key

\* Every entity was written by the domain whose namespace it is in.
OwnerInv ==
  \A n \in Namespace, k \in Key : store[n][k][1] = n

Stale(r) == At(r, "loaded") /\ req[r].value # store[Ns(r)][req[r].key]

\* A locked key is not in the cache; the lock set by a request that is about
\* to update outlasts every other request, and one that has read what is no
\* longer stored is over before the lock is.
LockInv ==
  /\ CacheIsFresh
  /\ \A n \in Namespace, k \in Key : lock[n][k] > 0 => cache[n][k] = Absent
  /\ \A r \in Request : At(r, "locked") =>
       lock[Ns(r)][req[r].key] + req[r].age >= LockTime
  /\ \A r \in Request : Stale(r) => lock[Ns(r)][req[r].key] + req[r].age > Deadline

\* A counter that was created and not evicted is there and right.
CountInv ==
  /\ CountsOnce
  /\ counter[Empty] = Absent
  /\ \A r \in Request : At(r, "counting") /\ ~evicted[Ns(r)] => counter[Ns(r)] # Absent

Inv == TypeOK /\ NamespaceInv /\ OwnerInv /\ LockInv /\ CountInv

-----------------------------------------------------------------------------
LEMMA InitInv == Init => Inv
<1> SUFFICES ASSUME Init PROVE Inv OBVIOUS
<1>1. TypeOK BY TimeAssumption, BoundAssumption DEF Init, TypeOK, State, Over, Entity, Namespace
<1>2. NamespaceInv /\ OwnerInv BY DEF Init, NamespaceInv, OwnerInv, At, Over
<1>3. LockInv BY DEF Init, LockInv, CacheIsFresh, At, Over, Stale
<1>4. CountInv BY DEF Init, CountInv, CountsOnce, At, Over, Namespace
<1>5. QED BY <1>1, <1>2, <1>3, <1>4 DEF Inv

\* Requests come, act and go.
LEMMA StepNamespaces ==
  ASSUME TypeOK, NamespaceInv, [Next]_vars
  PROVE  NamespaceInv'
<1> USE DEF TypeOK, State, NamespaceInv, At, Ns, GoesTo, Ends, Over
<1>1. ASSUME NEW r \in Request, NEW d \in Domain, Arrive(r, d) PROVE NamespaceInv'
  BY <1>1 DEF Arrive
<1>2. ASSUME NEW r \in Request, Middleware(r) PROVE NamespaceInv'
  BY <1>2 DEF Middleware
<1>3. ASSUME NEW r \in Request, NEW k \in Key, Hit(r, k) \/ Load(r, k) \/ Lock(r, k)
      PROVE  NamespaceInv'
  <2>1. /\ \A q \in Request : q # r => req'[q] = req[q]
        /\ req[r].at = "app" /\ req'[r].at \in {"hit", "loaded", "locked"} /\ req'[r].key = k
        /\ req'[r].domain = req[r].domain /\ req'[r].namespace = req[r].namespace
    BY <1>3 DEF Hit, Load, Lock
  <2>2. QED BY <2>1
<1>4. ASSUME NEW r \in Request, CreateCounter(r) PROVE NamespaceInv'
  BY <1>4 DEF CreateCounter
<1>5. ASSUME NEW r \in Request, Ends(r) PROVE NamespaceInv' BY <1>5
<1>6. CASE Tick BY <1>6 DEF Tick
<1>7. CASE UNCHANGED req BY <1>7
<1>8. QED
  BY <1>1, <1>2, <1>3, <1>4, <1>5, <1>6, <1>7
  DEF Next, Fill, Update, Count, Die, Evict, EvictCounter, vars

\* Only Update writes, what its domain owns.
LEMMA StepOwners ==
  ASSUME TypeOK, NamespaceInv, OwnerInv, [Next]_vars
  PROVE  OwnerInv'
<1>1. ASSUME NEW r \in Request, Update(r) PROVE OwnerInv'
  <2>1. req[r].domain = Ns(r) /\ Ns(r) \in Namespace /\ req[r].key \in Key
    BY <1>1 DEF Update, At, NamespaceInv, TypeOK, State, Ns, Namespace
  <2>2. QED BY <1>1, <2>1 DEF Update, OwnerInv, TypeOK
<1>2. CASE UNCHANGED store BY <1>2 DEF OwnerInv
<1>3. QED
  BY <1>1, <1>2
  DEF Next, Arrive, Middleware, Hit, Load, Fill, Lock, CreateCounter, Count, Die, Evict,
      EvictCounter, Tick, vars

\* Counters follow the requests they count.
LEMMA StepCounters ==
  ASSUME TypeOK, NamespaceInv, CountInv, [Next]_vars
  PROVE  CountInv'
<1> USE DEF TypeOK, At, Ns, Namespace, State
<1>1. ASSUME NEW r \in Request, CreateCounter(r) PROVE CountInv'
  <2>1. Ns(r) \in Domain BY <1>1 DEF CreateCounter, NamespaceInv
  <2>2. Ns(r) # Empty BY <2>1, NamespaceAssumption
  <2>3. 0 # Absent BY AbsentAssumption
  <2>4. /\ counter'[Ns(r)] # Absent
        /\ \/ counter'[Ns(r)] = counter[Ns(r)]
           \/ (counter[Ns(r)] = Absent /\ counter'[Ns(r)] = 0)
        /\ \A n \in Namespace : n # Ns(r) => counter'[n] = counter[n]
    BY <1>1, <2>1, <2>3 DEF CreateCounter
  <2>5. CountsOnce'
    BY <1>1, <2>1, <2>4 DEF CreateCounter, CountInv, CountsOnce
  <2>6. \A q \in Request : At(q, "counting")' /\ ~evicted'[Ns(q)'] => counter'[Ns(q)'] # Absent
    BY <1>1, <2>4 DEF CreateCounter, CountInv, GoesTo
  <2>7. QED BY <2>2, <2>4, <2>5, <2>6 DEF CountInv
<1>2. ASSUME NEW r \in Request, Count(r) PROVE CountInv'
  <2>1. Ns(r) \in Domain /\ Ns(r) = req[r].domain BY <1>2 DEF Count, NamespaceInv
  <2>2. Ns(r) # Empty BY <2>1, NamespaceAssumption
  <2>3. /\ counter[Ns(r)] = Absent => counter'[Ns(r)] = Absent
        /\ counter[Ns(r)] # Absent => /\ counter'[Ns(r)] = counter[Ns(r)] + 1
                                      /\ counter'[Ns(r)] # Absent
        /\ \A n \in Namespace : n # Ns(r) => counter'[n] = counter[n]
    BY <1>2, <2>1, AbsentAssumption DEF Count, Incr
  <2>4. ~evicted[Ns(r)] => counter[Ns(r)] # Absent BY <1>2 DEF Count, CountInv
  <2>5. CountsOnce'
    BY <1>2, <2>1, <2>3, <2>4, BoundAssumption DEF Count, CountInv, CountsOnce
  <2>6. \A q \in Request : At(q, "counting")' /\ ~evicted'[Ns(q)'] => counter'[Ns(q)'] # Absent
    BY <1>2, <2>3 DEF Count, CountInv, Ends, Over
  <2>7. QED BY <2>2, <2>3, <2>5, <2>6 DEF CountInv
<1>3. ASSUME NEW n \in Namespace, EvictCounter(n) PROVE CountInv'
  BY <1>3 DEF EvictCounter, CountInv, CountsOnce
<1>4. ASSUME UNCHANGED <<counter, evicted, served>>,
             \A q \in Request : At(q, "counting")' => At(q, "counting") /\ Ns(q)' = Ns(q)
      PROVE  CountInv'
  BY <1>4 DEF CountInv, CountsOnce
<1>5. ASSUME NEW r \in Request, NEW d \in Domain, Arrive(r, d) PROVE CountInv'
  BY <1>4, <1>5 DEF Arrive
<1>6. ASSUME NEW r \in Request, Middleware(r) PROVE CountInv'
  BY <1>4, <1>6 DEF Middleware
<1>7. ASSUME NEW r \in Request, NEW k \in Key, Hit(r, k) \/ Load(r, k) \/ Lock(r, k)
      PROVE  CountInv'
  <2>1. /\ \A q \in Request : q # r => req'[q] = req[q]
        /\ req'[r].at \in {"hit", "loaded", "locked"}
        /\ UNCHANGED <<counter, evicted, served>>
    BY <1>7 DEF Hit, Load, Lock
  <2>2. QED BY <1>4, <2>1
<1>8. ASSUME NEW r \in Request, Ends(r), UNCHANGED <<counter, evicted, served>>
      PROVE  CountInv'
  BY <1>4, <1>8 DEF Ends, Over
<1>9. CASE Tick BY <1>4, <1>9 DEF Tick, Over
<1>10. CASE UNCHANGED <<counter, evicted, served, req>> BY <1>4, <1>10
<1>11. QED
  BY <1>1, <1>2, <1>3, <1>5, <1>6, <1>7, <1>8, <1>9, <1>10
  DEF Next, Fill, Update, Die, Evict, vars

-----------------------------------------------------------------------------
(***************************************************************************)
(* Types.  The records of the requests first.                              *)
(***************************************************************************)
ReqTypeOK == req \in [Request -> State]

LEMMA StepRequests ==
  ASSUME TypeOK, [Next]_vars
  PROVE  req' \in [Request -> State]
<1>0. ReqTypeOK BY DEF TypeOK, ReqTypeOK
<1> USE DEF ReqTypeOK
<1>1. ASSUME NEW r \in Request, NEW d \in Domain, Arrive(r, d) PROVE req' \in [Request -> State]
  <2> DEFINE s == [req[r] EXCEPT !.at = "arrived", !.domain = d]
  <2>1. s \in State BY <1>0 DEF Namespace, State
  <2>2. req' = [req EXCEPT ![r] = s] BY <1>0, <1>1 DEF Arrive, State
  <2> HIDE DEF s
  <2>3. QED BY <1>0, <2>1, <2>2
<1>2. ASSUME NEW r \in Request, Middleware(r) PROVE req' \in [Request -> State]
  BY <1>0, <1>2 DEF Middleware, State
<1>3. ASSUME NEW r \in Request, NEW k \in Key, NEW place \in {"hit", "loaded"},
             NEW v \in Entity \cup {Absent},
             req' = [req EXCEPT ![r].at = place, ![r].key = k, ![r].value = v]
      PROVE  req' \in [Request -> State]
  <2> DEFINE s == [req[r] EXCEPT !.at = place, !.key = k, !.value = v]
  <2>1. s \in State BY <1>0 DEF State
  <2>2. req' = [req EXCEPT ![r] = s] BY <1>0, <1>3 DEF State
  <2> HIDE DEF s
  <2>3. QED BY <1>0, <2>1, <2>2
<1>3a. ASSUME NEW r \in Request, NEW k \in Key, Hit(r, k) \/ Load(r, k)
       PROVE  req' \in [Request -> State]
  <2>1. Ns(r) \in Namespace BY <1>0 DEF Ns, State
  <2>2. cache[Ns(r)][k] \in Entity \cup {Absent} /\ store[Ns(r)][k] \in Entity \cup {Absent}
    BY <2>1 DEF TypeOK
  <2>3. QED BY <1>3, <1>3a, <2>2 DEF Hit, Load
<1>4. ASSUME NEW r \in Request, NEW k \in Key, Lock(r, k) PROVE req' \in [Request -> State]
  BY <1>0, <1>4 DEF Lock, State
<1>5. ASSUME NEW r \in Request, CreateCounter(r) PROVE req' \in [Request -> State]
  BY <1>0, <1>5 DEF CreateCounter, GoesTo, State
<1>6. Over \in State
  BY TimeAssumption DEF Over, Namespace, State
<1>7. ASSUME NEW r \in Request, Ends(r) PROVE req' \in [Request -> State]
  <2> QED BY <1>0, <1>6, <1>7 DEF Ends
<1>8. CASE Tick
  <2>1. ASSUME NEW r \in Request, ~At(r, "over") PROVE [req[r] EXCEPT !.age = @ + 1] \in State
    <3>1. req[r].age + 1 \in 0..Deadline BY <1>0, <1>8, <2>1, TimeAssumption DEF Tick, State
    <3>2. QED BY <1>0, <3>1 DEF State
  <2>2. QED BY <1>6, <1>8, <2>1 DEF Tick
<1>9. CASE UNCHANGED req BY <1>0, <1>9
<1>10. QED
  BY <1>1, <1>2, <1>3a, <1>4, <1>5, <1>7, <1>8, <1>9
  DEF Next, Fill, Update, Count, Die, Evict, EvictCounter, vars

LEMMA StepTypes ==
  ASSUME TypeOK, NamespaceInv, CountInv, [Next]_vars
  PROVE  TypeOK'
<1>0. ReqTypeOK' BY StepRequests DEF ReqTypeOK
<1> USE DEF TypeOK, At, Ns, State
<1>1. ASSUME NEW r \in Request, NEW k \in Key, Lock(r, k) PROVE TypeOK'
  BY <1>0, <1>1, TimeAssumption DEF Lock, Remove, ReqTypeOK
<1>2. ASSUME NEW r \in Request, Fill(r) PROVE TypeOK'
  <2>1. req[r].value \in Entity \cup {Absent} BY <1>2
  <2>2. cache' = [cache EXCEPT ![Ns(r)][req[r].key] =
                    IF @ = Absent /\ lock[Ns(r)][req[r].key] = 0 THEN req[r].value ELSE @]
    BY <1>2 DEF Fill, Add
  <2>3. cache' \in [Namespace -> [Key -> Entity \cup {Absent}]]
    <3> DEFINE n == Ns(r)
               k == req[r].key
               E == Entity \cup {Absent}
    <3>1. cache \in [Namespace -> [Key -> E]] /\ req[r].value \in E BY <2>1
    <3>2. n \in Namespace OBVIOUS
    <3>3. \/ cache' = [cache EXCEPT ![n][k] = req[r].value]
          \/ cache' = cache
      BY <2>2
    <3> HIDE DEF n, k, E
    <3> HIDE DEF TypeOK
    <3>4. cache' \in [Namespace -> [Key -> E]]
      <4>1. CASE cache' = cache BY <3>1, <4>1
      <4>2. CASE cache' = [cache EXCEPT ![n][k] = req[r].value] BY <3>1, <3>2, <4>2
      <4>3. QED BY <3>3, <4>1, <4>2
    <3>5. QED BY <3>4 DEF E
  <2>4. QED BY <1>0, <1>2, <2>3 DEF Fill, ReqTypeOK
<1>3. ASSUME NEW r \in Request, Update(r) PROVE TypeOK'
  <2>1. Ns(r) \in Namespace /\ req[r].key \in Key /\ req[r].domain \in Namespace
    BY <1>3 DEF Update, NamespaceInv, Namespace
  <2>2. store[Ns(r)][req[r].key] \in Entity BY <2>1
  <2>3. <<req[r].domain, store[Ns(r)][req[r].key][2] + 1>> \in Entity
    BY <1>3, <2>1, <2>2, BoundAssumption DEF Update, Entity
  <2>4. store' \in [Namespace -> [Key -> Entity]]
    BY <1>3, <2>1, <2>3 DEF Update
  <2>5. QED BY <1>0, <1>3, <2>4 DEF Update, ReqTypeOK
<1>4. ASSUME NEW r \in Request, CreateCounter(r) PROVE TypeOK'
  BY <1>0, <1>4, BoundAssumption DEF CreateCounter, ReqTypeOK
<1>5. ASSUME NEW r \in Request, Count(r) PROVE TypeOK'
  <2>1. Ns(r) \in Domain /\ Ns(r) \in Namespace /\ Ns(r) = req[r].domain
    BY <1>5 DEF Count, NamespaceInv, Namespace
  <2>2. served' \in [Domain -> 0..MaxCounts] BY <1>5, <2>1, BoundAssumption DEF Count
  <2>3. counter[Ns(r)] # Absent => counter[Ns(r)] + 1 \in 0..MaxCounts
    BY <1>5, <2>1, BoundAssumption DEF Count, CountInv, CountsOnce
  <2>4. counter' \in [Namespace -> (0..MaxCounts) \cup {Absent}]
    BY <1>5, <2>1, <2>3 DEF Count, Incr
  <2>5. QED BY <1>0, <1>5, <2>2, <2>4 DEF Count, ReqTypeOK
<1>6. ASSUME NEW n \in Namespace, NEW k \in Key, Evict(n, k) PROVE TypeOK' BY <1>6 DEF Evict
<1>7. ASSUME NEW n \in Namespace, EvictCounter(n) PROVE TypeOK' BY <1>7 DEF EvictCounter
<1>8. CASE Tick
  <2>1. ASSUME NEW n \in Namespace, NEW k \in Key
        PROVE  (IF lock[n][k] = 0 THEN 0 ELSE lock[n][k] - 1) \in 0..LockTime
    <3>1. lock[n][k] \in 0..LockTime OBVIOUS
    <3> HIDE DEF TypeOK
    <3>2. QED BY <3>1, TimeAssumption
  <2>2. lock' \in [Namespace -> [Key -> 0..LockTime]] BY <1>8, <2>1 DEF Tick
  <2>3. QED BY <1>0, <1>8, <2>2 DEF Tick, ReqTypeOK
<1>9. CASE UNCHANGED <<store, cache, lock, counter, evicted, served>>
  BY <1>0, <1>9 DEF ReqTypeOK
<1>10. QED
  BY <1>1, <1>2, <1>3, <1>4, <1>5, <1>6, <1>7, <1>8, <1>9
  DEF Next, Arrive, Middleware, Hit, Load, Die, vars

-----------------------------------------------------------------------------
(***************************************************************************)
(* Locks.                                                                  *)
(***************************************************************************)
\* What the arithmetic needs of the types.
LEMMA Times ==
  ASSUME TypeOK
  PROVE  /\ \A n \in Namespace, k \in Key : lock[n][k] \in Nat /\ lock[n][k] <= LockTime
         /\ \A r \in Request : /\ req[r].age \in Nat /\ req[r].age <= Deadline
                               /\ Ns(r) \in Namespace
BY TimeAssumption DEF TypeOK, State, Ns

\* A step that leaves store, cache and locks alone and in which no request
\* reads or locks anything.
LEMMA LocksKept ==
  ASSUME LockInv, UNCHANGED <<store, cache, lock>>,
         \A r \in Request : req'[r].at \in {"loaded", "locked"} => req'[r] = req[r]
  PROVE  LockInv'
BY DEF LockInv, CacheIsFresh, Stale, At, Ns

LEMMA StepLocks ==
  ASSUME TypeOK, NamespaceInv, LockInv, [Next]_vars
  PROVE  LockInv'
<1>0. /\ \A n \in Namespace, k \in Key : lock[n][k] \in Nat /\ lock[n][k] <= LockTime
      /\ \A r \in Request : /\ req[r].age \in Nat /\ req[r].age <= Deadline
                            /\ Ns(r) \in Namespace
  BY Times
<1>1. ASSUME NEW r \in Request, NEW d \in Domain, Arrive(r, d) PROVE LockInv'
  BY <1>1, LocksKept DEF Arrive, TypeOK
<1>2. ASSUME NEW r \in Request, Middleware(r) \/ CreateCounter(r) PROVE LockInv'
  <2>1. CASE Middleware(r) BY <2>1, LocksKept DEF Middleware, TypeOK
  <2>2. CASE CreateCounter(r) BY <2>2, LocksKept DEF CreateCounter, GoesTo, TypeOK
  <2>3. QED BY <1>2, <2>1, <2>2
<1>2a. ASSUME NEW r \in Request, NEW k \in Key, Hit(r, k) PROVE LockInv'
  BY <1>2a, LocksKept DEF Hit, TypeOK
<1>3. ASSUME NEW r \in Request, Ends(r), UNCHANGED <<store, cache, lock>> PROVE LockInv'
  BY <1>3, LocksKept DEF Ends, Over, TypeOK
<1>4. ASSUME NEW r \in Request, NEW k \in Key, Load(r, k) PROVE LockInv'
  <2>1. /\ req'[r].value = store[Ns(r)][k] /\ req'[r].at = "loaded"
        /\ req'[r].key = k /\ req'[r].namespace = Ns(r)
        /\ \A q \in Request : q # r => req'[q] = req[q]
        /\ UNCHANGED <<store, cache, lock>>
    BY <1>4 DEF Load, TypeOK, State, Ns
  <2>2. ~Stale(r)' /\ ~At(r, "locked")' BY <2>1 DEF Stale, At, Ns
  <2>3. \A q \in Request : q # r => (Stale(q)' <=> Stale(q)) BY <2>1 DEF Stale, At, Ns
  <2>4. QED BY <2>1, <2>2, <2>3 DEF LockInv, CacheIsFresh, At, Ns
<1>5. ASSUME NEW r \in Request, Fill(r) PROVE LockInv'
  <2> DEFINE n == Ns(r)
             k == req[r].key
  <2>1. n \in Namespace /\ k \in Key BY <1>0, <1>5 DEF Fill, NamespaceInv, At
  <2>2. ASSUME Stale(r) PROVE lock[n][k] > 0
    <3>1. lock[n][k] + req[r].age > Deadline BY <2>2 DEF LockInv
    <3>2. QED BY <1>0, <2>1, <3>1, TimeAssumption
  <2>3. /\ cache'[n][k] = IF cache[n][k] = Absent /\ lock[n][k] = 0
                          THEN req[r].value ELSE cache[n][k]
        /\ \A m \in Namespace, j \in Key :
             m # n \/ j # k => cache'[m][j] = cache[m][j]
    BY <1>5, <2>1 DEF Fill, Add, TypeOK
  <2>4. lock[n][k] = 0 => req[r].value = store[n][k]
    BY <1>0, <1>5, <2>1, <2>2 DEF Fill, Stale
  <2>5. UNCHANGED <<store, lock>> BY <1>5 DEF Fill
  <2>6. /\ req'[r].at = "over"
        /\ \A q \in Request : q # r => req'[q] = req[q]
    BY <1>5 DEF Fill, Ends, Over, TypeOK
  <2>7. CacheIsFresh'
    <3> SUFFICES ASSUME NEW m \in Namespace, NEW j \in Key
                 PROVE  cache'[m][j] \in {Absent, store[m][j]}
      BY <2>5 DEF CacheIsFresh
    <3>1. CASE m = n /\ j = k BY <2>3, <2>4, <3>1 DEF LockInv, CacheIsFresh
    <3>2. CASE m # n \/ j # k BY <2>3, <3>2 DEF LockInv, CacheIsFresh
    <3>3. QED BY <3>1, <3>2
  <2>8. \A m \in Namespace, j \in Key : lock'[m][j] > 0 => cache'[m][j] = Absent
    <3> SUFFICES ASSUME NEW m \in Namespace, NEW j \in Key, lock[m][j] > 0
                 PROVE  cache'[m][j] = Absent
      BY <2>5
    <3>1. cache[m][j] = Absent BY DEF LockInv
    <3>2. CASE m = n /\ j = k BY <2>3, <3>1, <3>2
    <3>3. CASE m # n \/ j # k BY <2>3, <3>1, <3>3
    <3>4. QED BY <3>2, <3>3
  <2>9. QED BY <2>5, <2>6, <2>7, <2>8 DEF LockInv, Stale, At, Ns
<1>6. ASSUME NEW r \in Request, NEW k \in Key, Lock(r, k) PROVE LockInv'
  <2> DEFINE n == Ns(r)
  <2>1. n \in Namespace BY <1>0
  <2>2. /\ cache'[n][k] = Absent /\ lock'[n][k] = LockTime
        /\ \A m \in Namespace, j \in Key :
             m # n \/ j # k => cache'[m][j] = cache[m][j] /\ lock'[m][j] = lock[m][j]
    BY <1>6, <2>1 DEF Lock, Remove, TypeOK
  <2>3. \A m \in Namespace, j \in Key : lock'[m][j] \in Nat /\ lock'[m][j] >= lock[m][j]
    <3> SUFFICES ASSUME NEW m \in Namespace, NEW j \in Key
                 PROVE  lock'[m][j] \in Nat /\ lock'[m][j] >= lock[m][j]
      OBVIOUS
    <3>1. CASE m = n /\ j = k BY <1>0, <2>2, <3>1, TimeAssumption
    <3>2. CASE m # n \/ j # k BY <1>0, <2>2, <3>2
    <3>3. QED BY <3>1, <3>2
  <2>4. /\ req'[r].at = "locked" /\ req'[r].key = k /\ req'[r].namespace = n
        /\ req'[r].age = req[r].age
        /\ \A q \in Request : q # r => req'[q] = req[q]
        /\ store' = store
    BY <1>6 DEF Lock, TypeOK, State, Ns
  <2>5. CacheIsFresh' BY <2>2, <2>4 DEF LockInv, CacheIsFresh
  <2>6. \A m \in Namespace, j \in Key : lock'[m][j] > 0 => cache'[m][j] = Absent
    BY <2>2 DEF LockInv
  <2>7. ASSUME NEW q \in Request, At(q, "locked")'
        PROVE  lock'[req'[q].namespace][req'[q].key] + req'[q].age >= LockTime
    <3>1. CASE q = r BY <1>0, <2>2, <2>4, <3>1, TimeAssumption
    <3>2. CASE q # r
      <4>1. At(q, "locked") /\ req'[q] = req[q] BY <2>4, <2>7, <3>2 DEF At
      <4>2. lock[Ns(q)][req[q].key] + req[q].age >= LockTime BY <4>1 DEF LockInv
      <4>3. Ns(q) \in Namespace /\ req[q].key \in Key BY <1>0, <4>1 DEF NamespaceInv, At
      <4>4. lock'[Ns(q)][req[q].key] >= lock[Ns(q)][req[q].key] BY <2>3, <4>3
      <4>5. QED BY <1>0, <2>3, <4>1, <4>2, <4>3, <4>4, TimeAssumption DEF Ns
    <3>3. QED BY <3>1, <3>2
  <2>8. ASSUME NEW q \in Request, Stale(q)'
        PROVE  lock'[req'[q].namespace][req'[q].key] + req'[q].age > Deadline
    <3>1. q # r BY <2>4, <2>8 DEF Stale, At
    <3>2. req'[q] = req[q] /\ Stale(q) BY <2>4, <2>8, <3>1 DEF Stale, At, Ns
    <3>3. lock[Ns(q)][req[q].key] + req[q].age > Deadline BY <3>2 DEF LockInv
    <3>4. Ns(q) \in Namespace /\ req[q].key \in Key
      BY <1>0, <3>2 DEF NamespaceInv, Stale, At
    <3>5. lock'[Ns(q)][req[q].key] >= lock[Ns(q)][req[q].key] BY <2>3, <3>4
    <3>6. QED BY <1>0, <2>3, <3>2, <3>3, <3>4, <3>5, TimeAssumption DEF Ns
  <2>9. QED BY <2>5, <2>6, <2>7, <2>8 DEF LockInv, Ns
<1>7. ASSUME NEW r \in Request, Update(r) PROVE LockInv'
  <2> DEFINE n == Ns(r)
             k == req[r].key
  <2>1. n \in Namespace /\ k \in Key BY <1>0, <1>7 DEF Update, NamespaceInv, At
  <2>2. lock[n][k] + req[r].age >= LockTime BY <1>7 DEF Update, LockInv
  <2>3. lock[n][k] > Deadline BY <1>0, <2>1, <2>2, TimeAssumption
  <2>4. cache[n][k] = Absent
    <3>1. lock[n][k] > 0 BY <1>0, <2>1, <2>3, TimeAssumption
    <3>2. QED BY <2>1, <3>1 DEF LockInv
  <2>5. /\ \A m \in Namespace, j \in Key : m # n \/ j # k => store'[m][j] = store[m][j]
        /\ UNCHANGED <<cache, lock>>
    BY <1>7, <2>1 DEF Update, TypeOK
  <2>6. /\ req'[r].at = "over"
        /\ \A q \in Request : q # r => req'[q] = req[q]
    BY <1>7 DEF Update, Ends, Over, TypeOK
  <2>7. CacheIsFresh'
    <3> SUFFICES ASSUME NEW m \in Namespace, NEW j \in Key
                 PROVE  cache[m][j] \in {Absent, store'[m][j]}
      BY <2>5 DEF CacheIsFresh
    <3>1. CASE m = n /\ j = k BY <2>4, <3>1
    <3>2. CASE m # n \/ j # k BY <2>5, <3>2 DEF LockInv, CacheIsFresh
    <3>3. QED BY <3>1, <3>2
  <2>8. ASSUME NEW q \in Request, Stale(q)'
        PROVE  lock[Ns(q)][req[q].key] + req[q].age > Deadline /\ req'[q] = req[q]
    <3>1. q # r /\ req'[q] = req[q] /\ At(q, "loaded") BY <2>6, <2>8 DEF Stale, At
    <3>2. Ns(q) \in Namespace /\ req[q].key \in Key BY <1>0, <3>1 DEF NamespaceInv, At
    <3>3. CASE Ns(q) = n /\ req[q].key = k
      <4>1. lock[Ns(q)][req[q].key] > Deadline BY <2>3, <3>3
      <4>2. lock[Ns(q)][req[q].key] + req[q].age > Deadline
        BY <1>0, <3>2, <4>1, TimeAssumption
      <4>3. QED BY <3>1, <4>2
    <3>4. CASE Ns(q) # n \/ req[q].key # k
      <4>1. store'[Ns(q)][req[q].key] = store[Ns(q)][req[q].key] BY <2>5, <3>2, <3>4
      <4>2. Stale(q) BY <2>8, <3>1, <4>1 DEF Stale, Ns
      <4>3. QED BY <3>1, <4>2 DEF LockInv
    <3>5. QED BY <3>1, <3>3, <3>4
  <2>9. ASSUME NEW q \in Request, At(q, "locked")'
        PROVE  lock[Ns(q)][req[q].key] + req[q].age >= LockTime /\ req'[q] = req[q]
    BY <2>6, <2>9 DEF LockInv, At
  <2>10. \A m \in Namespace, j \in Key : lock'[m][j] > 0 => cache'[m][j] = Absent
    BY <2>5 DEF LockInv
  <2>11. QED BY <2>5, <2>7, <2>8, <2>9, <2>10 DEF LockInv, Ns
<1>8. ASSUME NEW n \in Namespace, NEW k \in Key, Evict(n, k) PROVE LockInv'
  <2>1. /\ \A m \in Namespace, j \in Key : cache'[m][j] \in {Absent, cache[m][j]}
        /\ UNCHANGED <<store, lock, req>>
    BY <1>8 DEF Evict, TypeOK
  <2>2. CacheIsFresh' BY <2>1 DEF LockInv, CacheIsFresh
  <2>3. \A m \in Namespace, j \in Key : lock'[m][j] > 0 => cache'[m][j] = Absent
    BY <2>1 DEF LockInv
  <2>4. QED BY <2>1, <2>2, <2>3 DEF LockInv, Stale, At, Ns
<1>9. CASE Tick
  <2>1. \A n \in Namespace, k \in Key :
          lock'[n][k] = IF lock[n][k] = 0 THEN 0 ELSE lock[n][k] - 1
    BY <1>9 DEF Tick
  <2>2. \A n \in Namespace, k \in Key :
          /\ lock'[n][k] \in Nat
          /\ lock'[n][k] > 0 => lock[n][k] > 0
          /\ lock'[n][k] + 1 >= lock[n][k]
    BY <1>0, <2>1
  <2>3. UNCHANGED <<store, cache>> BY <1>9 DEF Tick
  <2>4. ASSUME NEW r \in Request, ~At(r, "over")'
        PROVE  /\ ~At(r, "over") /\ req'[r].at = req[r].at /\ req'[r].age = req[r].age + 1
               /\ req'[r].namespace = Ns(r) /\ req'[r].key = req[r].key
               /\ req'[r].value = req[r].value
    BY <1>9, <2>4 DEF Tick, TypeOK, State, At, Over, Ns
  <2>5. CacheIsFresh' BY <2>3 DEF LockInv, CacheIsFresh
  <2>6. \A n \in Namespace, k \in Key : lock'[n][k] > 0 => cache'[n][k] = Absent
    BY <2>2, <2>3 DEF LockInv
  <2>7. ASSUME NEW r \in Request, At(r, "locked")'
        PROVE  lock'[req'[r].namespace][req'[r].key] + req'[r].age >= LockTime
    <3>1. At(r, "locked") /\ ~At(r, "over")' BY <2>4, <2>7 DEF At
    <3>2. lock[Ns(r)][req[r].key] + req[r].age >= LockTime BY <3>1 DEF LockInv
    <3>3. Ns(r) \in Namespace /\ req[r].key \in Key BY <1>0, <3>1 DEF NamespaceInv, At
    <3>4. lock'[Ns(r)][req[r].key] + (req[r].age + 1) >= LockTime
      BY <1>0, <2>2, <3>2, <3>3, TimeAssumption
    <3>5. QED BY <2>4, <3>1, <3>4
  <2>8. ASSUME NEW r \in Request, Stale(r)'
        PROVE  lock'[req'[r].namespace][req'[r].key] + req'[r].age > Deadline
    <3>1. At(r, "loaded") /\ ~At(r, "over")' BY <2>4, <2>8 DEF Stale, At
    <3>2. Stale(r) BY <2>3, <2>4, <2>8, <3>1 DEF Stale, Ns
    <3>3. lock[Ns(r)][req[r].key] + req[r].age > Deadline BY <3>2 DEF LockInv
    <3>4. Ns(r) \in Namespace /\ req[r].key \in Key BY <1>0, <3>1 DEF NamespaceInv, At
    <3>5. lock'[Ns(r)][req[r].key] + (req[r].age + 1) > Deadline
      BY <1>0, <2>2, <3>3, <3>4, TimeAssumption
    <3>6. QED BY <2>4, <3>1, <3>5
  <2>9. QED BY <2>5, <2>6, <2>7, <2>8 DEF LockInv, Ns
<1>10. CASE UNCHANGED <<store, cache, lock, req>>
  BY <1>10 DEF LockInv, CacheIsFresh, Stale, At, Ns
<1>11. QED
  BY <1>1, <1>2, <1>2a, <1>3, <1>4, <1>5, <1>6, <1>7, <1>8, <1>9, <1>10
  DEF Next, Count, Die, EvictCounter, vars

-----------------------------------------------------------------------------
\* The invariant of cache and requests, in every reachable state.
THEOREM Caching == Spec => []Inv
<1>1. Inv /\ [Next]_vars => Inv'
  BY StepTypes, StepNamespaces, StepOwners, StepCounters, StepLocks DEF Inv
<1>2. QED BY <1>1, InitInv, PTL DEF Spec

\* Types (memcache.js, namespace.js).
THEOREM Types == Spec => []TypeOK
<1>1. Inv => TypeOK BY DEF Inv
<1>2. QED BY <1>1, Caching, PTL

\* What is cached is what is stored, if a lock is longer than the life of two
\* requests (memcache.js:56-62, 76-79).
THEOREM Fresh == Spec => []CacheIsFresh
<1>1. Inv => CacheIsFresh BY DEF Inv, LockInv
<1>2. QED BY <1>1, Caching, PTL

\* What a domain finds in its namespace it wrote there itself
\* (namespace-manager.js:50-52, namespace.js:22-24).
THEOREM Apart == Spec => []DomainsApart
<1>1. Inv => DomainsApart
  <2> SUFFICES ASSUME Inv, NEW n \in Namespace, NEW k \in Key
               PROVE  /\ store[n][k] # Absent => store[n][k][1] = n
                      /\ cache[n][k] # Absent => cache[n][k][1] = n
    BY DEF DomainsApart
  <2>1. store[n][k][1] = n BY DEF Inv, OwnerInv
  <2>2. cache[n][k] \in {Absent, store[n][k]} BY DEF Inv, LockInv, CacheIsFresh
  <2>3. QED BY <2>1, <2>2
<1>2. QED BY <1>1, Caching, PTL

\* Counters count each request once (memcache.js:101-107).
THEOREM Counted == Spec => []CountsOnce
<1>1. Inv => CountsOnce BY DEF Inv, CountInv
<1>2. QED BY <1>1, Caching, PTL

-----------------------------------------------------------------------------
(***************************************************************************)
(* The store of each domain.  What a request was answered goes with the    *)
(* request, and only a request that was answered has it; with that and the *)
(* invariant every step is one of DomainStore, or none.                    *)
(***************************************************************************)
ShownInv ==
  \A r \in Request :
    /\ At(r, "over") => req[r] = Over
    /\ ~At(r, "hit") /\ ~At(r, "loaded") => req[r].value = Absent

\* Values come with an answer and go with the request.
LEMMA StepShown == TypeOK /\ ShownInv /\ [Next]_vars => ShownInv'
<1> SUFFICES ASSUME TypeOK, ShownInv, [Next]_vars PROVE ShownInv'
  OBVIOUS
<1> USE DEF TypeOK, State, ShownInv, At
<1>1. ASSUME NEW r \in Request, NEW d \in Domain, Arrive(r, d) PROVE ShownInv'
  BY <1>1 DEF Arrive
<1>2. ASSUME NEW r \in Request, Middleware(r) \/ CreateCounter(r) PROVE ShownInv'
  <2>1. /\ req[r].at \in {"arrived", "app"} /\ req'[r].at \in {"app", "counting"}
        /\ req'[r].value = req[r].value
        /\ \A q \in Request \ {r} : req'[q] = req[q]
    BY <1>2 DEF Middleware, CreateCounter, GoesTo
  <2>2. QED BY <2>1
<1>3. ASSUME NEW r \in Request, NEW k \in Key, Hit(r, k) \/ Load(r, k) PROVE ShownInv'
  <2>1. req'[r].at \in {"hit", "loaded"} /\ \A q \in Request \ {r} : req'[q] = req[q]
    BY <1>3 DEF Hit, Load
  <2>2. QED BY <2>1
<1>4. ASSUME NEW r \in Request, NEW k \in Key, Lock(r, k) PROVE ShownInv'
  BY <1>4 DEF Lock
<1>5. ASSUME NEW r \in Request, Ends(r) PROVE ShownInv'
  BY <1>5 DEF Ends, Over
<1>6. CASE Tick BY <1>6 DEF Tick, Over
<1>7. CASE UNCHANGED req BY <1>7
<1>8. QED
  BY <1>1, <1>2, <1>3, <1>4, <1>5, <1>6, <1>7
  DEF Next, Fill, Update, Count, Die, Evict, EvictCounter, vars

Entities == [d \in Domain |-> store[d]]
From == [r \in Request |-> req[r].domain]
Shown == [r \in Request |-> req[r].value]

\* A live request is from a domain and acts in the namespace of it, in
\* which its domain's store is.
LEMMA LiveRequest ==
  ASSUME Inv, NEW r \in Request, ~At(r, "over")
  PROVE  /\ req[r].domain \in Domain /\ req[r].domain # Empty
         /\ ~At(r, "arrived") => Ns(r) = req[r].domain /\ Entities[Ns(r)] = store[Ns(r)]
BY NamespaceAssumption DEF Inv, NamespaceInv, Entities

\* Steps of locks, counters, namespaces and time are not seen.
LEMMA Unseen ==
  ASSUME UNCHANGED store,
         \A r \in Request : req'[r].domain = req[r].domain /\ req'[r].value = req[r].value
  PROVE  UNCHANGED ByDomain!dVars
BY DEF ByDomain!dVars

\* A request ends, perhaps having changed an entity of its domain.
LEMMA GoStep ==
  ASSUME Inv, ShownInv, NEW r \in Request, ~At(r, "over"), Ends(r),
         \/ UNCHANGED store
         \/ Update(r)
  PROVE  ByDomain!DomainNext
<1>1. req[r].domain # Empty /\ req[r].domain \in Domain BY LiveRequest
<1>2. req'[r] = Over /\ \A q \in Request \ {r} : req'[q] = req[q]
  BY DEF Ends, Inv, TypeOK
<1>3. From' = [From EXCEPT ![r] = Empty] /\ Shown' = [Shown EXCEPT ![r] = Absent]
  <2>1. req'[r].domain = Empty /\ req'[r].value = Absent BY <1>2 DEF Over
  <2>2. QED BY <1>2, <2>1 DEF From, Shown
<1>4. CASE UNCHANGED store
  BY <1>1, <1>3, <1>4 DEF ByDomain!DomainNext, ByDomain!Go, From, Shown
<1>5. CASE Update(r)
  <2> DEFINE d == req[r].domain
             k == req[r].key
  <2>1. At(r, "locked") /\ k \in Key /\ Ns(r) = d
    BY <1>5 DEF Update, Inv, NamespaceInv, At
  <2>2. Shown[r] = Absent BY <2>1 DEF ShownInv, Shown, At
  <2>3. store' = [store EXCEPT ![d][k] = <<d, store[d][k][2] + 1>>]
    BY <1>5, <2>1 DEF Update
  <2>4. Entities' = [Entities EXCEPT ![d][k] = <<d, @[2] + 1>>]
    BY <1>1, <2>1, <2>3 DEF Entities, Inv, TypeOK, Namespace
  <2>5. From[r] = d BY DEF From
  <2> HIDE DEF d, k
  <2>6. ByDomain!Go(r)
    BY <1>3, <2>1, <2>2, <2>4, <2>5
    DEF ByDomain!Go, ByDomain!Revised, From, Shown, Entities
  <2>7. QED BY <1>1, <2>6 DEF ByDomain!DomainNext
<1>6. QED BY <1>4, <1>5

\* A request is answered, from the cache or from the store.
LEMMA ReadStep ==
  ASSUME Inv, ShownInv, NEW r \in Request, NEW k \in Key, Hit(r, k) \/ Load(r, k)
  PROVE  ByDomain!DomainNext
<1>1. At(r, "app") BY DEF Hit, Load
<1>2. /\ req[r].domain \in Domain /\ req[r].domain # Empty
      /\ Ns(r) = req[r].domain /\ Entities[Ns(r)] = store[Ns(r)]
  BY <1>1, LiveRequest DEF At
<1>3. Hit(r, k) => cache[Ns(r)][k] = store[Ns(r)][k]
  BY <1>2 DEF Hit, Inv, LockInv, CacheIsFresh, Namespace
<1>4. /\ req'[r].value = store[Ns(r)][k] /\ req'[r].domain = req[r].domain
      /\ \A q \in Request \ {r} : req'[q] = req[q]
      /\ UNCHANGED store
  <2>1. req \in [Request -> State] BY DEF Inv, TypeOK
  <2>2. CASE Hit(r, k) BY <1>3, <2>1, <2>2 DEF Hit, State
  <2>3. CASE Load(r, k) BY <2>1, <2>3 DEF Load, State
  <2>4. QED BY <2>2, <2>3
<1>5. /\ From' = From /\ Entities' = Entities
      /\ Shown' = [Shown EXCEPT ![r] = Entities[From[r]][k]]
  BY <1>2, <1>4 DEF From, Shown, Entities
<1>6. Shown[r] = Absent /\ From[r] # Empty BY <1>1, <1>2 DEF ShownInv, Shown, From, At
<1>7. ByDomain!Read(r, k) BY <1>5, <1>6 DEF ByDomain!Read, From, Shown, Entities
<1>8. QED BY <1>6, <1>7 DEF ByDomain!DomainNext, From

\* A request comes in.
LEMMA ComeStep ==
  ASSUME Inv, ShownInv, NEW r \in Request, NEW d \in Domain, Arrive(r, d)
  PROVE  ByDomain!DomainNext
<1>1. req[r] = Over BY DEF Arrive, ShownInv
<1>2. /\ req'[r].domain = d /\ req'[r].value = req[r].value
      /\ \A q \in Request \ {r} : req'[q] = req[q]
      /\ UNCHANGED store
  BY DEF Arrive, Inv, TypeOK, State
<1>3. From' = [From EXCEPT ![r] = d] /\ Shown' = Shown /\ From[r] = Empty
  <2>1. req[r].domain = Empty BY <1>1 DEF Over
  <2>2. QED BY <1>2, <2>1 DEF From, Shown
<1>4. ByDomain!Come(r, d) BY <1>2, <1>3 DEF ByDomain!Come, From, Shown
<1>5. QED BY <1>4 DEF ByDomain!DomainNext

\* Every step is one of the stores of the domains, or is not seen.
LEMMA DomainStep ==
  ASSUME Inv, ShownInv, [Next]_vars
  PROVE  [ByDomain!DomainNext]_ByDomain!dVars
<1>1. ASSUME NEW r \in Request, Middleware(r) \/ CreateCounter(r)
      PROVE  UNCHANGED ByDomain!dVars
  <2>1. /\ UNCHANGED store
        /\ \A q \in Request : req'[q].domain = req[q].domain /\ req'[q].value = req[q].value
    <3>1. req \in [Request -> State] BY DEF Inv, TypeOK
    <3>2. CASE Middleware(r) BY <3>1, <3>2 DEF Middleware, State
    <3>3. CASE CreateCounter(r) BY <3>1, <3>3 DEF CreateCounter, GoesTo, State
    <3>4. QED BY <1>1, <3>2, <3>3
  <2>2. QED BY <2>1, Unseen
<1>2. ASSUME NEW r \in Request, NEW k \in Key, Lock(r, k) PROVE UNCHANGED ByDomain!dVars
  <2>1. /\ UNCHANGED store
        /\ \A q \in Request : req'[q].domain = req[q].domain /\ req'[q].value = req[q].value
    BY <1>2 DEF Lock, Inv, TypeOK, State
  <2>2. QED BY <2>1, Unseen
<1>3. CASE Tick
  <2>1. ASSUME NEW q \in Request
        PROVE  req'[q].domain = req[q].domain /\ req'[q].value = req[q].value
    BY <1>3 DEF Tick, ShownInv, Inv, TypeOK, State
  <2>2. QED BY <1>3, <2>1, Unseen DEF Tick
<1>4. CASE UNCHANGED <<store, req>> BY <1>4, Unseen
<1>5. ASSUME NEW r \in Request, Fill(r) \/ Update(r) \/ Count(r) \/ Die(r)
      PROVE  ByDomain!DomainNext
  <2>1. Ends(r) /\ ~At(r, "over") /\ (UNCHANGED store \/ Update(r))
    BY <1>5 DEF Fill, Update, Count, Die, At
  <2>2. QED BY <2>1, GoStep
<1>6. QED
  BY <1>1, <1>2, <1>3, <1>4, <1>5, ComeStep, ReadStep DEF Next, Evict, EvictCounter, vars

\* It begins as the stores of the domains do, with nobody answered.
LEMMA DomainStart == Init => ShownInv /\ ByDomain!DomainInit
<1> SUFFICES ASSUME Init PROVE ShownInv /\ ByDomain!DomainInit
  OBVIOUS
<1>1. ShownInv BY DEF Init, ShownInv, Over, At
<1>2. Entities = [d \in Domain |-> [k \in Key |-> <<d, 0>>]] BY DEF Init, Entities, Namespace
<1>3. From = [r \in Request |-> Empty] /\ Shown = [r \in Request |-> Absent]
  BY DEF Init, From, Shown, Over
<1>4. QED BY <1>1, <1>2, <1>3 DEF ByDomain!DomainInit, Entities, From, Shown

\* Requests that share a cache and threads cannot tell them from a store for
\* each domain (memcache.js:56-79, namespace.js:22-24).
THEOREM ImplementsDomainStore == Spec => LikeAStorePerDomain
<1>1. Init => ShownInv /\ ByDomain!DomainInit BY DomainStart
<1>2. Inv /\ ShownInv /\ [Next]_vars => ShownInv' /\ [ByDomain!DomainNext]_ByDomain!dVars
  BY StepShown, DomainStep DEF Inv
<1>3. QED BY <1>1, <1>2, Caching, PTL DEF Spec, LikeAStorePerDomain, ByDomain!DomainSpec
=============================================================================
