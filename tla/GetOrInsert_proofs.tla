-------------------------- MODULE GetOrInsert_proofs --------------------------
(***************************************************************************)
(* Theorems about Model.getOrInsert (ext/db/model.js:208-235), for any     *)
(* number of users, of calls and of failures: it implements the one-step   *)
(* get-or-insert of InsertOnce, never replaces an entity, and makes each   *)
(* user call a number of times that does not depend on how many there are. *)
(***************************************************************************)
EXTENDS GetOrInsert, Datastore_proofs, SequenceTheorems, TLAPS

(***************************************************************************)
(* What is known of a user.  While it is in the function its transaction   *)
(* is the only one of its thread.  Once it has touched a group, and as     *)
(* long as the group's version has not moved, its snapshot is the store.   *)
(* It has found an entity; or has seen that there is none; or is about to  *)
(* write itself, and nothing else, where it saw none.                      *)
(***************************************************************************)
Mine(u) == txn[Tx(u)]

OwnTransaction(u) ==
  IF InFunc(u)
    THEN current[u] = <<Tx(u)>> /\ calls[u] \in 1..MaxCalls /\ Mine(u).state = "active"
    ELSE current[u] = <<>>

SeesStore(u) ==
  pc[u] \in {"found", "absent", "inserted"} =>
    /\ Mine(u).group \in Group
    /\ Mine(u).ver <= version[Mine(u).group]
    /\ Mine(u).ver = version[Mine(u).group] =>
         \A k \in Key : GroupOf[k] = Mine(u).group => Mine(u).snap[k] = store[k]

AsItSeems(u) ==
  /\ pc[u] = "begun" => Mine(u).group = NoGroup
  /\ pc[u] \in {"begun", "found", "absent"} => Mine(u).writes = [k \in Key |-> NoWrite]
  /\ pc[u] \notin {"found", "inserted", "returned"} => obj[u] = NoInstance
  /\ pc[u] \in {"found", "inserted"} => obj[u] \in Instance
  /\ pc[u] = "absent" => /\ Mine(u).group = GroupOf[EntityKey(u)]
                         /\ Mine(u).snap[EntityKey(u)] = NoEntity
  /\ pc[u] = "inserted" =>
       /\ obj[u].content = Tx(u)
       /\ Mine(u).group = GroupOf[obj[u].key]
       /\ Mine(u).snap[obj[u].key] = NoEntity
       /\ Mine(u).writes = [k \in Key |-> IF k = obj[u].key THEN Tx(u) ELSE NoWrite]

UserInv(u) == OwnTransaction(u) /\ SeesStore(u) /\ AsItSeems(u)

UnusedAreFresh == \A t \in TxId : txn[t].state = "unused" => txn[t] = FreshTxn

Inv == TypeOK /\ UnusedAreFresh /\ \A u \in Request : UserInv(u)

-----------------------------------------------------------------------------
\* A step of the store moves the version of every group it changes.
VersionsTell ==
  \A g \in Group :
    /\ version[g] <= version'[g]
    /\ version[g] = version'[g] => \A k \in Key : GroupOf[k] = g => store[k] = store'[k]

\* The keys users look for.
LEMMA EntityKeyType == \A u \in Request : EntityKey(u) \in Key
BY KeyAssumption DEF EntityKey

\* Two users have two transactions.
LEMMA OwnHandles ==
  ASSUME NEW u, NEW v, u # v
  PROVE  Tx(u) # Tx(v) /\ \A n : Handle(u, n) # Tx(v)
BY DEF Tx, Handle

\* The transaction of a user in the function.
LEMMA InTheFunction ==
  ASSUME Inv, NEW u \in Request, InFunc(u)
  PROVE  /\ CurrentTxn(u) = Tx(u) /\ Tx(u) \in TxId /\ Mine(u) \in Txn
         /\ Mine(u).state = "active"
         /\ Leave(u, Tx(u)) => current' = [current EXCEPT ![u] = <<>>]
<1>1. current[u] = <<Tx(u)>> /\ calls[u] \in 1..MaxCalls /\ Mine(u).state = "active"
  BY DEF Inv, UserInv, OwnTransaction
<1>2. Tx(u) \in TxId BY <1>1, CallAssumption DEF Tx
<1>3. CurrentTxn(u) = Tx(u) BY <1>1 DEF CurrentTxn, Top
<1>4. Mine(u) \in Txn BY <1>2 DEF Mine, Inv, TypeOK, DatastoreTypeOK
<1>5. Detach(<<Tx(u)>>, Tx(u)) = <<>>
  <2> DEFINE d == Detach(<<Tx(u)>>, Tx(u))
  <2>1. Len(<<Tx(u)>>) - 1 = 0 OBVIOUS
  <2>2. d = [i \in 1..0 |-> IF \E j \in 1..i : <<Tx(u)>>[j] = Tx(u)
                             THEN <<Tx(u)>>[i + 1] ELSE <<Tx(u)>>[i]]
    BY <2>1 DEF Detach
  <2>3. d \in [1..0 -> TxId] BY <2>2
  <2>4. d = <<>>
    <3> HIDE DEF d
    <3>1. d \in Seq(TxId) BY <2>3, SeqDef
    <3>2. Len(d) = 0 BY <2>3, <3>1, LenProperties
    <3>3. QED BY <3>1, <3>2, EmptySeq
  <2>5. QED BY <2>4
<1>6. Leave(u, Tx(u)) => current' = [current EXCEPT ![u] = <<>>]
  BY <1>1, <1>5 DEF Leave
<1>7. QED BY <1>1, <1>2, <1>3, <1>4, <1>6

-----------------------------------------------------------------------------
(***************************************************************************)
(* A step of one user leaves the others their invariant.                   *)
(***************************************************************************)
SameFor(v) ==
  /\ UNCHANGED <<pc[v], calls[v], hasParent[v], obj[v], current[v]>>
  /\ InFunc(v) => UNCHANGED txn[Tx(v)]

\* A user whom a step does not touch keeps its part of the invariant.
LEMMA OtherKept ==
  ASSUME Inv, TypeOK', VersionsTell, NEW v \in Request, SameFor(v)
  PROVE  UserInv(v)'
<1>1. UserInv(v) BY DEF Inv
<1>2. Tx(v)' = Tx(v) /\ (InFunc(v)' <=> InFunc(v)) /\ EntityKey(v)' = EntityKey(v)
  BY DEF SameFor, Tx, Handle, InFunc, EntityKey
<1>3. InFunc(v) => Mine(v)' = Mine(v) BY <1>2 DEF SameFor, Mine
<1>4. OwnTransaction(v)' BY <1>1, <1>2, <1>3 DEF UserInv, OwnTransaction, SameFor
<1>5. SeesStore(v)'
  <2> SUFFICES ASSUME pc[v] \in {"found", "absent", "inserted"}
               PROVE  SeesStore(v)'
    BY DEF SameFor, SeesStore
  <2> DEFINE x == Mine(v)
             g == Mine(v).group
  <2>1. Mine(v)' = x /\ x \in Txn BY <1>3, InTheFunction DEF InFunc
  <2>2. /\ g \in Group /\ x.ver <= version[g]
        /\ x.ver = version[g] => \A k \in Key : GroupOf[k] = g => x.snap[k] = store[k]
    BY <1>1 DEF UserInv, SeesStore
  <2>3. x.ver \in Nat /\ version[g] \in Nat /\ version'[g] \in Nat
    BY <2>1, <2>2 DEF Txn, Inv, TypeOK, DatastoreTypeOK
  <2>4. /\ version[g] <= version'[g]
        /\ version[g] = version'[g] => \A k \in Key : GroupOf[k] = g => store[k] = store'[k]
    BY <2>2 DEF VersionsTell
  <2>5. x.ver <= version'[g] /\ (x.ver = version'[g] => x.ver = version[g] /\ version[g] = version'[g])
    <3> HIDE DEF x, g
    <3> QED BY <2>2, <2>3, <2>4
  <2>6. x.ver = version'[g] => \A k \in Key : GroupOf[k] = g => x.snap[k] = store'[k]
    BY <2>2, <2>4, <2>5
  <2>7. QED BY <2>1, <2>2, <2>5, <2>6 DEF SeesStore
<1>6. AsItSeems(v)' BY <1>1, <1>2, <1>3 DEF UserInv, AsItSeems, SameFor, InFunc
<1>7. QED BY <1>4, <1>5, <1>6 DEF UserInv

\* It is enough to show the invariant for the user that takes the step.
LEMMA OneUser ==
  ASSUME Inv, TypeOK', UnusedAreFresh', VersionsTell, NEW u \in Request, UserInv(u)',
         \A v \in Request \ {u} : SameFor(v)
  PROVE  Inv'
BY OtherKept DEF Inv

-----------------------------------------------------------------------------
(***************************************************************************)
(* The steps, one lemma per action.                                        *)
(***************************************************************************)

\* runInTransaction begins
LEMMA CallInv == ASSUME Inv, NEW u \in Request, Call(u) PROVE Inv'
<1> DEFINE t == Handle(u, calls[u] + 1)
<1>0. TypeOK /\ UnusedAreFresh /\ UserInv(u) BY DEF Inv
<1>1. calls[u] + 1 \in 1..MaxCalls BY <1>0, CallAssumption DEF Call, TypeOK
<1>2. t \in TxId BY <1>1, CallAssumption
<1>3. ~InFunc(u) /\ current[u] = <<>>
  BY <1>0 DEF Call, InFunc, UserInv, OwnTransaction
<1>4. pc'[u] = "begun" /\ calls'[u] = calls[u] + 1 /\ obj'[u] = NoInstance
  BY <1>0 DEF Call, Goto, TypeOK
<1>5. Tx(u)' = t BY <1>4 DEF Tx, Handle
<1> HIDE DEF t
<1>6. BeginTransaction(u, t) BY DEF Call, t
<1>7. txn[t] = FreshTxn /\ txn'[t] = [FreshTxn EXCEPT !.state = "active"]
  BY <1>0, <1>2, <1>6 DEF BeginTransaction, UnusedAreFresh, TypeOK, DatastoreTypeOK
<1>8. current' = [current EXCEPT ![u] = <<t>>] /\ <<t>> \in Seq(TxId)
  BY <1>2, <1>3, <1>6 DEF BeginTransaction
<1>9. TypeOK'
  <2>1. StoreTypeOK' BY <1>0, <1>2, <1>6, BeginTypes DEF TypeOK, DatastoreTypeOK, StoreTypeOK
  <2>2. DatastoreTypeOK' BY <1>0, <1>8, <2>1 DEF TypeOK, DatastoreTypeOK, StoreTypeOK
  <2>3. pc' \in [Request -> Step] BY <1>0 DEF Call, Goto, TypeOK, Step
  <2>4. calls' \in [Request -> 0..MaxCalls] BY <1>0, <1>1 DEF Call, TypeOK
  <2>5. obj' \in [Request -> Instance \cup {NoInstance}] BY <1>0 DEF Call, TypeOK
  <2>6. QED BY <1>0, <2>2, <2>3, <2>4, <2>5 DEF Call, TypeOK
<1>10. UnusedAreFresh'
  BY <1>0, <1>2, <1>6, <1>7 DEF BeginTransaction, UnusedAreFresh, TypeOK, DatastoreTypeOK, FreshTxn
<1>11. VersionsTell
  BY <1>0, <1>6 DEF BeginTransaction, VersionsTell, TypeOK, DatastoreTypeOK
<1>12. UserInv(u)'
  <2>1. Mine(u)' = [FreshTxn EXCEPT !.state = "active"] BY <1>5, <1>7 DEF Mine
  <2>2. /\ Mine(u)'.state = "active" /\ Mine(u)'.group = NoGroup
        /\ Mine(u)'.writes = [k \in Key |-> NoWrite]
    BY <2>1 DEF FreshTxn
  <2>3. current'[u] = <<t>> BY <1>0, <1>8 DEF TypeOK, DatastoreTypeOK
  <2>4. OwnTransaction(u)' BY <1>1, <1>4, <1>5, <2>2, <2>3 DEF OwnTransaction, InFunc
  <2>5. SeesStore(u)' BY <1>4 DEF SeesStore
  <2>6. AsItSeems(u)' BY <1>4, <2>2 DEF AsItSeems
  <2>7. QED BY <2>4, <2>5, <2>6 DEF UserInv
<1>13. ASSUME NEW v \in Request \ {u} PROVE SameFor(v)
  <2>1. UNCHANGED <<pc[v], calls[v], hasParent[v], obj[v], current[v]>>
    BY <1>0, <1>8 DEF Call, Goto, TypeOK, DatastoreTypeOK
  <2>2. InFunc(v) => txn'[Tx(v)] = txn[Tx(v)]
    <3>1. t # Tx(v) BY OwnHandles DEF t
    <3>2. InFunc(v) => Tx(v) \in TxId BY InTheFunction
    <3>3. QED BY <1>0, <1>6, <3>1, <3>2 DEF BeginTransaction, TypeOK, DatastoreTypeOK
  <2>3. Tx(v)' = Tx(v) BY <2>1 DEF Tx, Handle
  <2>4. QED BY <2>1, <2>2, <2>3 DEF SameFor
<1>14. QED BY <1>9, <1>10, <1>11, <1>12, <1>13, OneUser

\* A step of u that changes no transaction but its own leaves the others alone.
LEMMA OwnStep ==
  ASSUME Inv, NEW u \in Request, NEW x, InFunc(u), txn' = [txn EXCEPT ![Tx(u)] = x],
         UNCHANGED calls,
         \A v \in Request \ {u} : UNCHANGED <<pc[v], hasParent[v], obj[v], current[v]>>
  PROVE  /\ \A v \in Request \ {u} : SameFor(v)
         /\ txn'[Tx(u)] = x /\ Mine(u)' = x /\ Tx(u)' = Tx(u)
         /\ x.state # "unused" => UnusedAreFresh'
<1>1. Tx(u) \in TxId /\ txn \in [TxId -> Txn]
  BY InTheFunction DEF Inv, TypeOK, DatastoreTypeOK
<1>2. ASSUME NEW v \in Request \ {u} PROVE SameFor(v)
  <2>1. Tx(u) # Tx(v) BY OwnHandles
  <2>2. InFunc(v) => txn'[Tx(v)] = txn[Tx(v)] BY <1>1, <2>1, InTheFunction
  <2>3. Tx(v)' = Tx(v) BY DEF Tx
  <2>4. QED BY <2>2, <2>3 DEF SameFor
<1>3. txn'[Tx(u)] = x BY <1>1
<1>4. Tx(u)' = Tx(u) BY DEF Tx
<1>5. x.state # "unused" => UnusedAreFresh' BY <1>1 DEF Inv, UnusedAreFresh
<1>6. QED BY <1>2, <1>3, <1>4, <1>5 DEF Mine

\* The snapshot a first get takes is the store.
LEMMA FirstGet ==
  ASSUME Inv, NEW u \in Request, pc[u] = "begun", NEW k \in Key
  PROVE  LET x == Enrolled(Tx(u), GroupOf[k]) IN
         /\ x \in Txn /\ x.state = "active"
         /\ x.group = GroupOf[k] /\ x.ver = version[GroupOf[k]]
         /\ x.writes = Mine(u).writes
         /\ \A j \in Key : GroupOf[j] = GroupOf[k] => x.snap[j] = store[j]
         /\ Seen(Tx(u), k) = store[k]
<1>1. InFunc(u) BY DEF InFunc
<1>2. Mine(u).group = NoGroup BY DEF Inv, UserInv, AsItSeems
<1>3. Mine(u) \in Txn /\ Mine(u).state = "active" /\ Tx(u) \in TxId BY <1>1, InTheFunction
<1>4. Enrolled(Tx(u), GroupOf[k]) = [Mine(u) EXCEPT !.group = GroupOf[k],
                                       !.ver = version[GroupOf[k]], !.snap = SnapshotOf(GroupOf[k])]
  BY <1>2 DEF Enrolled, Mine
<1>5. GroupOf[k] \in Group BY GroupAssumption
<1>6. Enrolled(Tx(u), GroupOf[k]) \in Txn
  BY <1>3, <1>5, EnrolledTypes DEF Inv, TypeOK, DatastoreTypeOK, StoreTypeOK
<1>7. \A j \in Key : SnapshotOf(GroupOf[k])[j] = IF GroupOf[j] = GroupOf[k] THEN store[j] ELSE NoEntity
  BY DEF SnapshotOf
<1>8. QED BY <1>3, <1>4, <1>6, <1>7 DEF Txn, Seen

\* getByKeyName
LEMMA GetByKeyNameInv == ASSUME Inv, NEW u \in Request, GetByKeyName(u) PROVE Inv'
<1> DEFINE k == EntityKey(u)
           x == Enrolled(Tx(u), GroupOf[k])
<1>0. TypeOK /\ UserInv(u) BY DEF Inv
<1>1. InFunc(u) /\ pc[u] = "begun" BY DEF GetByKeyName, InFunc
<1>2. CurrentTxn(u) = Tx(u) /\ Tx(u) \in TxId BY <1>1, InTheFunction
<1>3. k \in Key /\ GroupOf[k] \in Group BY EntityKeyType, GroupAssumption
<1>4. /\ x \in Txn /\ x.state = "active"
      /\ x.group = GroupOf[k] /\ x.ver = version[GroupOf[k]]
      /\ x.writes = Mine(u).writes
      /\ \A j \in Key : GroupOf[j] = GroupOf[k] => x.snap[j] = store[j]
      /\ Seen(Tx(u), k) = store[k]
  BY <1>1, <1>3, FirstGet
<1>5. /\ txn' = [txn EXCEPT ![Tx(u)] = x]
      /\ UNCHANGED <<store, version, current, calls, hasParent, failures, others>>
  BY <1>2 DEF GetByKeyName, TxnGet
<1>6. \/ store[k] = NoEntity /\ pc' = [pc EXCEPT ![u] = "absent"] /\ obj' = obj
      \/ /\ store[k] # NoEntity /\ pc' = [pc EXCEPT ![u] = "found"]
         /\ obj' = [obj EXCEPT ![u] = [key |-> k, content |-> store[k]]]
  BY <1>2, <1>4 DEF GetByKeyName, Goto
<1> HIDE DEF x, k
<1>7. store[k] # NoEntity => [key |-> k, content |-> store[k]] \in Instance
  BY <1>0, <1>3 DEF TypeOK, DatastoreTypeOK, Content, Instance
<1>8. /\ \A v \in Request \ {u} : SameFor(v)
      /\ Mine(u)' = x /\ Tx(u)' = Tx(u)
      /\ UnusedAreFresh'
  <2>1. \A v \in Request \ {u} : UNCHANGED <<pc[v], hasParent[v], obj[v], current[v]>>
    BY <1>0, <1>5, <1>6 DEF TypeOK
  <2>2. QED BY <1>1, <1>4, <1>5, <2>1, OwnStep
<1>9. TypeOK'
  <2>1. txn' \in [TxId -> Txn] BY <1>0, <1>4, <1>5 DEF TypeOK, DatastoreTypeOK
  <2>2. pc' \in [Request -> Step] BY <1>0, <1>6 DEF TypeOK, Step
  <2>3. obj' \in [Request -> Instance \cup {NoInstance}] BY <1>0, <1>6, <1>7 DEF TypeOK
  <2>4. QED BY <1>0, <1>5, <2>1, <2>2, <2>3 DEF TypeOK, DatastoreTypeOK
<1>10. VersionsTell BY <1>0, <1>5 DEF VersionsTell, TypeOK, DatastoreTypeOK
<1>11. UserInv(u)'
  <2>1. pc'[u] \in {"absent", "found"} BY <1>0, <1>6 DEF TypeOK
  <2>2. OwnTransaction(u)'
    BY <1>0, <1>1, <1>4, <1>5, <1>8, <2>1 DEF UserInv, OwnTransaction, InFunc
  <2>3. SeesStore(u)'
    <3>1. version[GroupOf[k]] \in Nat BY <1>0, <1>3 DEF TypeOK, DatastoreTypeOK
    <3>2. QED BY <1>3, <1>4, <1>5, <1>8, <3>1 DEF SeesStore
  <2>4. EntityKey(u)' = k BY <1>5 DEF EntityKey, k
  <2>5. Mine(u).writes = [j \in Key |-> NoWrite] /\ obj[u] = NoInstance
    BY <1>0, <1>1 DEF UserInv, AsItSeems
  <2>6. CASE store[k] = NoEntity
    <3>1. pc'[u] = "absent" /\ obj'[u] = NoInstance BY <1>0, <1>6, <2>5, <2>6 DEF TypeOK
    <3>2. QED BY <1>3, <1>4, <1>8, <2>2, <2>3, <2>4, <2>5, <2>6, <3>1 DEF UserInv, AsItSeems
  <2>7. CASE store[k] # NoEntity
    <3>1. pc'[u] = "found" /\ obj'[u] \in Instance BY <1>0, <1>6, <1>7, <2>7 DEF TypeOK
    <3>2. QED BY <1>4, <1>8, <2>2, <2>3, <2>5, <3>1 DEF UserInv, AsItSeems
  <2>8. QED BY <2>6, <2>7
<1>12. QED BY <1>8, <1>9, <1>10, <1>11, OneUser

\* The constructor and put
LEMMA InsertInv == ASSUME Inv, NEW u \in Request, Insert(u) PROVE Inv'
<1> DEFINE k == EntityKey(u)
           w == [j \in Key |-> IF j = k THEN Tx(u) ELSE NoWrite]
           x == [Mine(u) EXCEPT !.writes = w]
           o == [key |-> k, content |-> Tx(u)]
<1>0. TypeOK /\ UserInv(u) BY DEF Inv
<1>1. InFunc(u) /\ pc[u] = "absent" BY DEF Insert, InFunc
<1>2. /\ CurrentTxn(u) = Tx(u) /\ Tx(u) \in TxId /\ Mine(u) \in Txn
      /\ Mine(u).state = "active"
  BY <1>1, InTheFunction
<1>3. k \in Key /\ GroupOf[k] \in Group BY EntityKeyType, GroupAssumption
<1>4. /\ Mine(u).group = GroupOf[k] /\ Mine(u).snap[k] = NoEntity
      /\ Mine(u).writes = [j \in Key |-> NoWrite]
  BY <1>0, <1>1 DEF UserInv, AsItSeems
<1>5. Tx(u) \in Value BY <1>2, UserAssumption
<1>6. /\ txn' = [txn EXCEPT ![Tx(u)] = x]
      /\ UNCHANGED <<store, version, current, calls, failures, others>>
  <2>1. PICK g \in Group :
          txn' = [txn EXCEPT ![Tx(u)] =
                    [Enrolled(Tx(u), g) EXCEPT
                       !.writes = [j \in Key |-> IF j \in {k} THEN Tx(u) ELSE @[j]]]]
    BY <1>2 DEF Insert, TxnWrite
  <2>2. Enrolled(Tx(u), g) = Mine(u) BY <1>3, <1>4, SentinelAssumption DEF Enrolled, Mine
  <2>3. [j \in Key |-> IF j \in {k} THEN Tx(u) ELSE Mine(u).writes[j]] = w BY <1>4
  <2>4. txn' = [txn EXCEPT ![Tx(u)] =
                  [Mine(u) EXCEPT
                     !.writes = [j \in Key |-> IF j \in {k} THEN Tx(u) ELSE Mine(u).writes[j]]]]
    BY <2>1, <2>2
  <2>5. QED BY <2>3, <2>4 DEF Insert, TxnWrite
<1>7. /\ obj' = [obj EXCEPT ![u] = o]
      /\ hasParent' = [hasParent EXCEPT ![u] = FALSE]
      /\ pc' = [pc EXCEPT ![u] = "inserted"]
  BY DEF Insert, Goto
<1>8. w \in Writes BY <1>5 DEF Writes, Content
<1>9. /\ x \in Txn /\ x.state = "active" /\ x.group = Mine(u).group /\ x.ver = Mine(u).ver
      /\ x.snap = Mine(u).snap /\ x.writes = w
  <2> HIDE DEF w
  <2> QED BY <1>2, <1>8 DEF Txn
<1>10. o \in Instance /\ o.key = k /\ o.content = Tx(u) BY <1>3, <1>5 DEF Instance
<1> HIDE DEF x, o
<1>11. /\ \A v \in Request \ {u} : SameFor(v)
       /\ Mine(u)' = x /\ Tx(u)' = Tx(u)
       /\ UnusedAreFresh'
  <2>1. \A v \in Request \ {u} : UNCHANGED <<pc[v], hasParent[v], obj[v], current[v]>>
    BY <1>0, <1>6, <1>7 DEF TypeOK
  <2>2. QED BY <1>1, <1>6, <1>9, <2>1, OwnStep
<1>12. TypeOK'
  <2>1. txn' \in [TxId -> Txn] BY <1>0, <1>6, <1>9 DEF TypeOK, DatastoreTypeOK
  <2>2. pc' \in [Request -> Step] /\ hasParent' \in [Request -> BOOLEAN]
    BY <1>0, <1>7 DEF TypeOK, Step
  <2>3. obj' \in [Request -> Instance \cup {NoInstance}] BY <1>0, <1>7, <1>10 DEF TypeOK
  <2>4. QED BY <1>0, <1>6, <2>1, <2>2, <2>3 DEF TypeOK, DatastoreTypeOK
<1>13. VersionsTell BY <1>0, <1>6 DEF VersionsTell, TypeOK, DatastoreTypeOK
<1>14. UserInv(u)'
  <2>1. pc'[u] = "inserted" /\ obj'[u] = o BY <1>0, <1>7 DEF TypeOK
  <2>2. OwnTransaction(u)'
    BY <1>0, <1>1, <1>6, <1>9, <1>11, <2>1 DEF UserInv, OwnTransaction, InFunc
  <2>3. SeesStore(u)'
    BY <1>0, <1>1, <1>6, <1>9, <1>11 DEF UserInv, SeesStore
  <2>4. AsItSeems(u)'
    BY <1>4, <1>9, <1>10, <1>11, <2>1 DEF AsItSeems
  <2>5. QED BY <2>2, <2>3, <2>4 DEF UserInv
<1>15. QED BY <1>11, <1>12, <1>13, <1>14, OneUser

-----------------------------------------------------------------------------
(***************************************************************************)
(* The end of a call.                                                      *)
(***************************************************************************)

\* A commit without writes changes nothing in the store; the commit of an
\* insert puts the call where there was nothing, and a new version says so.
LEMMA CommitEffect ==
  ASSUME Inv, NEW u \in Request, AtEnd(u), ApplyWrites(Tx(u))
  PROVE  /\ pc[u] = "found" => UNCHANGED <<store, version>>
         /\ pc[u] = "inserted" =>
              /\ obj[u].key \in Key /\ obj[u] = [key |-> obj[u].key, content |-> Tx(u)]
              /\ store[obj[u].key] = NoEntity
              /\ store' = [store EXCEPT ![obj[u].key] = Tx(u)]
         /\ VersionsTell
<1>0. TypeOK /\ UserInv(u) /\ InFunc(u) BY DEF Inv, AtEnd, InFunc
<1>1. store \in [Key -> Content] /\ version \in [Group -> Nat] BY <1>0 DEF TypeOK, DatastoreTypeOK
<1>2. CASE pc[u] = "found"
  <2>1. txn[Tx(u)].writes = [j \in Key |-> NoWrite]
    BY <1>0, <1>2 DEF UserInv, AsItSeems, Mine
  <2>2. Wrote(Tx(u)) = {} /\ ReadOnly(Tx(u)) BY <2>1 DEF Wrote, ReadOnly
  <2>3. store' = store /\ version' = version BY <1>1, <2>2 DEF ApplyWrites
  <2>4. VersionsTell BY <1>1, <2>3 DEF VersionsTell
  <2>5. QED BY <1>2, <2>3, <2>4
<1>3. CASE pc[u] = "inserted"
  <2> DEFINE k == obj[u].key
             g == GroupOf[k]
  <2>1. /\ obj[u] \in Instance /\ obj[u].content = Tx(u)
        /\ Mine(u).group = g /\ Mine(u).snap[k] = NoEntity
        /\ Mine(u).writes = [j \in Key |-> IF j = k THEN Tx(u) ELSE NoWrite]
    BY <1>0, <1>3 DEF UserInv, AsItSeems
  <2>2. k \in Key /\ obj[u] = [key |-> k, content |-> Tx(u)] BY <2>1 DEF Instance
  <2>3. Tx(u) \in Value /\ Tx(u) # NoWrite
    BY <1>0, InTheFunction, UserAssumption, SentinelAssumption
  <2>4. g \in Group BY <2>2, GroupAssumption
  <2>5. txn[Tx(u)].writes[k] = Tx(u) /\ Wrote(Tx(u)) = {k}
    BY <2>1, <2>2, <2>3 DEF Wrote, Mine
  <2>6. ~ReadOnly(Tx(u)) BY <2>5 DEF ReadOnly
  <2>7. Mine(u).ver = version[g] BY <2>1, <2>6 DEF ApplyWrites, UpToDate, Mine
  <2>8. store[k] = NoEntity BY <1>0, <1>3, <2>1, <2>2, <2>7 DEF UserInv, SeesStore
  <2>9. store' = [j \in Key |-> IF j = k THEN Tx(u) ELSE store[j]]
    BY <2>5 DEF ApplyWrites
  <2>10. version' = [version EXCEPT ![g] = @ + 1]
    BY <2>1, <2>6 DEF ApplyWrites, Mine
  <2> HIDE DEF g
  <2>11. VersionsTell
    <3> SUFFICES ASSUME NEW h \in Group
                 PROVE  /\ version[h] <= version'[h]
                        /\ version[h] = version'[h] =>
                             \A j \in Key : GroupOf[j] = h => store[j] = store'[j]
      BY DEF VersionsTell
    <3>1. CASE h = g BY <1>1, <2>4, <2>10, <3>1
    <3>2. CASE h # g BY <1>1, <2>9, <2>10, <3>2 DEF g
    <3>3. QED BY <3>1, <3>2
  <2>12. store' = [store EXCEPT ![k] = Tx(u)] BY <1>1, <2>9
  <2>13. QED BY <1>3, <2>2, <2>8, <2>11, <2>12
<1>4. QED BY <1>2, <1>3 DEF AtEnd

\* A user leaves the function, its transaction closed one way or another.
LEMMA LeaveInv ==
  ASSUME Inv, NEW u \in Request, InFunc(u), Leave(u, Tx(u)), NEW s \in {"threw", "returned"},
         Goto(u, s), NEW state \in {"rolledback", "failed", "committed"},
         txn' = [txn EXCEPT ![Tx(u)] = Closed(Tx(u), state)],
         store' \in [Key -> Content], version' \in [Group -> Nat], VersionsTell,
         NEW o \in Instance \cup {NoInstance}, obj' = [obj EXCEPT ![u] = o],
         s = "threw" => o = NoInstance,
         hasParent' \in [Request -> BOOLEAN],
         \A v \in Request \ {u} : hasParent'[v] = hasParent[v],
         UNCHANGED <<calls, others>>, failures' \in 0..MaxFailures
  PROVE  Inv'
<1>0. TypeOK BY DEF Inv
<1>1. Tx(u) \in TxId /\ current' = [current EXCEPT ![u] = <<>>] BY InTheFunction
<1>2. Closed(Tx(u), state) \in Txn /\ Closed(Tx(u), state).state # "unused"
  BY <1>0, <1>1, ClosedTypes DEF TypeOK, DatastoreTypeOK, StoreTypeOK, TxnState
<1>3. pc' = [pc EXCEPT ![u] = s] BY DEF Goto
<1>4. /\ \A v \in Request \ {u} : SameFor(v)
      /\ UnusedAreFresh'
  <2>1. \A v \in Request \ {u} : UNCHANGED <<pc[v], hasParent[v], obj[v], current[v]>>
    BY <1>0, <1>1, <1>3 DEF TypeOK, DatastoreTypeOK
  <2>2. QED BY <1>2, <2>1, OwnStep
<1>5. TypeOK'
  <2>1. <<>> \in Seq(TxId) BY EmptySeq
  <2>2. DatastoreTypeOK' BY <1>0, <1>1, <1>2, <2>1 DEF TypeOK, DatastoreTypeOK
  <2>3. pc' \in [Request -> Step] BY <1>0, <1>3 DEF TypeOK, Step
  <2>4. obj' \in [Request -> Instance \cup {NoInstance}] BY <1>0 DEF TypeOK
  <2>5. QED BY <1>0, <2>2, <2>3, <2>4 DEF TypeOK
<1>6. UserInv(u)'
  <2>1. pc'[u] = s /\ obj'[u] = o /\ current'[u] = <<>>
    BY <1>0, <1>1, <1>3 DEF TypeOK, DatastoreTypeOK
  <2>2. OwnTransaction(u)' /\ SeesStore(u)' /\ AsItSeems(u)'
    BY <2>1 DEF OwnTransaction, InFunc, SeesStore, AsItSeems
  <2>3. QED BY <2>2 DEF UserInv
<1>7. QED BY <1>4, <1>5, <1>6, OneUser

\* The store's part of a transaction that is dropped or applied.
LEMMA DropEffect ==
  ASSUME Inv, NEW t, NEW state, DropWrites(t, state)
  PROVE  /\ txn' = [txn EXCEPT ![t] = Closed(t, state)]
         /\ store' \in [Key -> Content] /\ version' \in [Group -> Nat] /\ VersionsTell
BY DEF DropWrites, Inv, TypeOK, DatastoreTypeOK, VersionsTell

\* What a successful commit (db.js:158) leaves behind.
LEMMA ApplyEffect ==
  ASSUME Inv, NEW u \in Request, AtEnd(u), ApplyWrites(Tx(u))
  PROVE  /\ txn' = [txn EXCEPT ![Tx(u)] = Closed(Tx(u), "committed")]
         /\ store' \in [Key -> Content] /\ version' \in [Group -> Nat] /\ VersionsTell
<1>1. InFunc(u) BY DEF AtEnd, InFunc
<1>2. Tx(u) \in TxId BY <1>1, InTheFunction
<1>3. StoreTypeOK BY DEF Inv, TypeOK, DatastoreTypeOK, StoreTypeOK
<1>4. StoreTypeOK' BY <1>2, <1>3, ApplyTypes
<1>5. QED BY <1>4, CommitEffect DEF ApplyWrites, StoreTypeOK

\* commit, and return obj
LEMMA CommitAndReturnInv == ASSUME Inv, NEW u \in Request, CommitAndReturn(u) PROVE Inv'
<1>1. AtEnd(u) /\ InFunc(u) BY DEF CommitAndReturn, AtEnd, InFunc
<1>2. CurrentTxn(u) = Tx(u) BY <1>1, InTheFunction
<1>3. /\ txn' = [txn EXCEPT ![Tx(u)] = Closed(Tx(u), "committed")]
      /\ store' \in [Key -> Content] /\ version' \in [Group -> Nat] /\ VersionsTell
  BY <1>1, <1>2, ApplyEffect DEF CommitAndReturn
<1>4. obj[u] \in Instance \cup {NoInstance} /\ obj' = [obj EXCEPT ![u] = obj[u]]
  BY DEF CommitAndReturn, Inv, TypeOK
<1>5. hasParent' \in [Request -> BOOLEAN] /\ failures' \in 0..MaxFailures
  BY DEF CommitAndReturn, Inv, TypeOK
<1>6. QED BY <1>1, <1>2, <1>3, <1>4, <1>5, LeaveInv DEF CommitAndReturn

\* commit throws
LEMMA CommitConflictInv == ASSUME Inv, NEW u \in Request, CommitConflict(u) PROVE Inv'
<1>1. InFunc(u) BY DEF CommitConflict, AtEnd, InFunc
<1>2. CurrentTxn(u) = Tx(u) BY <1>1, InTheFunction
<1>3. /\ txn' = [txn EXCEPT ![Tx(u)] = Closed(Tx(u), "failed")]
      /\ store' \in [Key -> Content] /\ version' \in [Group -> Nat] /\ VersionsTell
  BY <1>2, DropEffect DEF CommitConflict
<1>4. hasParent' \in [Request -> BOOLEAN] /\ failures' \in 0..MaxFailures
  BY DEF CommitConflict, Inv, TypeOK
<1>5. QED BY <1>1, <1>2, <1>3, <1>4, LeaveInv DEF CommitConflict

\* A call of the service fails
LEMMA FailureInv == ASSUME Inv, NEW u \in Request, Failure(u) PROVE Inv'
<1>1. InFunc(u) BY DEF Failure
<1>2. CurrentTxn(u) = Tx(u) BY <1>1, InTheFunction
<1>3. PICK state \in {"rolledback", "committed"} :
        /\ txn' = [txn EXCEPT ![Tx(u)] = Closed(Tx(u), state)]
        /\ store' \in [Key -> Content] /\ version' \in [Group -> Nat] /\ VersionsTell
  <2>1. CASE DropWrites(Tx(u), "rolledback") BY <2>1, DropEffect
  <2>2. CASE AtEnd(u) /\ ApplyWrites(Tx(u)) BY <2>2, ApplyEffect
  <2>3. QED BY <1>2, <2>1, <2>2 DEF Failure
<1>4. /\ hasParent' \in [Request -> BOOLEAN]
      /\ \A v \in Request \ {u} : hasParent'[v] = hasParent[v]
  BY DEF Failure, Inv, TypeOK
<1>5. failures' \in 0..MaxFailures BY CallAssumption DEF Failure, Inv, TypeOK
<1>6. QED BY <1>1, <1>2, <1>3, <1>4, <1>5, LeaveInv DEF Failure

\* The rest of the application
LEMMA OtherWriteInv == ASSUME Inv, NEW k \in Key, OtherWrite(k) PROVE Inv'
<1>0. TypeOK /\ UnusedAreFresh BY DEF Inv
<1>1. PICK content \in {Other, NoEntity} : DirectWrite({k}, content) BY DEF OtherWrite
<1>2. content \in Content BY UserAssumption DEF Content
<1>3. StoreTypeOK' /\ UNCHANGED <<txn, current>>
  BY <1>0, <1>1, <1>2, DirectTypes DEF TypeOK, DatastoreTypeOK, StoreTypeOK
<1>4. others' \in 0..MaxOther BY <1>0, CallAssumption DEF OtherWrite, TypeOK
<1>5. TypeOK'
  BY <1>0, <1>3, <1>4 DEF OtherWrite, callVars, TypeOK, DatastoreTypeOK, StoreTypeOK
<1>6. VersionsTell
  <2> SUFFICES ASSUME NEW g \in Group
               PROVE  /\ version[g] <= version'[g]
                      /\ version[g] = version'[g] =>
                           \A j \in Key : GroupOf[j] = g => store[j] = store'[j]
    BY DEF VersionsTell
  <2>1. version[g] \in Nat BY <1>0 DEF TypeOK, DatastoreTypeOK
  <2>2. version'[g] = IF GroupOf[k] = g THEN version[g] + 1 ELSE version[g]
    BY <1>1 DEF DirectWrite
  <2>3. \A j \in Key : j # k => store'[j] = store[j] BY <1>1 DEF DirectWrite
  <2>4. QED BY <2>1, <2>2, <2>3
<1>7. UnusedAreFresh' BY <1>0, <1>3 DEF UnusedAreFresh
<1>8. \A v \in Request : SameFor(v) BY <1>3 DEF OtherWrite, callVars, SameFor, Tx
<1>9. QED BY <1>5, <1>6, <1>7, <1>8, OtherKept DEF Inv

\* A step in which nothing happens keeps the invariant.
LEMMA StutterInv == ASSUME Inv, UNCHANGED vars PROVE Inv'
<1> USE DEF vars, dsVars, callVars
<1>1. TypeOK' /\ UnusedAreFresh' BY DEF Inv, TypeOK, DatastoreTypeOK, UnusedAreFresh
<1>2. VersionsTell BY DEF VersionsTell, Inv, TypeOK, DatastoreTypeOK
<1>3. \A v \in Request : SameFor(v) BY DEF SameFor, Tx
<1>4. QED BY <1>1, <1>2, <1>3, OtherKept DEF Inv

\* The invariant is inductive.
LEMMA StepInv == Inv /\ [Next]_vars => Inv'
BY CallInv, GetByKeyNameInv, InsertInv, CommitAndReturnInv, CommitConflictInv, FailureInv,
   OtherWriteInv, StutterInv
DEF Next, UserStep, AllDone

\* It holds before the first call.
LEMMA InitInv == Init => Inv
<1> SUFFICES ASSUME Init PROVE Inv OBVIOUS
<1>1. DatastoreTypeOK
  <2>1. FreshTxn \in Txn
    BY DEF FreshTxn, Txn, TxnState, NoSnapshot, Snapshot, Writes, Content
  <2>2. <<>> \in Seq(TxId) BY EmptySeq
  <2>3. QED BY <2>1, <2>2 DEF Init, DatastoreInit, DatastoreTypeOK, Content
<1>2. TypeOK
  <2>1. 0 \in 0..MaxCalls /\ 0 \in 0..MaxFailures /\ 0 \in 0..MaxOther BY CallAssumption
  <2>2. QED BY <1>1, <2>1, PolicyAssumption DEF Init, TypeOK, Step
<1>3. UnusedAreFresh BY DEF Init, DatastoreInit, UnusedAreFresh
<1>4. \A u \in Request : UserInv(u)
  BY DEF Init, DatastoreInit, UserInv, OwnTransaction, InFunc, SeesStore, AsItSeems
<1>5. QED BY <1>2, <1>3, <1>4 DEF Inv

-----------------------------------------------------------------------------
\* The invariant holds throughout.
THEOREM UsersInv == Spec => []Inv
<1>1. QED BY InitInv, StepInv, PTL DEF Spec

\* The variables of getOrInsert and the datastore have their types.
THEOREM TypeCorrect == Spec => []TypeOK
<1>1. Inv => TypeOK BY DEF Inv
<1>2. QED BY <1>1, UsersInv, PTL

-----------------------------------------------------------------------------
\* getOrInsert never replaces an entity (model.js:226-231).
THEOREM NothingReplaced == Spec => NeverOverwrites
<1> DEFINE Safe == \A k \in Key : store'[k] \in TxId /\ store'[k] # store[k]
                                    => store[k] = NoEntity
<1>1. ASSUME Inv, Next PROVE Safe \/ UNCHANGED vars
  <2>0. store \in [Key -> Content] BY <1>1 DEF Inv, TypeOK, DatastoreTypeOK
  <2>1. ASSUME NEW u \in Request, AtEnd(u), ApplyWrites(CurrentTxn(u)) PROVE Safe
    <3>1. CurrentTxn(u) = Tx(u) BY <1>1, <2>1, InTheFunction DEF AtEnd, InFunc
    <3>2. /\ pc[u] = "found" => UNCHANGED store
          /\ pc[u] = "inserted" => /\ store[obj[u].key] = NoEntity
                                   /\ store' = [store EXCEPT ![obj[u].key] = Tx(u)]
      BY <1>1, <2>1, <3>1, CommitEffect
    <3>3. QED BY <2>0, <2>1, <3>2 DEF AtEnd
  <2>2. ASSUME NEW k \in Key, OtherWrite(k) PROVE Safe
    <3>1. PICK content \in {Other, NoEntity} : DirectWrite({k}, content) BY <2>2 DEF OtherWrite
    <3>2. content \notin TxId BY UserAssumption, SentinelAssumption
    <3>3. \A j \in Key : store'[j] = IF j = k THEN content ELSE store[j]
      BY <3>1 DEF DirectWrite
    <3>4. QED BY <3>2, <3>3
  <2>3. ASSUME NEW u \in Request, UserStep(u) \/ Failure(u),
               ~(AtEnd(u) /\ ApplyWrites(CurrentTxn(u)))
        PROVE  UNCHANGED store
    <3>1. CASE Call(u) BY <3>1 DEF Call, BeginTransaction
    <3>2. CASE GetByKeyName(u) BY <3>2 DEF GetByKeyName, TxnGet
    <3>3. CASE Insert(u) BY <3>3 DEF Insert, TxnWrite
    <3>4. CASE CommitAndReturn(u) BY <2>3, <3>4 DEF CommitAndReturn
    <3>5. CASE CommitConflict(u) BY <3>5 DEF CommitConflict, DropWrites
    <3>6. CASE Failure(u) BY <2>3, <3>6 DEF Failure, DropWrites
    <3>7. QED BY <2>3, <3>1, <3>2, <3>3, <3>4, <3>5, <3>6 DEF UserStep
  <2>4. CASE AllDone BY <2>4 DEF AllDone
  <2>5. QED BY <1>1, <2>1, <2>2, <2>3, <2>4 DEF Next
<1>2. Inv /\ [Next]_vars => [Safe]_vars BY <1>1
<1>3. QED BY <1>2, UsersInv, PTL DEF Spec, NeverOverwrites

-----------------------------------------------------------------------------
(***************************************************************************)
(* The price of contention.  A call that can still throw has been paid for *)
(* as soon as its snapshot is out of date: each step that moves a version  *)
(* is a payment.                                                           *)
(***************************************************************************)
Stale(u) == pc[u] \in {"found", "absent", "inserted"} /\ Mine(u).ver # version[Mine(u).group]

Paid(u) == Failed(u) <= Payments /\ (Stale(u) => Failed(u) < Payments)

AllPaid == \A u \in Request : Paid(u)

\* A step takes no payment back, and pays when it moves a version.
StepPays == Payments <= Payments' /\ (version' # version => Payments < Payments')

\* Calls and payments are numbers.
LEMMA Counts ==
  ASSUME TypeOK
  PROVE  Payments \in Nat /\ \A u \in Request : Failed(u) \in Int
<1>1. failures \in Nat /\ others \in Nat BY CallAssumption DEF TypeOK
<1>2. \A k : Present(k) \in 0..1 BY DEF Present
<1>3. Payments \in Nat BY <1>1, <1>2 DEF Payments
<1>4. \A u \in Request : Failed(u) \in Int BY CallAssumption DEF Failed, TypeOK
<1>5. QED BY <1>3, <1>4

\* So they are after a step.
LEMMA CountsAfter == ASSUME TypeOK' PROVE Payments' \in Nat
<1>1. failures' \in Nat /\ others' \in Nat BY CallAssumption DEF TypeOK
<1>2. \A k : Present(k)' \in 0..1 BY DEF Present
<1>3. QED BY <1>1, <1>2 DEF Payments

\* Neither the store nor the counters change: nothing is paid or taken back.
LEMMA NothingPaid ==
  ASSUME TypeOK, UNCHANGED <<store, version, failures, others>>
  PROVE  StepPays /\ Payments' = Payments
<1>1. Payments' = Payments BY DEF Payments, Present
<1>2. QED BY <1>1, Counts DEF StepPays

\* A user whom a step does not touch is still paid for.
LEMMA OtherPaid ==
  ASSUME TypeOK, TypeOK', StepPays, NEW v \in Request, SameFor(v), Paid(v)
  PROVE  Paid(v)'
<1>1. Failed(v)' = Failed(v) BY DEF SameFor, Failed
<1>2. Payments \in Nat /\ Payments' \in Nat /\ Failed(v) \in Int /\ Failed(v)' \in Int
  BY Counts, CountsAfter, <1>1
<1>3. Stale(v)' /\ version' = version => Stale(v)
  BY DEF SameFor, Stale, Mine, InFunc, Tx
<1>4. QED BY <1>1, <1>2, <1>3 DEF Paid, StepPays

\* A user that takes a step has thrown no more often than before, or once more
\* and that was paid for; it is not stale after the step, or was before.
LEMMA OwnPaid ==
  ASSUME TypeOK, TypeOK', StepPays, NEW u \in Request, Paid(u),
         \/ Failed(u)' = Failed(u)
         \/ Failed(u)' = Failed(u) + 1 /\ (Stale(u) \/ Payments < Payments'),
         Stale(u)' => Stale(u) /\ Failed(u)' = Failed(u)
  PROVE  Paid(u)'
<1>1. Payments \in Nat /\ Payments' \in Nat /\ Failed(u) \in Int BY Counts, CountsAfter
<1>2. QED BY <1>1 DEF Paid, StepPays

\* What a commit pays.
LEMMA CommitPays ==
  ASSUME Inv, NEW u \in Request, AtEnd(u), ApplyWrites(Tx(u)), failures' >= failures,
         failures' \in Nat, UNCHANGED others
  PROVE  StepPays /\ (failures' # failures => Payments < Payments')
<1>1. failures \in Nat /\ others \in Nat BY CallAssumption DEF Inv, TypeOK
<1>2. \A k : Present(k) \in 0..1 /\ Present(k)' \in 0..1 BY DEF Present
<1>3. CASE pc[u] = "found"
  <2>1. UNCHANGED <<store, version>> BY <1>3, CommitEffect
  <2>2. Present(RootKey)' = Present(RootKey) /\ Present(ChildKey)' = Present(ChildKey)
    BY <2>1 DEF Present
  <2>3. QED BY <1>1, <1>2, <2>1, <2>2 DEF StepPays, Payments
<1>4. CASE pc[u] = "inserted"
  <2>1. PICK k \in Key : store[k] = NoEntity /\ store' = [store EXCEPT ![k] = Tx(u)]
    BY <1>4, CommitEffect
  <2>2. store \in [Key -> Content] /\ Tx(u) # NoEntity
    BY <1>4, InTheFunction, UserAssumption, SentinelAssumption DEF InFunc, Inv, TypeOK, DatastoreTypeOK
  <2>3. Present(k) = 0 /\ Present(k)' = 1 BY <2>1, <2>2 DEF Present
  <2>4. \A j \in Key : j # k => Present(j)' = Present(j) BY <2>1, <2>2 DEF Present
  <2>5. QED BY <1>1, <1>2, <2>3, <2>4, KeyAssumption DEF StepPays, Payments
<1>5. QED BY <1>3, <1>4 DEF AtEnd

\* Everybody stays paid for in a step of one user.
LEMMA UserPaid ==
  ASSUME Inv, Inv', AllPaid, NEW u \in Request, UserStep(u) \/ Failure(u)
  PROVE  AllPaid'
<1>0. TypeOK /\ TypeOK' /\ UserInv(u) /\ Paid(u) BY DEF Inv, AllPaid
<1>1. ASSUME NEW v \in Request \ {u} PROVE SameFor(v)
  <2>1. UNCHANGED <<pc[v], calls[v], hasParent[v], obj[v]>>
    BY <1>0 DEF UserStep, Call, GetByKeyName, Insert, CommitAndReturn, CommitConflict, Failure,
                Goto, TypeOK
  <2>2. current'[v] = current[v] BY <1>0 DEF TypeOK, DatastoreTypeOK,
       UserStep, Call, GetByKeyName, Insert, CommitAndReturn, CommitConflict, Failure,
       BeginTransaction, TxnGet, TxnWrite, Leave
  <2>3. InFunc(v) => txn'[Tx(v)] = txn[Tx(v)]
    <3> SUFFICES ASSUME InFunc(v) PROVE txn'[Tx(v)] = txn[Tx(v)] OBVIOUS
    <3>1. Tx(v) \in TxId /\ Tx(v) # Tx(u) /\ Tx(v) # Handle(u, calls[u] + 1)
      BY InTheFunction, OwnHandles
    <3>2. InFunc(u) => CurrentTxn(u) = Tx(u) BY InTheFunction
    <3>3. txn \in [TxId -> Txn] BY <1>0 DEF TypeOK, DatastoreTypeOK
    <3>4. CASE Call(u) BY <3>1, <3>3, <3>4 DEF Call, BeginTransaction
    <3>5. CASE ~Call(u)
      <4>1. InFunc(u)
        BY <3>5 DEF UserStep, GetByKeyName, Insert, CommitAndReturn, CommitConflict, Failure,
                    AtEnd, InFunc
      <4>2. QED
        BY <3>1, <3>2, <3>3, <3>5, <4>1
        DEF UserStep, GetByKeyName, Insert, CommitAndReturn, CommitConflict, Failure,
            TxnGet, TxnWrite, ApplyWrites, DropWrites
    <3>6. QED BY <3>4, <3>5
  <2>4. QED BY <2>1, <2>2, <2>3 DEF SameFor, Tx
<1>2. StepPays /\ Paid(u)'
  <2>1. CASE Call(u)
    <3>1. UNCHANGED <<store, version, failures, others>> BY <2>1 DEF Call, BeginTransaction
    <3>2. StepPays BY <1>0, <3>1, NothingPaid
    <3>3. pc'[u] = "begun" /\ calls'[u] = calls[u] + 1 BY <1>0, <2>1 DEF Call, Goto, TypeOK
    <3>4. Failed(u)' = Failed(u)
      BY <1>0, <2>1, <3>3, CallAssumption DEF Call, Failed, TypeOK
    <3>5. ~Stale(u)' BY <3>3 DEF Stale
    <3>6. QED BY <1>0, <3>2, <3>4, <3>5, OwnPaid
  <2>2. CASE GetByKeyName(u)
    <3> DEFINE k == EntityKey(u)
               x == Enrolled(Tx(u), GroupOf[k])
    <3>1. UNCHANGED <<store, version, failures, others, calls>>
      BY <2>2 DEF GetByKeyName, TxnGet
    <3>2. StepPays BY <1>0, <3>1, NothingPaid
    <3>3. pc[u] = "begun" /\ pc'[u] \in {"found", "absent"}
      BY <1>0, <2>2 DEF GetByKeyName, Goto, TypeOK
    <3>4. Failed(u)' = Failed(u) BY <3>1, <3>3 DEF Failed
    <3>5. x.group = GroupOf[k] /\ x.ver = version[GroupOf[k]]
      BY <3>3, FirstGet, EntityKeyType
    <3>6. CurrentTxn(u) = Tx(u) /\ Tx(u) \in TxId BY <3>3, InTheFunction DEF InFunc
    <3>7. Mine(u)' = x
      BY <1>0, <2>2, <3>1, <3>6 DEF GetByKeyName, TxnGet, Mine, Tx, TypeOK, DatastoreTypeOK
    <3>8. ~Stale(u)' BY <3>1, <3>5, <3>7 DEF Stale
    <3>9. QED BY <1>0, <3>2, <3>4, <3>8, OwnPaid
  <2>3. CASE Insert(u)
    <3>1. UNCHANGED <<store, version, failures, others, calls>> BY <2>3 DEF Insert, TxnWrite
    <3>2. StepPays BY <1>0, <3>1, NothingPaid
    <3>3. pc[u] = "absent" /\ pc'[u] = "inserted" BY <1>0, <2>3 DEF Insert, Goto, TypeOK
    <3>4. Failed(u)' = Failed(u) BY <3>1, <3>3 DEF Failed
    <3>5. CurrentTxn(u) = Tx(u) /\ Tx(u) \in TxId /\ Mine(u) \in Txn
      BY <3>3, InTheFunction DEF InFunc
    <3>6. Mine(u).group # NoGroup
      BY <1>0, <3>3, SentinelAssumption DEF UserInv, SeesStore
    <3>7. \A g : Enrolled(Tx(u), g) = Mine(u) BY <3>6 DEF Enrolled, Mine
    <3>8. Mine(u)'.group = Mine(u).group /\ Mine(u)'.ver = Mine(u).ver
      <4>1. PICK w : txn' = [txn EXCEPT ![Tx(u)] = [Mine(u) EXCEPT !.writes = w]]
        BY <2>3, <3>5, <3>7 DEF Insert, TxnWrite
      <4>2. Mine(u)' = [Mine(u) EXCEPT !.writes = w]
        BY <1>0, <3>1, <3>5, <4>1 DEF Mine, Tx, TypeOK, DatastoreTypeOK
      <4>3. QED BY <3>5, <4>2 DEF Txn
    <3>9. Stale(u)' => Stale(u) BY <3>1, <3>3, <3>8 DEF Stale
    <3>10. QED BY <1>0, <3>2, <3>4, <3>9, OwnPaid
  <2>4. CASE CommitAndReturn(u)
    <3>1. AtEnd(u) /\ CurrentTxn(u) = Tx(u) BY <2>4, InTheFunction DEF CommitAndReturn, AtEnd, InFunc
    <3>2. ApplyWrites(Tx(u)) /\ UNCHANGED <<failures, others, calls>>
      BY <2>4, <3>1 DEF CommitAndReturn
    <3>3. failures \in Nat BY <1>0, CallAssumption DEF TypeOK
    <3>4. StepPays BY <3>1, <3>2, <3>3, CommitPays
    <3>5. pc'[u] = "returned" BY <1>0, <2>4 DEF CommitAndReturn, Goto, TypeOK
    <3>6. Failed(u)' = Failed(u) /\ ~Stale(u)' BY <3>1, <3>2, <3>5 DEF Failed, Stale, AtEnd
    <3>7. QED BY <1>0, <3>4, <3>6, OwnPaid
  <2>5. CASE CommitConflict(u)
    <3>1. AtEnd(u) /\ CurrentTxn(u) = Tx(u) BY <2>5, InTheFunction DEF CommitConflict, AtEnd, InFunc
    <3>2. UNCHANGED <<store, version, failures, others, calls>>
      BY <2>5 DEF CommitConflict, DropWrites
    <3>3. StepPays BY <1>0, <3>2, NothingPaid
    <3>4. Stale(u) BY <2>5, <3>1 DEF CommitConflict, UpToDate, Stale, AtEnd, Mine
    <3>5. pc'[u] = "threw" BY <1>0, <2>5 DEF CommitConflict, Goto, TypeOK
    <3>6. Failed(u)' = Failed(u) + 1 /\ ~Stale(u)'
      BY <1>0, <3>1, <3>2, <3>5, CallAssumption DEF Failed, Stale, AtEnd, TypeOK
    <3>7. QED BY <1>0, <3>3, <3>4, <3>6, OwnPaid
  <2>6. CASE Failure(u)
    <3>1. InFunc(u) /\ CurrentTxn(u) = Tx(u) BY <2>6, InTheFunction DEF Failure
    <3>2. failures \in Nat /\ failures' = failures + 1 /\ UNCHANGED <<others, calls>>
      BY <1>0, <2>6, CallAssumption DEF Failure, TypeOK
    <3>3. StepPays /\ Payments < Payments'
      <4>1. CASE DropWrites(Tx(u), "rolledback")
        <5>1. UNCHANGED <<store, version>> BY <4>1 DEF DropWrites
        <5>2. Present(RootKey)' = Present(RootKey) /\ Present(ChildKey)' = Present(ChildKey)
          BY <5>1 DEF Present
        <5>3. Payments \in Nat /\ others \in Nat /\ Present(RootKey) \in 0..1 /\ Present(ChildKey) \in 0..1
          BY <1>0, Counts, CallAssumption DEF TypeOK, Present
        <5>4. QED BY <3>2, <5>1, <5>2, <5>3 DEF StepPays, Payments
      <4>2. CASE AtEnd(u) /\ ApplyWrites(Tx(u)) BY <3>2, <4>2, CommitPays
      <4>3. QED BY <2>6, <3>1, <4>1, <4>2 DEF Failure
    <3>4. pc'[u] = "threw" BY <1>0, <2>6 DEF Failure, Goto, TypeOK
    <3>5. Failed(u)' = Failed(u) + 1 /\ ~Stale(u)'
      BY <1>0, <3>1, <3>2, <3>4, CallAssumption DEF Failed, Stale, InFunc, TypeOK
    <3>6. QED BY <1>0, <3>3, <3>5, OwnPaid
  <2>7. QED BY <2>1, <2>2, <2>3, <2>4, <2>5, <2>6 DEF UserStep
<1>3. QED BY <1>0, <1>1, <1>2, OtherPaid DEF AllPaid

\* A write from outside pays for all it makes stale.
LEMMA OtherWritePaid ==
  ASSUME Inv, Inv', AllPaid, NEW k \in Key, OtherWrite(k)
  PROVE  AllPaid'
<1>0. TypeOK /\ TypeOK' BY DEF Inv
<1>1. PICK content : DirectWrite({k}, content) BY DEF OtherWrite
<1>2. failures \in Nat /\ others \in Nat /\ failures' = failures /\ others' = others + 1
  BY <1>0, CallAssumption DEF OtherWrite, TypeOK
<1>3. \A j : Present(j) \in 0..1 /\ Present(j)' \in 0..1 BY DEF Present
<1>4. \A j \in Key \ {k} : Present(j)' = Present(j) BY <1>1 DEF DirectWrite, Present
<1>5. StepPays BY <1>2, <1>3, <1>4, KeyAssumption DEF StepPays, Payments
<1>6. \A v \in Request : SameFor(v)
  BY <1>1 DEF OtherWrite, callVars, DirectWrite, SameFor, Tx
<1>7. QED BY <1>0, <1>5, <1>6, OtherPaid DEF AllPaid

\* However many users there are, each call that threw is paid for by a failure
\* or a write (model.js:220-235).
THEOREM RetriesPaid == Spec => []RetriesPaidFor
<1>1. Init => AllPaid
  <2> SUFFICES ASSUME Init PROVE AllPaid OBVIOUS
  <2>1. TypeOK BY InitInv DEF Inv
  <2>2. Payments \in Nat BY <2>1, Counts
  <2>3. 0 <= Payments BY <2>2
  <2>4. \A u \in Request : Failed(u) = 0 BY DEF Init, Failed
  <2>5. \A u \in Request : ~Stale(u) BY DEF Init, Stale
  <2>6. QED BY <2>3, <2>4, <2>5 DEF AllPaid, Paid
<1>2. Inv /\ Inv' /\ AllPaid /\ [Next]_vars => AllPaid'
  <2> SUFFICES ASSUME Inv, Inv', AllPaid, [Next]_vars PROVE AllPaid' OBVIOUS
  <2>1. CASE UNCHANGED vars
    <3>1. UNCHANGED <<store, version, failures, others>> /\ \A v \in Request : SameFor(v)
      BY <2>1 DEF vars, dsVars, callVars, SameFor, Tx
    <3>2. StepPays BY <3>1, NothingPaid DEF Inv
    <3>3. QED BY <3>1, <3>2, OtherPaid DEF AllPaid, Inv
  <2>2. QED BY <2>1, UserPaid, OtherWritePaid DEF Next, AllDone
<1>3. AllPaid => RetriesPaidFor BY DEF AllPaid, Paid, RetriesPaidFor
<1>4. QED BY <1>1, <1>2, <1>3, UsersInv, PTL DEF Spec

\* So a user who calls again is served after a number of calls that does not
\* depend on how many others there are (model.js:220-235).
THEOREM CallsBounded ==
  Spec => [](\A u \in Request : calls[u] <= 3 + failures + 2 * others)
<1>1. TypeOK /\ RetriesPaidFor => \A u \in Request : calls[u] <= 3 + failures + 2 * others
  <2> SUFFICES ASSUME TypeOK, RetriesPaidFor, NEW u \in Request
               PROVE  calls[u] <= 3 + failures + 2 * others
    OBVIOUS
  <2>1. failures \in Nat /\ others \in Nat /\ calls[u] \in Nat BY CallAssumption DEF TypeOK
  <2>2. Present(RootKey) \in 0..1 /\ Present(ChildKey) \in 0..1 BY DEF Present
  <2>3. calls[u] <= Failed(u) + 1 BY <2>1 DEF Failed
  <2>4. Failed(u) <= Payments /\ Failed(u) \in Int BY <2>1 DEF RetriesPaidFor, Failed
  <2>5. QED BY <2>1, <2>2, <2>3, <2>4 DEF Payments
<1>2. QED BY <1>1, TypeCorrect, RetriesPaid, PTL

-----------------------------------------------------------------------------
(***************************************************************************)
(* The refinement.  Holdings are what the mapping makes of users' states.  *)
(***************************************************************************)
Holdings == [u \in Request |-> IF pc[u] \in {"found", "returned"} THEN obj[u] ELSE NoInstance]

OnceStep == [Once!OnceNext]_<<store, Holdings>>

\* The steps of InsertOnce, as they look from here.
LEMMA FindStep ==
  ASSUME NEW u \in Request, NEW k \in Key, Holdings[u] = NoInstance, store[k] # NoEntity,
         Holdings' = [Holdings EXCEPT ![u] = [key |-> k, content |-> store[k]]],
         UNCHANGED store
  PROVE  OnceStep
BY DEF OnceStep, Once!OnceNext, Once!Find, Holdings

\* One call inserts where nothing was, told or not: a step of InsertOnce.
LEMMA CreateStep ==
  ASSUME NEW u \in Request, NEW k \in Key, calls[u] \in 1..MaxCalls,
         Holdings[u] = NoInstance, store[k] = NoEntity,
         store' = [store EXCEPT ![k] = Tx(u)],
         Holdings' \in {Holdings, [Holdings EXCEPT ![u] = [key |-> k, content |-> Tx(u)]]}
  PROVE  OnceStep
BY DEF OnceStep, Once!OnceNext, Once!Create, Tx, Handle, Holdings

\* A user that starts over holds nothing: a step of InsertOnce.
LEMMA ForgetStep ==
  ASSUME NEW u \in Request, Holdings' = [Holdings EXCEPT ![u] = NoInstance], UNCHANGED store
  PROVE  OnceStep
BY DEF OnceStep, Once!OnceNext, Once!Forget, Holdings

\* The rest of the application writes: a step of InsertOnce.
LEMMA OtherStep ==
  ASSUME NEW k \in Key, NEW content \in {Other, NoEntity},
         store' = [store EXCEPT ![k] = content], UNCHANGED Holdings
  PROVE  OnceStep
BY DEF OnceStep, Once!OnceNext, Once!OtherWrite, Holdings

\* Neither the store nor what users hold changes: a stutter of InsertOnce.
LEMMA SameStep == ASSUME UNCHANGED <<store, Holdings>> PROVE OnceStep
BY DEF OnceStep

\* What a user holds after it has gone somewhere with an instance, or without.
LEMMA HoldingsAfter ==
  ASSUME Inv, NEW u \in Request, NEW s, Goto(u, s), NEW o, obj' = [obj EXCEPT ![u] = o]
  PROVE  /\ s \in {"found", "returned"} => Holdings' = [Holdings EXCEPT ![u] = o]
         /\ s \notin {"found", "returned"} => Holdings' = [Holdings EXCEPT ![u] = NoInstance]
<1>1. pc' = [pc EXCEPT ![u] = s] /\ pc \in [Request -> Step]
      /\ obj \in [Request -> Instance \cup {NoInstance}]
  BY DEF Goto, Inv, TypeOK
<1>2. pc'[u] = s /\ obj'[u] = o BY <1>1
<1>3. \A v \in Request \ {u} : pc'[v] = pc[v] /\ obj'[v] = obj[v] BY <1>1
<1>4. QED BY <1>2, <1>3 DEF Holdings

\* A user not in one of these states holds nothing.
LEMMA HoldsNothing ==
  ASSUME NEW u \in Request, pc[u] \notin {"found", "returned"}
  PROVE  Holdings[u] = NoInstance /\ [Holdings EXCEPT ![u] = NoInstance] = Holdings
<1>1. Holdings[u] = NoInstance BY DEF Holdings
<1>2. [Holdings EXCEPT ![u] = Holdings[u]] = Holdings BY DEF Holdings
<1>3. QED BY <1>1, <1>2

\* A user in the function has called it.
LEMMA CallsMade == ASSUME Inv, NEW u \in Request, InFunc(u) PROVE calls[u] \in 1..MaxCalls
BY DEF Inv, UserInv, OwnTransaction

\* Calling getOrInsert is a stutter of InsertOnce.
LEMMA CallOnce == ASSUME Inv, NEW u \in Request, Call(u) PROVE OnceStep
<1>1. pc[u] \notin {"found", "returned"} BY DEF Call
<1>2. Holdings' = Holdings BY <1>1, HoldingsAfter, HoldsNothing DEF Call
<1>3. UNCHANGED store BY DEF Call, BeginTransaction
<1>4. QED BY <1>2, <1>3, SameStep

\* Finding the entity is finding it in the store: the snapshot is taken then.
LEMMA GetOnce == ASSUME Inv, NEW u \in Request, GetByKeyName(u) PROVE OnceStep
<1> DEFINE k == EntityKey(u)
<1>1. pc[u] = "begun" /\ InFunc(u) BY DEF GetByKeyName, InFunc
<1>2. CurrentTxn(u) = Tx(u) /\ k \in Key BY <1>1, InTheFunction, EntityKeyType
<1>3. Seen(CurrentTxn(u), k) = store[k] BY <1>1, <1>2, FirstGet
<1>4. UNCHANGED store BY DEF GetByKeyName, TxnGet
<1>5. Holdings[u] = NoInstance /\ [Holdings EXCEPT ![u] = NoInstance] = Holdings
  BY <1>1, HoldsNothing
<1> HIDE DEF k
<1>6. CASE store[k] = NoEntity
  <2>1. Goto(u, "absent") /\ obj' = obj BY <1>3, <1>6 DEF GetByKeyName, k
  <2>2. obj' = [obj EXCEPT ![u] = obj[u]] BY <2>1 DEF Inv, TypeOK
  <2>3. Holdings' = Holdings BY <1>5, <2>1, <2>2, HoldingsAfter
  <2>4. QED BY <1>4, <2>3, SameStep
<1>7. CASE store[k] # NoEntity
  <2>1. /\ Goto(u, "found")
        /\ obj' = [obj EXCEPT ![u] = [key |-> k, content |-> store[k]]]
    BY <1>3, <1>7 DEF GetByKeyName, k
  <2>2. Holdings' = [Holdings EXCEPT ![u] = [key |-> k, content |-> store[k]]]
    BY <2>1, HoldingsAfter
  <2>3. QED BY <1>2, <1>4, <1>5, <1>7, <2>2, FindStep
<1>8. QED BY <1>6, <1>7

\* The buffered put is a stutter of InsertOnce.
LEMMA InsertOnceStep == ASSUME Inv, NEW u \in Request, Insert(u) PROVE OnceStep
<1>1. pc[u] \notin {"found", "returned"} BY DEF Insert
<1>2. Holdings' = Holdings BY <1>1, HoldingsAfter, HoldsNothing DEF Insert
<1>3. UNCHANGED store BY DEF Insert, TxnWrite
<1>4. QED BY <1>2, <1>3, SameStep

\* An insert takes effect when it is committed.
LEMMA CommitOnce == ASSUME Inv, NEW u \in Request, CommitAndReturn(u) PROVE OnceStep
<1>1. AtEnd(u) BY DEF CommitAndReturn
<1>2. CurrentTxn(u) = Tx(u) BY <1>1, InTheFunction DEF AtEnd, InFunc
<1>3. obj' = [obj EXCEPT ![u] = obj[u]] BY DEF CommitAndReturn, Inv, TypeOK
<1>4. Holdings' = [Holdings EXCEPT ![u] = obj[u]] BY <1>3, HoldingsAfter DEF CommitAndReturn
<1>5. ApplyWrites(Tx(u)) BY <1>2 DEF CommitAndReturn
<1>6. CASE pc[u] = "found"
  <2>1. Holdings[u] = obj[u] BY <1>6 DEF Holdings
  <2>2. [Holdings EXCEPT ![u] = Holdings[u]] = Holdings BY DEF Holdings
  <2>3. UNCHANGED store BY <1>1, <1>5, <1>6, CommitEffect
  <2>4. QED BY <1>4, <2>1, <2>2, <2>3, SameStep
<1>7. CASE pc[u] = "inserted"
  <2> DEFINE k == obj[u].key
  <2>1. /\ k \in Key /\ obj[u] = [key |-> k, content |-> Tx(u)]
        /\ store[k] = NoEntity /\ store' = [store EXCEPT ![k] = Tx(u)]
    BY <1>1, <1>5, <1>7, CommitEffect
  <2>2. Holdings[u] = NoInstance BY <1>7, HoldsNothing
  <2> HIDE DEF k
  <2>3. Holdings' = [Holdings EXCEPT ![u] = [key |-> k, content |-> Tx(u)]] BY <1>4, <2>1
  <2>4. calls[u] \in 1..MaxCalls BY <1>1, CallsMade DEF AtEnd, InFunc
  <2>5. QED BY <2>1, <2>2, <2>3, <2>4, CreateStep
<1>8. QED BY <1>1, <1>6, <1>7 DEF AtEnd

\* A conflict makes the user forget what it was about to be given.
LEMMA ConflictOnce == ASSUME Inv, NEW u \in Request, CommitConflict(u) PROVE OnceStep
<1>1. Holdings' = [Holdings EXCEPT ![u] = NoInstance] BY HoldingsAfter DEF CommitConflict
<1>2. UNCHANGED store BY DEF CommitConflict, DropWrites
<1>3. QED BY <1>1, <1>2, ForgetStep

\* A commit that throws may have created the entity all the same.
LEMMA FailureOnce == ASSUME Inv, NEW u \in Request, Failure(u) PROVE OnceStep
<1>1. Holdings' = [Holdings EXCEPT ![u] = NoInstance] BY HoldingsAfter DEF Failure
<1>2. CurrentTxn(u) = Tx(u) BY InTheFunction DEF Failure
<1>3. CASE UNCHANGED store BY <1>1, <1>3, ForgetStep
<1>4. CASE AtEnd(u) /\ ApplyWrites(Tx(u))
  <2>1. CASE pc[u] = "found"
    <3>1. UNCHANGED store BY <1>4, <2>1, CommitEffect
    <3>2. QED BY <1>1, <3>1, ForgetStep
  <2>2. CASE pc[u] = "inserted"
    <3> DEFINE k == obj[u].key
    <3>1. k \in Key /\ store[k] = NoEntity /\ store' = [store EXCEPT ![k] = Tx(u)]
      BY <1>4, <2>2, CommitEffect
    <3>2. Holdings[u] = NoInstance /\ Holdings' = Holdings BY <1>1, <2>2, HoldsNothing
    <3> HIDE DEF k
    <3>3. calls[u] \in 1..MaxCalls BY CallsMade DEF Failure
    <3>4. QED BY <3>1, <3>2, <3>3, CreateStep
  <2>3. QED BY <1>4, <2>1, <2>2 DEF AtEnd
<1>5. QED BY <1>2, <1>3, <1>4 DEF Failure, DropWrites

\* A write from outside is one of InsertOnce.
LEMMA OtherOnce == ASSUME Inv, NEW k \in Key, OtherWrite(k) PROVE OnceStep
<1>1. PICK content \in {Other, NoEntity} : DirectWrite({k}, content) BY DEF OtherWrite
<1>2. store \in [Key -> Content] BY DEF Inv, TypeOK, DatastoreTypeOK
<1>3. store' = [j \in Key |-> IF j = k THEN content ELSE store[j]] BY <1>1 DEF DirectWrite
<1>4. store' = [store EXCEPT ![k] = content] BY <1>2, <1>3
<1>5. UNCHANGED Holdings BY DEF OtherWrite, callVars, Holdings
<1>6. QED BY <1>4, <1>5, OtherStep

\* getOrInsert over the datastore implements the one-step get-or-insert
\* (model.js:208-235).
THEOREM Implements == Spec => InsertsOnce
<1>1. Init => Once!OnceInit
  BY DEF Init, DatastoreInit, Once!OnceInit
<1>2. Inv /\ [Next]_vars => OnceStep
  <2>1. CASE UNCHANGED vars BY <2>1, SameStep DEF vars, dsVars, callVars, Holdings
  <2>2. QED
    BY <2>1, CallOnce, GetOnce, InsertOnceStep, CommitOnce, ConflictOnce, FailureOnce, OtherOnce
    DEF Next, UserStep, AllDone
<1>3. QED BY <1>1, <1>2, UsersInv, PTL DEF Spec, InsertsOnce, Once!OnceSpec, OnceStep, Holdings
=============================================================================
