--------------------------- MODULE Datastore_proofs ---------------------------
(***************************************************************************)
(* Lemmas about the operations of the datastore, for the proofs about the  *)
(* modules that use them: the thread stacks, and what each operation does  *)
(* to the types and to the set of active transactions.                     *)
(***************************************************************************)
EXTENDS Datastore, SequenceTheorems, TLAPS

\* No handle is twice on a stack; a stack has a handle.
Distinct(s) == \A i, j \in 1..Len(s) : s[i] = s[j] => i = j
Holds(s, t) == \E i \in 1..Len(s) : s[i] = t

\* The top of a stack that is not empty is one of its elements.
LEMMA TopOfStack ==
  ASSUME NEW S, NEW s \in Seq(S), s # <<>>
  PROVE  Len(s) \in Nat \ {0} /\ Len(s) \in 1..Len(s) /\ Top(s) = s[Len(s)] /\ Top(s) \in S
BY EmptySeq, ElementOfSeq, LenProperties DEF Top

\* What is on a stack after a push.
LEMMA PushHolds ==
  ASSUME NEW S, NEW s \in Seq(S), NEW e \in S
  PROVE  /\ Append(s, e) \in Seq(S)
         /\ \A t : Holds(Append(s, e), t) <=> Holds(s, t) \/ t = e
         /\ Distinct(s) /\ ~Holds(s, e) => Distinct(Append(s, e))
<1>1. Len(s) \in Nat BY LenProperties
<1>2. /\ Append(s, e) \in Seq(S)
      /\ Len(Append(s, e)) = Len(s) + 1
      /\ \A i \in 1..Len(s) : Append(s, e)[i] = s[i]
      /\ Append(s, e)[Len(s) + 1] = e
  BY AppendProperties
<1>3. \A t : Holds(Append(s, e), t) <=> Holds(s, t) \/ t = e
  BY <1>1, <1>2 DEF Holds
<1>4. Distinct(s) /\ ~Holds(s, e) => Distinct(Append(s, e))
  BY <1>1, <1>2 DEF Holds, Distinct
<1>5. QED BY <1>2, <1>3, <1>4
-----------------------------------------------------------------------------
\* The same transactions are active; all but t are; the types.
ActiveKept == \A u \in TxId : (txn'[u].state = "active") <=> (txn[u].state = "active")
Ended(t) == \A u \in TxId : (txn'[u].state = "active") <=> (txn[u].state = "active" /\ u # t)
StoreTypeOK == store \in [Key -> Content] /\ version \in [Group -> Nat] /\ txn \in [TxId -> Txn]

\* beginTransaction makes one more transaction active.
LEMMA BeginTypes ==
  ASSUME StoreTypeOK, NEW r, NEW t \in TxId, BeginTransaction(r, t)
  PROVE  /\ StoreTypeOK' /\ txn[t].state # "active"
         /\ \A u \in TxId : (txn'[u].state = "active") <=> (txn[u].state = "active" \/ u = t)
BY DEF StoreTypeOK, BeginTransaction, Txn, TxnState

\* A first operation keeps the type of a transaction and its state.
LEMMA EnrolledTypes ==
  ASSUME StoreTypeOK, NEW t \in TxId, NEW g \in Group
  PROVE  Enrolled(t, g) \in Txn /\ Enrolled(t, g).state = txn[t].state
<1>1. SnapshotOf(g) \in Snapshot BY DEF StoreTypeOK, SnapshotOf, Snapshot, Content
<1>2. txn[t] \in Txn /\ version[g] \in Nat BY DEF StoreTypeOK
<1>3. QED BY <1>1, <1>2 DEF Enrolled, Txn

\* A get keeps the types and answers an entity or its absence.
LEMMA GetTypes ==
  ASSUME StoreTypeOK, NEW t \in TxId, NEW k \in Key, TxnGet(t, k)
  PROVE  StoreTypeOK' /\ ActiveKept /\ Seen(t, k) \in Content
<1>1. GroupOf[k] \in Group BY GroupAssumption
<1>2. Enrolled(t, GroupOf[k]) \in Txn /\ Enrolled(t, GroupOf[k]).state = txn[t].state
  BY <1>1, EnrolledTypes
<1>3. Seen(t, k) \in Content BY <1>2 DEF Seen, Txn, Snapshot
<1>4. QED BY <1>2, <1>3 DEF TxnGet, StoreTypeOK, ActiveKept

\* A put or delete in a transaction keeps the types.
LEMMA WriteTypes ==
  ASSUME StoreTypeOK, NEW t \in TxId, NEW K, NEW content \in Content,
         TxnWrite(t, K, content)
  PROVE  StoreTypeOK' /\ ActiveKept
<1>1. PICK g \in Group :
        txn' = [txn EXCEPT ![t] =
                  [Enrolled(t, g) EXCEPT
                     !.writes = [k \in Key |-> IF k \in K THEN content ELSE @[k]]]]
  BY DEF TxnWrite
<1>2. Enrolled(t, g) \in Txn /\ Enrolled(t, g).state = txn[t].state BY EnrolledTypes
<1> DEFINE w == [k \in Key |-> IF k \in K THEN content ELSE Enrolled(t, g).writes[k]]
           x == [Enrolled(t, g) EXCEPT !.writes = w]
<1>3. w \in Writes BY <1>2 DEF Txn, Writes
<1>4. x \in Txn /\ x.state = txn[t].state BY <1>2, <1>3 DEF Txn
<1>5. txn' = [txn EXCEPT ![t] = x] BY <1>1
<1>6. QED BY <1>4, <1>5 DEF TxnWrite, StoreTypeOK, ActiveKept

\* A put or delete outside keeps the types and the transactions.
LEMMA DirectTypes ==
  ASSUME StoreTypeOK, NEW K, NEW content \in Content, DirectWrite(K, content)
  PROVE  StoreTypeOK' /\ ActiveKept /\ UNCHANGED <<txn, current>>
<1>1. store' \in [Key -> Content] BY DEF DirectWrite, StoreTypeOK
<1>2. version' \in [Group -> Nat] BY DEF DirectWrite, StoreTypeOK
<1>3. QED BY <1>1, <1>2 DEF DirectWrite, StoreTypeOK, ActiveKept

\* A closed transaction has its type and the state it was given.
LEMMA ClosedTypes ==
  ASSUME StoreTypeOK, NEW t \in TxId, NEW state \in TxnState
  PROVE  Closed(t, state) \in Txn /\ Closed(t, state).state = state
<1>1. NoSnapshot \in Snapshot BY DEF NoSnapshot, Snapshot, Content
<1>2. QED BY <1>1 DEF StoreTypeOK, Closed, Txn

\* A rollback, or a commit that fails, ends one transaction.
LEMMA DropTypes ==
  ASSUME StoreTypeOK, NEW t \in TxId, NEW state \in TxnState \ {"active"},
         DropWrites(t, state)
  PROVE  StoreTypeOK' /\ Ended(t)
BY ClosedTypes DEF DropWrites, StoreTypeOK, Ended

\* A commit that succeeds ends one transaction.
LEMMA ApplyTypes ==
  ASSUME StoreTypeOK, NEW t \in TxId, ApplyWrites(t)
  PROVE  StoreTypeOK' /\ Ended(t)
<1>1. Closed(t, "committed") \in Txn /\ Closed(t, "committed").state = "committed"
  BY ClosedTypes DEF TxnState
<1>2. txn' \in [TxId -> Txn] /\ Ended(t) BY <1>1 DEF ApplyWrites, StoreTypeOK, Ended
<1>3. store' \in [Key -> Content]
  <2>1. \A k \in Wrote(t) : txn[t].writes[k] \in Content
    BY DEF Wrote, StoreTypeOK, Txn, Writes
  <2>2. QED BY <2>1 DEF ApplyWrites, StoreTypeOK
<1>4. version' \in [Group -> Nat]
  <2>1. version \in [Group -> Nat] BY DEF StoreTypeOK
  <2>2. version' = version \/ version' = [version EXCEPT ![txn[t].group] = @ + 1]
    BY DEF ApplyWrites
  <2> DEFINE h == txn[t].group
  <2>3. \A g \in Group : version[g] + 1 \in Nat BY <2>1
  <2>4. [version EXCEPT ![h] = @ + 1] \in [Group -> Nat]
    <3> HIDE DEF h
    <3> QED BY <2>1, <2>3
  <2>5. QED BY <2>1, <2>2, <2>4
<1>5. QED BY <1>2, <1>3, <1>4 DEF StoreTypeOK

\* What is left of a dead request ends with it.
LEMMA ExpireTypes ==
  ASSUME StoreTypeOK, NEW r, Expire(r)
  PROVE  /\ StoreTypeOK'
         /\ \A u \in TxId : (txn'[u].state = "active") <=>
                            (txn[u].state = "active" /\ ~Holds(current[r], u))
<1>1. \A u \in TxId : Closed(u, "expired") \in Txn /\ Closed(u, "expired").state = "expired"
  BY ClosedTypes DEF TxnState
<1>2. \A u \in TxId : txn'[u] = IF Holds(current[r], u) THEN Closed(u, "expired") ELSE txn[u]
  BY DEF Expire, Holds
<1>3. txn' \in [TxId -> Txn] BY <1>1 DEF Expire, StoreTypeOK
<1>4. QED BY <1>1, <1>2, <1>3 DEF Expire, StoreTypeOK
=============================================================================
