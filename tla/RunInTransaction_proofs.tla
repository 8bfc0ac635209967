----------------------- MODULE RunInTransaction_proofs -----------------------
(***************************************************************************)
(* Theorems about runInTransaction (ext/db.js:139-161), for every set of   *)
(* requests, transactions, keys and groups and every nesting depth.        *)
(***************************************************************************)
EXTENDS RunInTransaction, Datastore_proofs, SequenceTheorems, TLAPS

(***************************************************************************)
(* The thread stacks.  A transaction is on one stack, at one place, exactly *)
(* while it is active, and the stack is the request's pending calls.       *)
(***************************************************************************)
StackInv ==
  /\ current \in [Request -> Seq(TxId)]
  /\ current = call
  /\ \A r \in Request : Distinct(current[r])
  /\ \A r, s \in Request, t \in TxId :
       Holds(current[r], t) /\ Holds(current[s], t) => r = s
  /\ \A t \in TxId : (txn[t].state = "active") <=> \E r \in Request : Holds(current[r], t)

TypeInv == TypeOK /\ StackInv

-----------------------------------------------------------------------------
\* Taking the last element off a stack.
LEMMA PopStack ==
  ASSUME NEW S, NEW s \in Seq(S), s # <<>>
  PROVE  /\ Pop(s) \in Seq(S)
         /\ Len(Pop(s)) = Len(s) - 1
         /\ \A i \in 1..(Len(s) - 1) : Pop(s)[i] = s[i]
<1>1. Len(s) \in Nat \ {0} BY TopOfStack
<1>2. \A i \in 1..(Len(s) - 1) : s[i] \in S BY <1>1, ElementOfSeq, LenProperties
<1>3. QED
  <2> DEFINE n == Len(s) - 1
  <2>1. n \in Int /\ 1 \in Int /\ (\A i \in 1..n : s[i] \in S) BY <1>1, <1>2
  <2>2. /\ SubSeq(s, 1, n) \in Seq(S)
        /\ Len(SubSeq(s, 1, n)) = IF 1 <= n THEN n - 1 + 1 ELSE 0
        /\ \A i \in 1..(n - 1 + 1) : SubSeq(s, 1, n)[i] = s[1 + i - 1]
    <3> HIDE DEF n
    <3> QED BY <2>1, SubSeqProperties
  <2>3. Pop(s) = SubSeq(s, 1, n) BY DEF Pop
  <2>4. Len(Pop(s)) = n
    <3>1. n \in Nat BY <1>1
    <3>2. (IF 1 <= n THEN n - 1 + 1 ELSE 0) = n
      <4> HIDE DEF n
      <4> QED BY <3>1
    <3>3. QED BY <2>2, <2>3, <3>2
  <2>5. ASSUME NEW i \in 1..n PROVE Pop(s)[i] = s[i]
    <3>1. i \in 1..(n - 1 + 1) /\ 1 + i - 1 = i BY <1>1
    <3>2. QED BY <3>1, <2>2, <2>3
  <2>6. QED BY <2>2, <2>3, <2>4, <2>5

\* The service removes a handle by value; for the handle on top that is a pop.
LEMMA DetachTop ==
  ASSUME NEW S, NEW s \in Seq(S), s # <<>>, Distinct(s)
  PROVE  Detach(s, Top(s)) = Pop(s)
<1>1. Len(s) \in Nat \ {0} /\ Top(s) = s[Len(s)] BY TopOfStack
<1>2. Pop(s) = [i \in 1..(Len(s) - 1) |-> s[i]]
  <2>1. Pop(s) \in [1..(Len(s) - 1) -> S] BY PopStack, LenProperties
  <2>2. QED BY <2>1, PopStack
<1>3. ASSUME NEW i \in 1..(Len(s) - 1) PROVE ~(\E j \in 1..i : s[j] = Top(s))
  BY <1>1 DEF Distinct
<1>4. QED BY <1>2, <1>3 DEF Detach

\* What is left after a pop: everything but the top, still without repeats.
LEMMA PopHolds ==
  ASSUME NEW S, NEW s \in Seq(S), s # <<>>, Distinct(s)
  PROVE  /\ Distinct(Pop(s))
         /\ \A t : Holds(Pop(s), t) <=> Holds(s, t) /\ t # Top(s)
         /\ Holds(s, Top(s))
<1>1. Len(s) \in Nat \ {0} /\ Top(s) = s[Len(s)] BY TopOfStack
<1>2. Distinct(Pop(s)) BY <1>1, PopStack DEF Distinct
<1>3. ASSUME NEW t PROVE Holds(Pop(s), t) <=> Holds(s, t) /\ t # Top(s)
  <2>1. Holds(Pop(s), t) => Holds(s, t) /\ t # Top(s)
    BY <1>1, PopStack DEF Holds, Distinct
  <2>2. Holds(s, t) /\ t # Top(s) => Holds(Pop(s), t)
    BY <1>1, PopStack DEF Holds
  <2>3. QED BY <2>1, <2>2
<1>4. Holds(s, Top(s)) BY <1>1 DEF Holds
<1>5. QED BY <1>2, <1>3, <1>4

-----------------------------------------------------------------------------
(***************************************************************************)
(* How the stacks change: a step leaves them alone, pushes a transaction   *)
(* it opens, pops the one it closes, or empties the stack of a request.    *)
(***************************************************************************)
LEMMA StacksKept ==
  ASSUME StackInv, UNCHANGED <<current, call>>,
         \A t \in TxId : (txn'[t].state = "active") <=> (txn[t].state = "active")
  PROVE  StackInv'
BY DEF StackInv, Holds, Distinct

\* beginTransaction (db.js:151) adds one open transaction and one call.
LEMMA StackPushed ==
  ASSUME StackInv, NEW r \in Request, NEW t \in TxId, txn[t].state # "active",
         current' = [current EXCEPT ![r] = Append(@, t)],
         call' = [call EXCEPT ![r] = Append(@, t)],
         \A u \in TxId : (txn'[u].state = "active") <=> (txn[u].state = "active" \/ u = t)
  PROVE  StackInv'
<1>1. current[r] \in Seq(TxId) BY DEF StackInv
<1>2. \A q \in Request : ~Holds(current[q], t) BY DEF StackInv
<1>3. \A q \in Request : current'[q] = IF q = r THEN Append(current[r], t) ELSE current[q]
  BY DEF StackInv
<1>4. /\ current'[r] \in Seq(TxId)
      /\ \A u : Holds(current'[r], u) <=> Holds(current[r], u) \/ u = t
      /\ Distinct(current'[r])
  BY <1>1, <1>2, <1>3, PushHolds DEF StackInv
<1>5. current' \in [Request -> Seq(TxId)] /\ current' = call' BY <1>4 DEF StackInv
<1>6. \A q \in Request : Distinct(current'[q]) BY <1>3, <1>4 DEF StackInv
<1>7. \A q \in Request, u \in TxId :
        Holds(current'[q], u) <=> Holds(current[q], u) \/ (q = r /\ u = t)
  BY <1>3, <1>4
<1>8. \A p, q \in Request, u \in TxId :
        Holds(current'[p], u) /\ Holds(current'[q], u) => p = q
  BY <1>2, <1>7 DEF StackInv
<1>9. \A u \in TxId :
        (txn'[u].state = "active") <=> \E q \in Request : Holds(current'[q], u)
  BY <1>7 DEF StackInv
<1>10. QED BY <1>5, <1>6, <1>8, <1>9 DEF StackInv

\* The end of a call takes off its own transaction, and only that.
LEMMA StackPopped ==
  ASSUME StackInv, NEW r \in Request, call[r] # <<>>,
         Leave(r, Innermost(r)), ReturnFrom(r),
         \A u \in TxId : (txn'[u].state = "active") <=>
                          (txn[u].state = "active" /\ u # Innermost(r))
  PROVE  StackInv'
<1> DEFINE t == Innermost(r)
<1>1. current[r] \in Seq(TxId) /\ current[r] # <<>> /\ Distinct(current[r]) /\ t = Top(current[r])
  BY DEF StackInv, Innermost
<1>2. Detach(current[r], t) = Pop(current[r]) BY <1>1, DetachTop
<1>3. /\ Pop(current[r]) \in Seq(TxId)
      /\ Distinct(Pop(current[r]))
      /\ \A u : Holds(Pop(current[r]), u) <=> Holds(current[r], u) /\ u # t
      /\ Holds(current[r], t)
  BY <1>1, PopStack, PopHolds
<1>4. \A q \in Request : current'[q] = IF q = r THEN Pop(current[r]) ELSE current[q]
  BY <1>2 DEF StackInv, Leave
<1>5. current' \in [Request -> Seq(TxId)] /\ current' = call'
  BY <1>2, <1>3 DEF StackInv, Leave, ReturnFrom
<1>6. \A q \in Request : Distinct(current'[q]) BY <1>3, <1>4 DEF StackInv
<1>7. t \in TxId BY <1>1, TopOfStack
<1>8. \A q \in Request, u \in TxId :
        Holds(current'[q], u) <=> Holds(current[q], u) /\ u # t
  <2> SUFFICES ASSUME NEW q \in Request, NEW u \in TxId
               PROVE  Holds(current'[q], u) <=> Holds(current[q], u) /\ u # t
    OBVIOUS
  <2>1. CASE q = r BY <2>1, <1>3, <1>4
  <2>2. CASE q # r
    <3>1. ~Holds(current[q], t) BY <2>2, <1>3, <1>7 DEF StackInv
    <3>2. QED BY <2>2, <3>1, <1>4
  <2>3. QED BY <2>1, <2>2
<1>9. \A p, q \in Request, u \in TxId :
        Holds(current'[p], u) /\ Holds(current'[q], u) => p = q
  BY <1>8 DEF StackInv
<1>10. \A u \in TxId :
        (txn'[u].state = "active") <=> \E q \in Request : Holds(current'[q], u)
  BY <1>8 DEF StackInv
<1>11. QED BY <1>5, <1>6, <1>9, <1>10 DEF StackInv

\* A killed request has no open transaction and no call left.
LEMMA StackEmptied ==
  ASSUME StackInv, NEW r \in Request,
         current' = [current EXCEPT ![r] = <<>>],
         call' = [call EXCEPT ![r] = <<>>],
         \A u \in TxId : (txn'[u].state = "active") <=>
                          (txn[u].state = "active" /\ ~Holds(current[r], u))
  PROVE  StackInv'
<1>1. \A q \in Request : current'[q] = IF q = r THEN <<>> ELSE current[q] BY DEF StackInv
<1>2. <<>> \in Seq(TxId) /\ Len(<<>>) = 0 BY EmptySeq
<1>3. Distinct(<<>>) /\ \A u : ~Holds(<<>>, u) BY <1>2 DEF Distinct, Holds
<1>4. current' \in [Request -> Seq(TxId)] /\ current' = call' BY <1>2 DEF StackInv
<1>5. \A q \in Request : Distinct(current'[q]) BY <1>1, <1>3 DEF StackInv
<1>6. \A q \in Request, u \in TxId :
        Holds(current'[q], u) <=> Holds(current[q], u) /\ q # r
  BY <1>1, <1>3
<1>7. \A p, q \in Request, u \in TxId :
        Holds(current'[p], u) /\ Holds(current'[q], u) => p = q
  BY <1>6 DEF StackInv
<1>8. \A u \in TxId :
        (txn'[u].state = "active") <=> \E q \in Request : Holds(current'[q], u)
  BY <1>6 DEF StackInv
<1>9. QED BY <1>4, <1>5, <1>7, <1>8 DEF StackInv
-----------------------------------------------------------------------------
\* The transaction of the innermost call is the thread's current one, and open.
LEMMA InnermostIsCurrent ==
  ASSUME StackInv, NEW r \in Request, call[r] # <<>>
  PROVE  /\ InTransaction(r) /\ Innermost(r) = CurrentTxn(r)
         /\ Innermost(r) \in TxId
         /\ txn[Innermost(r)].state = "active"
         /\ Holds(current[r], Innermost(r))
<1>1. current[r] \in Seq(TxId) /\ current[r] = call[r] /\ Distinct(current[r]) BY DEF StackInv
<1>2. Innermost(r) \in TxId /\ Innermost(r) = CurrentTxn(r)
  BY <1>1, TopOfStack DEF Innermost, CurrentTxn
<1>3. Holds(current[r], Innermost(r)) BY <1>1, PopHolds DEF Innermost
<1>4. QED BY <1>1, <1>2, <1>3 DEF StackInv, InTransaction

\* A request is in a transaction while it is in a call of runInTransaction.
LEMMA InTransactionIsCalling ==
  ASSUME StackInv, NEW r \in Request
  PROVE  InTransaction(r) <=> call[r] # <<>>
BY DEF StackInv, InTransaction

-----------------------------------------------------------------------------
(***************************************************************************)
(* Type correctness, with the stacks, one step per action.                 *)
(***************************************************************************)
CallTypeOK ==
  /\ raised \in [Request -> BOOLEAN]
  /\ outcome \in [TxId -> Outcome]
  /\ reads \in [TxId -> [Key -> Content \cup {NotRead}]]
  /\ within \in [TxId -> SUBSET TxId]

\* The type invariant in the three parts that the proof of a step needs.
LEMMA TypeInvParts == TypeInv <=> StoreTypeOK /\ StackInv /\ CallTypeOK
<1>1. TypeInv => StoreTypeOK /\ StackInv /\ CallTypeOK
  BY DEF TypeInv, TypeOK, DatastoreTypeOK, StoreTypeOK, CallTypeOK
<1>2. StoreTypeOK /\ StackInv /\ CallTypeOK => TypeInv
  BY DEF TypeInv, TypeOK, DatastoreTypeOK, StoreTypeOK, CallTypeOK, StackInv
<1>3. QED BY <1>1, <1>2

\* They hold when no call has been made.
LEMMA InitTypes == Init => TypeInv
<1> SUFFICES ASSUME Init PROVE TypeInv OBVIOUS
<1>1. StoreTypeOK
  BY DEF Init, DatastoreInit, StoreTypeOK, FreshTxn, NoSnapshot, Txn, TxnState,
         Snapshot, Writes, Content
<1>2. \A r \in Request : current[r] = <<>> /\ call[r] = <<>> BY DEF Init, DatastoreInit
<1>3. <<>> \in Seq(TxId) /\ Len(<<>>) = 0 BY EmptySeq
<1>4. Distinct(<<>>) /\ \A t : ~Holds(<<>>, t) BY <1>3 DEF Distinct, Holds
<1>5. \A t \in TxId : txn[t].state # "active" BY DEF Init, DatastoreInit, FreshTxn
<1>6. StackInv BY <1>2, <1>3, <1>4, <1>5 DEF Init, DatastoreInit, StackInv
<1>7. CallTypeOK BY DEF Init, CallTypeOK, Outcome
<1>8. QED BY <1>1, <1>6, <1>7, TypeInvParts

\* They are inductive.
LEMMA StepTypes == TypeInv /\ [Next]_vars => TypeInv'
<1> SUFFICES ASSUME StoreTypeOK, StackInv, CallTypeOK, [Next]_vars
             PROVE  StoreTypeOK' /\ StackInv' /\ CallTypeOK'
  <2>1. TypeInv' <=> StoreTypeOK' /\ StackInv' /\ CallTypeOK' BY TypeInvParts, PTL
  <2>2. QED BY <2>1, TypeInvParts
<1> USE DEF Raise, Tell
<1>1. ASSUME NEW r \in Request, NEW t \in TxId, RunIn(r, t)
      PROVE  StoreTypeOK' /\ StackInv' /\ CallTypeOK'
  <2>1. BeginTransaction(r, t) BY <1>1 DEF RunIn
  <2>2. /\ StoreTypeOK' /\ txn[t].state # "active"
        /\ \A u \in TxId : (txn'[u].state = "active") <=> (txn[u].state = "active" \/ u = t)
    BY <2>1, BeginTypes
  <2>3. StackInv' BY <1>1, <2>2, StackPushed DEF RunIn, BeginTransaction
  <2>4. {call[r][i] : i \in 1..Len(call[r])} \subseteq TxId
    BY ElementOfSeq DEF StackInv
  <2>5. CallTypeOK' BY <1>1, <2>4 DEF RunIn, CallTypeOK, Outcome
  <2>6. QED BY <2>2, <2>3, <2>5
<1>2. ASSUME NEW r \in Request, NEW k \in Key, Get(r, k)
      PROVE  StoreTypeOK' /\ StackInv' /\ CallTypeOK'
  <2>1. CurrentTxn(r) \in TxId
    BY <1>2, InnermostIsCurrent, InTransactionIsCalling DEF Get
  <2>2. StoreTypeOK' /\ ActiveKept /\ Seen(CurrentTxn(r), k) \in Content
    BY <1>2, <2>1, GetTypes DEF Get
  <2>3. StackInv' BY <1>2, <2>2, StacksKept DEF Get, TxnGet, ActiveKept
  <2>4. CallTypeOK' BY <1>2, <2>1, <2>2 DEF Get, CallTypeOK
  <2>5. QED BY <2>2, <2>3, <2>4
<1>3. ASSUME NEW r \in Request, NEW K \in Batches, NEW content \in Content,
             Write(r, K, content)
      PROVE  StoreTypeOK' /\ StackInv' /\ CallTypeOK'
  <2>1. CurrentTxn(r) \in TxId
    BY <1>3, InnermostIsCurrent, InTransactionIsCalling DEF Write
  <2>2. StoreTypeOK' /\ ActiveKept BY <1>3, <2>1, WriteTypes DEF Write
  <2>3. StackInv' BY <1>3, <2>2, StacksKept DEF Write, TxnWrite, ActiveKept
  <2>4. CallTypeOK' BY <1>3 DEF Write, CallTypeOK
  <2>5. QED BY <2>2, <2>3, <2>4
<1>4. ASSUME NEW r \in Request, NEW K \in Batches, Put(r, K)
      PROVE  StoreTypeOK' /\ StackInv' /\ CallTypeOK'
  <2>1. CurrentTxn(r) \in Content
    BY <1>4, InnermostIsCurrent, InTransactionIsCalling, ValueAssumption DEF Put, Content
  <2>2. QED BY <1>3, <1>4, <2>1 DEF Put
<1>5. ASSUME NEW r \in Request, NEW K \in Batches, Remove(r, K)
      PROVE  StoreTypeOK' /\ StackInv' /\ CallTypeOK'
  BY <1>3, <1>5 DEF Remove, Content
<1>6. ASSUME NEW r \in Request, UNCHANGED <<dsVars, call, outcome, reads, within>>,
             raised' \in [Request -> BOOLEAN]
      PROVE  StoreTypeOK' /\ StackInv' /\ CallTypeOK'
  <2>1. StoreTypeOK' BY <1>6 DEF dsVars, StoreTypeOK
  <2>2. StackInv' BY <1>6, StacksKept DEF dsVars
  <2>3. CallTypeOK' BY <1>6 DEF CallTypeOK
  <2>4. QED BY <2>1, <2>2, <2>3
<1>7. ASSUME NEW r \in Request, NEW K \in Batches, CrossGroup(r, K)
      PROVE  StoreTypeOK' /\ StackInv' /\ CallTypeOK'
  BY <1>6, <1>7 DEF CrossGroup, CallTypeOK
<1>8. ASSUME NEW r \in Request, Throw(r) \/ Catch(r)
      PROVE  StoreTypeOK' /\ StackInv' /\ CallTypeOK'
  BY <1>6, <1>8 DEF Throw, Catch, CallTypeOK
<1>9. ASSUME NEW r \in Request, NEW K \in Batches, NEW content \in Content,
             WriteOutside(r, K, content)
      PROVE  StoreTypeOK' /\ StackInv' /\ CallTypeOK'
  <2>1. PICK L : DirectWrite(L, content) BY <1>9 DEF WriteOutside
  <2>2. StoreTypeOK' /\ ActiveKept /\ UNCHANGED <<txn, current>> BY <2>1, DirectTypes
  <2>3. StackInv' BY <1>9, <2>2, StacksKept DEF WriteOutside, ActiveKept
  <2>4. raised' \in [Request -> BOOLEAN] BY <1>9 DEF WriteOutside, CallTypeOK
  <2>5. CallTypeOK' BY <1>9, <2>4 DEF WriteOutside, CallTypeOK
  <2>6. QED BY <2>2, <2>3, <2>5
<1>10. ASSUME NEW r \in Request, NEW K \in Batches, PutOutside(r, K) \/ RemoveOutside(r, K)
       PROVE  StoreTypeOK' /\ StackInv' /\ CallTypeOK'
  BY <1>9, <1>10, ValueAssumption DEF PutOutside, RemoveOutside, Content
<1>11. ASSUME NEW r \in Request, call[r] # <<>>, StoreTypeOK', Ended(Innermost(r)),
              Leave(r, Innermost(r)), ReturnFrom(r), NEW answer \in Outcome,
              Tell(Innermost(r), answer), raised' \in [Request -> BOOLEAN],
              UNCHANGED <<reads, within>>
       PROVE  StoreTypeOK' /\ StackInv' /\ CallTypeOK'
  <2>1. StackInv' BY <1>11, StackPopped DEF Ended
  <2>2. CallTypeOK' BY <1>11, InnermostIsCurrent DEF CallTypeOK
  <2>3. QED BY <1>11, <2>1, <2>2
<1>12. ASSUME NEW r \in Request, RollbackAndRethrow(r)
       PROVE  StoreTypeOK' /\ StackInv' /\ CallTypeOK'
  <2>1. call[r] # <<>> /\ Innermost(r) \in TxId
    BY <1>12, InnermostIsCurrent DEF RollbackAndRethrow, Calling
  <2>2. StoreTypeOK' /\ Ended(Innermost(r))
    BY <1>12, <2>1, DropTypes DEF RollbackAndRethrow, TxnState
  <2>3. QED BY <1>11, <1>12, <2>1, <2>2 DEF RollbackAndRethrow, CallTypeOK, Outcome
<1>13. ASSUME NEW r \in Request, Commit(r)
       PROVE  StoreTypeOK' /\ StackInv' /\ CallTypeOK'
  <2>1. call[r] # <<>> /\ Innermost(r) \in TxId
    BY <1>13, InnermostIsCurrent DEF Commit, Calling
  <2>2. StoreTypeOK' /\ Ended(Innermost(r)) BY <1>13, <2>1, ApplyTypes DEF Commit
  <2>3. QED BY <1>11, <1>13, <2>1, <2>2 DEF Commit, CallTypeOK, Outcome
<1>14. ASSUME NEW r \in Request, CommitConflict(r)
       PROVE  StoreTypeOK' /\ StackInv' /\ CallTypeOK'
  <2>1. call[r] # <<>> /\ Innermost(r) \in TxId
    BY <1>14, InnermostIsCurrent DEF CommitConflict, Calling
  <2>2. StoreTypeOK' /\ Ended(Innermost(r))
    BY <1>14, <2>1, DropTypes DEF CommitConflict, TxnState
  <2>3. QED BY <1>11, <1>14, <2>1, <2>2 DEF CommitConflict, CallTypeOK, Outcome
<1>15. ASSUME NEW r \in Request, CommitUnknown(r)
       PROVE  StoreTypeOK' /\ StackInv' /\ CallTypeOK'
  <2>1. call[r] # <<>> /\ Innermost(r) \in TxId
    BY <1>15, InnermostIsCurrent DEF CommitUnknown, Calling
  <2>2. StoreTypeOK' /\ Ended(Innermost(r))
    BY <1>15, <2>1, ApplyTypes, DropTypes DEF CommitUnknown, TxnState
  <2>3. QED BY <1>11, <1>15, <2>1, <2>2 DEF CommitUnknown, CallTypeOK, Outcome
<1>16. ASSUME NEW r \in Request, Killed(r)
       PROVE  StoreTypeOK' /\ StackInv' /\ CallTypeOK'
  <2>1. /\ StoreTypeOK'
        /\ \A u \in TxId : (txn'[u].state = "active") <=>
                           (txn[u].state = "active" /\ ~Holds(current[r], u))
    BY <1>16, ExpireTypes DEF Killed
  <2>2. StackInv' BY <1>16, <2>1, StackEmptied DEF Killed, Expire
  <2>3. CallTypeOK' BY <1>16 DEF Killed, CallTypeOK, Outcome
  <2>4. QED BY <2>1, <2>2, <2>3
<1>17. CASE UNCHANGED vars
  <2>1. StoreTypeOK' BY <1>17 DEF vars, dsVars, StoreTypeOK
  <2>2. StackInv' BY <1>17, StacksKept DEF vars, dsVars
  <2>3. CallTypeOK' BY <1>17 DEF vars, CallTypeOK
  <2>4. QED BY <2>1, <2>2, <2>3
<1>18. QED
  BY <1>1, <1>2, <1>4, <1>5, <1>7, <1>8, <1>10, <1>12, <1>13, <1>14, <1>15, <1>16, <1>17
  DEF Next, RequestStep, Idle

\* Types, and the agreement of each thread's open transactions with its
\* calls of runInTransaction in progress (db.js:146-161), in every reachable state.
THEOREM TypesAndStacks == Spec => []TypeInv
BY InitTypes, StepTypes, PTL DEF Spec

\* Every reachable state has the types that TypeOK gives (db.js:146-161).
THEOREM TypeCorrect == Spec => []TypeOK
BY TypesAndStacks, PTL DEF TypeInv

\* No transaction is leaked: a thread's open transactions are those of its
\* pending calls of runInTransaction, at any depth (db.js:151-158).
THEOREM NoLeaks == Spec => []NoTransactionLeaks
<1>1. TypeInv => NoTransactionLeaks BY DEF TypeInv, StackInv, NoTransactionLeaks, Holds
<1>2. QED BY <1>1, TypesAndStacks, PTL
-----------------------------------------------------------------------------
(***************************************************************************)
(* The kinds of step, as the store, the transactions, the answers and the  *)
(* reads see them.  Every action is of one of these kinds.                 *)
(***************************************************************************)
Opens(t) ==
  /\ txn[t].state = "unused"
  /\ txn' = [txn EXCEPT ![t].state = "active"]
  /\ outcome' = [outcome EXCEPT ![t] = "running"]
  /\ UNCHANGED <<store, version, reads>>

Gets(t, k) ==
  /\ txn[t].state = "active" /\ Accepts(t, {k})
  /\ TxnGet(t, k)
  /\ reads' = [reads EXCEPT ![t][k] = Seen(t, k)]
  /\ UNCHANGED outcome

WritesIn(t, K, content) ==
  /\ txn[t].state = "active" /\ Accepts(t, K)
  /\ TxnWrite(t, K, content)
  /\ UNCHANGED <<outcome, reads>>

WritesDirectly(K, content) == DirectWrite(K, content) /\ UNCHANGED <<outcome, reads>>

Applies(t, answer) ==
  /\ txn[t].state = "active"
  /\ ApplyWrites(t)
  /\ outcome' = [outcome EXCEPT ![t] = answer]
  /\ UNCHANGED reads

Drops(t, state, answer) ==
  /\ txn[t].state = "active"
  /\ DropWrites(t, state)
  /\ outcome' = [outcome EXCEPT ![t] = answer]
  /\ UNCHANGED reads

Expires(T) ==
  /\ \A t \in T : txn[t].state = "active"
  /\ txn' = [t \in TxId |-> IF t \in T THEN Closed(t, "expired") ELSE txn[t]]
  /\ outcome' = [t \in TxId |-> IF t \in T THEN "killed" ELSE outcome[t]]
  /\ UNCHANGED <<store, version, reads>>

Kinds ==
  \/ \E t \in TxId : Opens(t)
  \/ \E t \in TxId, k \in Key : Gets(t, k)
  \/ \E t \in TxId, K \in SUBSET Key : \E content \in {t, NoEntity} : WritesIn(t, K, content)
  \/ \E K \in SUBSET Key, content \in {Direct, NoEntity} : WritesDirectly(K, content)
  \/ \E t \in TxId, answer \in {"returned", "unknown"} : Applies(t, answer)
  \/ \E t \in TxId : Drops(t, "rolledback", "threw")
  \/ \E t \in TxId, answer \in {"conflict", "unknown"} : Drops(t, "failed", answer)
  \/ \E T \in SUBSET TxId : Expires(T)
  \/ UNCHANGED <<store, version, txn, outcome, reads>>

\* The transactions of a request that is killed expire.
LEMMA KilledExpires ==
  ASSUME TypeInv, NEW r \in Request, Killed(r)
  PROVE  \E T \in SUBSET TxId : Expires(T)
<1> DEFINE T == {t \in TxId : Holds(current[r], t)}
<1>0. StackInv BY DEF TypeInv
<1>1. \A t \in T : txn[t].state = "active" BY <1>0 DEF StackInv
<1>2. Expires(T) BY <1>0, <1>1 DEF Killed, Expire, Expires, Holds, StackInv
<1>3. QED BY <1>2

\* Every step is of one of the kinds that the rest of the proof tells apart.
LEMMA StepKinds ==
  ASSUME TypeInv, [Next]_vars
  PROVE  Kinds
<1>0. StackInv BY DEF TypeInv
<1>1. ASSUME NEW r \in Request, NEW t \in TxId, RunIn(r, t)
      PROVE  Kinds
  <2>1. Opens(t) BY <1>1 DEF RunIn, BeginTransaction, Opens, Tell
  <2>2. QED BY <2>1 DEF Kinds
<1>2. ASSUME NEW r \in Request, InTransaction(r)
      PROVE  CurrentTxn(r) \in TxId /\ txn[CurrentTxn(r)].state = "active"
  BY <1>0, <1>2, InnermostIsCurrent, InTransactionIsCalling
<1>3. ASSUME NEW r \in Request, NEW k \in Key, Get(r, k)
      PROVE  Kinds
  <2>1. Gets(CurrentTxn(r), k) BY <1>2, <1>3 DEF Get, Gets
  <2>2. QED BY <1>2, <1>3, <2>1 DEF Kinds, Get
<1>4. ASSUME NEW r \in Request, NEW K \in Batches, Put(r, K) \/ Remove(r, K)
      PROVE  Kinds
  <2>1. PICK content \in {CurrentTxn(r), NoEntity} : Write(r, K, content)
    BY <1>4 DEF Put, Remove
  <2>2. WritesIn(CurrentTxn(r), K, content) BY <1>2, <2>1 DEF Write, WritesIn
  <2>3. QED BY <1>2, <2>1, <2>2, BoundAssumption DEF Kinds, Write
<1>5. ASSUME NEW r \in Request, NEW K \in Batches, PutOutside(r, K) \/ RemoveOutside(r, K)
      PROVE  Kinds
  <2>1. PICK content \in {Direct, NoEntity} : WriteOutside(r, K, content)
    BY <1>5 DEF PutOutside, RemoveOutside
  <2>2. PICK L \in SUBSET Key : DirectWrite(L, content)
    BY <2>1, BoundAssumption DEF WriteOutside
  <2>3. WritesDirectly(L, content) BY <2>1, <2>2 DEF WriteOutside, WritesDirectly
  <2>4. QED BY <2>3 DEF Kinds
<1>6. ASSUME NEW r \in Request,
             Throw(r) \/ Catch(r) \/ \E K \in Batches : CrossGroup(r, K)
      PROVE  Kinds
  BY <1>6 DEF CrossGroup, Throw, Catch, dsVars, Kinds
<1>7. ASSUME NEW r \in Request, Calling(r)
      PROVE  Innermost(r) \in TxId /\ txn[Innermost(r)].state = "active"
  BY <1>0, <1>7, InnermostIsCurrent DEF Calling
<1>8. ASSUME NEW r \in Request, RollbackAndRethrow(r)
      PROVE  Kinds
  <2>1. Drops(Innermost(r), "rolledback", "threw")
    BY <1>7, <1>8 DEF RollbackAndRethrow, Drops, Tell
  <2>2. QED BY <1>7, <1>8, <2>1 DEF Kinds, RollbackAndRethrow
<1>9. ASSUME NEW r \in Request, Commit(r)
      PROVE  Kinds
  <2>1. Applies(Innermost(r), "returned") BY <1>7, <1>9 DEF Commit, Applies, Tell
  <2>2. QED BY <1>7, <1>9, <2>1 DEF Kinds, Commit
<1>10. ASSUME NEW r \in Request, CommitConflict(r)
       PROVE  Kinds
  <2>1. Drops(Innermost(r), "failed", "conflict")
    BY <1>7, <1>10 DEF CommitConflict, Drops, Tell
  <2>2. QED BY <1>7, <1>10, <2>1 DEF Kinds, CommitConflict
<1>11. ASSUME NEW r \in Request, CommitUnknown(r)
       PROVE  Kinds
  <2>1. \/ Applies(Innermost(r), "unknown")
        \/ Drops(Innermost(r), "failed", "unknown")
    BY <1>7, <1>11 DEF CommitUnknown, Applies, Drops, Tell
  <2>2. QED BY <1>7, <1>11, <2>1 DEF Kinds, CommitUnknown
<1>12. ASSUME NEW r \in Request, Killed(r)
       PROVE  Kinds
  BY <1>12, KilledExpires DEF Kinds
<1>13. CASE UNCHANGED vars BY <1>13 DEF vars, dsVars, Kinds
<1>14. QED
  BY <1>1, <1>3, <1>4, <1>5, <1>6, <1>8, <1>9, <1>10, <1>11, <1>12, <1>13
  DEF Next, RequestStep, Idle
-----------------------------------------------------------------------------
(***************************************************************************)
(* Safety.  The answers and the store follow the state of the transactions; *)
(* an open transaction whose version is current has a snapshot that agrees *)
(* with the store, and whatever its function read came from that snapshot. *)
(***************************************************************************)
OutcomeInv ==
  \A t \in TxId :
    /\ outcome[t] = "running" <=> txn[t].state = "active"
    /\ outcome[t] = "none" <=> txn[t].state = "unused"
    /\ outcome[t] = "returned" => txn[t].state = "committed"
    /\ outcome[t] \in {"threw", "conflict", "killed"} =>
         txn[t].state \in {"rolledback", "failed", "expired"}
    /\ txn[t].state = "committed" => outcome[t] \in {"returned", "unknown"}

WritesInv ==
  \A t \in TxId, k \in Key :
    /\ txn[t].writes[k] \in {NoWrite, NoEntity, t}
    /\ txn[t].writes[k] # NoWrite => txn[t].group = GroupOf[k]

StoreInv == \A k \in Key : store[k] \in TxId => txn[store[k]].state = "committed"

ReadsInv ==
  \A t \in TxId, k \in Key : reads[t][k] # NotRead =>
    /\ txn[t].group = GroupOf[k]
    /\ txn[t].state = "active" => reads[t][k] = txn[t].snap[k]

UnusedInv == \A t \in TxId : txn[t].state = "unused" => txn[t] = FreshTxn

SnapshotInv ==
  \A t \in TxId : txn[t].state = "active" /\ txn[t].group # NoGroup =>
    /\ txn[t].ver <= version[txn[t].group]
    /\ txn[t].ver = version[txn[t].group] =>
         \A k \in Key : GroupOf[k] = txn[t].group => txn[t].snap[k] = store[k]

SafeInv == OutcomeInv /\ WritesInv /\ StoreInv /\ ReadsInv /\ UnusedInv /\ SnapshotInv

\* The safety invariant holds when no call has been made.
LEMMA InitSafe == Init => SafeInv
<1> SUFFICES ASSUME Init PROVE SafeInv OBVIOUS
<1> USE DEF Init, DatastoreInit
<1>1. OutcomeInv BY DEF OutcomeInv, FreshTxn
<1>2. WritesInv BY DEF WritesInv, FreshTxn
<1>3. StoreInv BY SentinelAssumption, ValueAssumption DEF StoreInv
<1>4. ReadsInv BY DEF ReadsInv
<1>5. UnusedInv BY DEF UnusedInv
<1>6. SnapshotInv BY DEF SnapshotInv, FreshTxn
<1>7. QED BY <1>1, <1>2, <1>3, <1>4, <1>5, <1>6 DEF SafeInv
-----------------------------------------------------------------------------
(***************************************************************************)
(* Each kind of step preserves the safety invariant.                       *)
(***************************************************************************)
LEMMA OpensSafe ==
  ASSUME StoreTypeOK, CallTypeOK, SafeInv, NEW t \in TxId, Opens(t)
  PROVE  SafeInv'
<1> USE DEF SafeInv
<1>0. /\ txn[t] = FreshTxn
      /\ \A u \in TxId \ {t} : txn'[u] = txn[u] /\ outcome'[u] = outcome[u]
      /\ txn'[t] = [FreshTxn EXCEPT !.state = "active"] /\ outcome'[t] = "running"
  BY DEF Opens, UnusedInv, StoreTypeOK, CallTypeOK
<1>1. OutcomeInv' BY <1>0 DEF OutcomeInv, FreshTxn
<1>2. WritesInv' BY <1>0 DEF WritesInv, FreshTxn
<1>3. StoreInv' BY <1>0 DEF StoreInv, Opens, FreshTxn
<1>4. ReadsInv'
  <2>1. \A k \in Key : reads[t][k] = NotRead
    BY <1>0, SentinelAssumption, GroupAssumption DEF ReadsInv, FreshTxn
  <2>2. QED BY <1>0, <2>1 DEF ReadsInv, Opens
<1>5. UnusedInv' BY <1>0 DEF UnusedInv, FreshTxn
<1>6. SnapshotInv' BY <1>0 DEF SnapshotInv, Opens, FreshTxn
<1>7. QED BY <1>1, <1>2, <1>3, <1>4, <1>5, <1>6

\* What enrolling an active transaction in the group of its keys gives.
LEMMA EnrolledSafe ==
  ASSUME StoreTypeOK, SafeInv, NEW t \in TxId, txn[t].state = "active",
         NEW g \in Group, txn[t].group \in {NoGroup, g}
  PROVE  LET x == Enrolled(t, g) IN
           /\ x \in Txn /\ x.state = "active" /\ x.group = g
           /\ x.writes = txn[t].writes
           /\ x.ver <= version[g]
           /\ x.ver = version[g] =>
                \A k \in Key : GroupOf[k] = g => x.snap[k] = store[k]
           /\ txn[t].group = g => x = txn[t]
<1>1. txn[t] \in Txn /\ version[g] \in Nat /\ g # NoGroup
  BY SentinelAssumption DEF StoreTypeOK
<1>2. CASE txn[t].group = g
  <2>1. Enrolled(t, g) = txn[t] BY <1>1, <1>2 DEF Enrolled
  <2>2. QED BY <1>1, <1>2, <2>1 DEF SafeInv, SnapshotInv
<1>3. CASE txn[t].group = NoGroup
  <2> DEFINE x == [txn[t] EXCEPT !.group = g, !.ver = version[g], !.snap = SnapshotOf(g)]
  <2>1. Enrolled(t, g) = x BY <1>3 DEF Enrolled
  <2>2. x.state = "active" /\ x.group = g /\ x.ver = version[g] /\ x.snap = SnapshotOf(g)
        /\ x.writes = txn[t].writes
    BY <1>1 DEF Txn
  <2>3. \A k \in Key : GroupOf[k] = g => x.snap[k] = store[k] BY <2>2 DEF SnapshotOf
  <2>4. x \in Txn BY <2>1, EnrolledTypes
  <2>5. x.ver <= version[g] BY <1>1, <2>2
  <2>6. txn[t].group # g BY <1>1, <1>3
  <2>7. QED BY <2>1, <2>2, <2>3, <2>4, <2>5, <2>6
<1>4. QED BY <1>2, <1>3

\* A read in a transaction keeps the safety invariant.
LEMMA GetsSafe ==
  ASSUME StoreTypeOK, CallTypeOK, SafeInv, NEW t \in TxId, NEW k \in Key, Gets(t, k)
  PROVE  SafeInv'
<1> USE DEF SafeInv
<1> DEFINE g == GroupOf[k]
           x == Enrolled(t, g)
<1>0. g \in Group /\ txn[t].group \in {NoGroup, g} BY GroupAssumption DEF Gets, Accepts, AllIn
<1>1. /\ x \in Txn /\ x.state = "active" /\ x.group = g
      /\ x.writes = txn[t].writes
      /\ x.ver <= version[g]
      /\ x.ver = version[g] => \A j \in Key : GroupOf[j] = g => x.snap[j] = store[j]
      /\ txn[t].group = g => x = txn[t]
  BY <1>0, EnrolledSafe DEF Gets
<1>2. /\ txn'[t] = x /\ txn[t].state = "active"
      /\ \A u \in TxId \ {t} : txn'[u] = txn[u] /\ reads'[u] = reads[u]
      /\ \A j \in Key : reads'[t][j] = IF j = k THEN x.snap[k] ELSE reads[t][j]
      /\ UNCHANGED <<store, version, outcome>>
  BY DEF Gets, TxnGet, Seen, StoreTypeOK, CallTypeOK
<1> HIDE DEF x
<1>3. OutcomeInv' BY <1>1, <1>2 DEF OutcomeInv
<1>4. WritesInv'
  <2>1. ASSUME NEW j \in Key, txn[t].writes[j] # NoWrite PROVE GroupOf[j] = g
    BY <1>0, <2>1, SentinelAssumption, GroupAssumption DEF WritesInv
  <2>2. QED BY <1>1, <1>2, <2>1 DEF WritesInv
<1>5. StoreInv' BY <1>1, <1>2 DEF StoreInv
<1>6. ReadsInv'
  <2>1. ASSUME NEW j \in Key, reads[t][j] # NotRead PROVE GroupOf[j] = g /\ reads[t][j] = x.snap[j]
    <3>1. txn[t].group = GroupOf[j] /\ reads[t][j] = txn[t].snap[j] BY <1>2, <2>1 DEF ReadsInv
    <3>2. txn[t].group = g BY <3>1, <1>0, SentinelAssumption, GroupAssumption
    <3>3. QED BY <1>1, <3>1, <3>2
  <2>2. QED BY <1>1, <1>2, <2>1 DEF ReadsInv
<1>7. UnusedInv' BY <1>1, <1>2 DEF UnusedInv
<1>8. SnapshotInv' BY <1>1, <1>2 DEF SnapshotInv
<1>9. QED BY <1>3, <1>4, <1>5, <1>6, <1>7, <1>8

\* So does an update in one, which stays in its buffer.
LEMMA WritesSafe ==
  ASSUME StoreTypeOK, CallTypeOK, SafeInv, NEW t \in TxId, NEW K \in SUBSET Key,
         NEW content \in {t, NoEntity}, WritesIn(t, K, content)
  PROVE  SafeInv'
<1> USE DEF SafeInv
<1>1. PICK h \in Group :
        /\ AllIn(K, h)
        /\ txn' = [txn EXCEPT ![t] =
                     [Enrolled(t, h) EXCEPT
                        !.writes = [k \in Key |-> IF k \in K THEN content ELSE @[k]]]]
  BY DEF WritesIn, TxnWrite
<1>2. PICK g \in Group : AllIn(K, g) /\ txn[t].group \in {NoGroup, g}
  BY DEF WritesIn, Accepts
<1> DEFINE x == Enrolled(t, h)
           w == [k \in Key |-> IF k \in K THEN content ELSE x.writes[k]]
           y == [x EXCEPT !.writes = w]
<1>3. CASE txn[t].group \in {NoGroup, h}
  <2>1. /\ x \in Txn /\ x.state = "active" /\ x.group = h
        /\ x.writes = txn[t].writes
        /\ x.ver <= version[h]
        /\ x.ver = version[h] => \A j \in Key : GroupOf[j] = h => x.snap[j] = store[j]
        /\ txn[t].group = h => x = txn[t]
    BY <1>3, EnrolledSafe DEF WritesIn
  <2>2. y.state = "active" /\ y.group = h /\ y.ver = x.ver /\ y.snap = x.snap /\ y.writes = w
    BY <2>1 DEF Txn
  <2>3. txn'[t] = y /\ \A u \in TxId \ {t} : txn'[u] = txn[u] BY <1>1 DEF StoreTypeOK
  <2>4. txn[t].state = "active" /\ UNCHANGED <<store, version, outcome, reads>>
    BY DEF WritesIn, TxnWrite
  <2> HIDE DEF x, y
  <2>5. OutcomeInv' BY <2>2, <2>3, <2>4 DEF OutcomeInv
  <2>6. WritesInv'
    <3>1. \A j \in Key : w[j] \in {NoWrite, NoEntity, t} BY <2>1 DEF WritesInv
    <3>2. ASSUME NEW j \in Key, w[j] # NoWrite PROVE GroupOf[j] = h
      <4>1. CASE j \in K BY <1>1, <4>1 DEF AllIn
      <4>2. CASE j \notin K
        <5>1. txn[t].writes[j] # NoWrite BY <2>1, <3>2, <4>2
        <5>2. txn[t].group = GroupOf[j] BY <5>1 DEF WritesInv
        <5>3. QED BY <1>3, <5>2, SentinelAssumption, GroupAssumption
      <4>3. QED BY <4>1, <4>2
    <3> HIDE DEF w
    <3>3. QED BY <2>2, <2>3, <3>1, <3>2 DEF WritesInv
  <2>7. StoreInv' BY <2>2, <2>3, <2>4 DEF StoreInv
  <2>8. ReadsInv'
    <3>1. ASSUME NEW j \in Key, reads[t][j] # NotRead
          PROVE  GroupOf[j] = h /\ reads[t][j] = x.snap[j]
      <4>1. txn[t].group = GroupOf[j] /\ reads[t][j] = txn[t].snap[j]
        BY <2>4, <3>1 DEF ReadsInv
      <4>2. txn[t].group = h BY <4>1, <1>3, SentinelAssumption, GroupAssumption
      <4>3. QED BY <2>1, <4>1, <4>2
    <3>2. QED BY <2>2, <2>3, <2>4, <3>1 DEF ReadsInv
  <2>9. UnusedInv' BY <2>2, <2>3 DEF UnusedInv
  <2>10. SnapshotInv' BY <2>1, <2>2, <2>3, <2>4 DEF SnapshotInv
  <2>11. QED BY <2>5, <2>6, <2>7, <2>8, <2>9, <2>10
<1>4. CASE txn[t].group \notin {NoGroup, h}
  <2>1. K = {} BY <1>1, <1>2, <1>4 DEF AllIn
  <2>2. x = txn[t] BY <1>4 DEF Enrolled
  <2>3. txn[t] \in Txn BY DEF StoreTypeOK
  <2>4. y = txn[t] BY <2>1, <2>2, <2>3 DEF Txn, Writes
  <2>5. txn' = txn BY <1>1, <2>4 DEF StoreTypeOK
  <2>6. UNCHANGED <<store, version, outcome, reads, txn>> BY <2>5 DEF WritesIn, TxnWrite
  <2>7. QED BY <2>6 DEF OutcomeInv, WritesInv, StoreInv, ReadsInv, UnusedInv, SnapshotInv
<1>5. QED BY <1>3, <1>4
\* A step that changes the store raises the version of the groups it changes.
VersionsGrow ==
  \A g \in Group :
    /\ version'[g] \in Nat /\ version'[g] >= version[g]
    /\ version'[g] = version[g] =>
         \A k \in Key : GroupOf[k] = g => store'[k] = store[k]

\* Versions only grow: a snapshot once outdated never commits an update.
LEMMA OutdatedStaysOutdated ==
  ASSUME StoreTypeOK, SafeInv, VersionsGrow, NEW t \in TxId,
         txn[t].state = "active", txn[t].group # NoGroup
  PROVE  /\ txn[t].ver <= version'[txn[t].group]
         /\ txn[t].ver = version'[txn[t].group] =>
              \A k \in Key : GroupOf[k] = txn[t].group => txn[t].snap[k] = store'[k]
<1> DEFINE g == txn[t].group
<1>1. g \in Group /\ txn[t].ver \in Nat /\ version[g] \in Nat BY DEF StoreTypeOK, Txn
<1>2. /\ txn[t].ver <= version[g]
      /\ txn[t].ver = version[g] =>
           \A k \in Key : GroupOf[k] = g => txn[t].snap[k] = store[k]
  BY DEF SafeInv, SnapshotInv
<1>3. /\ version'[g] \in Nat /\ version'[g] >= version[g]
      /\ version'[g] = version[g] =>
           \A k \in Key : GroupOf[k] = g => store'[k] = store[k]
  BY <1>1 DEF VersionsGrow
<1> HIDE DEF g
<1>4. txn[t].ver <= version'[g] BY <1>1, <1>2, <1>3
<1>5. ASSUME txn[t].ver = version'[g], NEW k \in Key, GroupOf[k] = g
      PROVE  txn[t].snap[k] = store'[k]
  <2>1. version'[g] = version[g] /\ txn[t].ver = version[g] BY <1>1, <1>2, <1>3, <1>5
  <2>2. QED BY <1>2, <1>3, <1>5, <2>1
<1>6. QED BY <1>4, <1>5 DEF g

\* A write outside any transaction keeps the safety invariant.
LEMMA WritesDirectlySafe ==
  ASSUME StoreTypeOK, SafeInv, NEW K \in SUBSET Key, NEW content \in {Direct, NoEntity},
         WritesDirectly(K, content)
  PROVE  SafeInv'
<1> USE DEF SafeInv
<1>1. /\ \A k \in Key : store'[k] = IF k \in K THEN content ELSE store[k]
      /\ \A g \in Group : version'[g] = IF \E k \in K : GroupOf[k] = g
                                         THEN version[g] + 1 ELSE version[g]
      /\ UNCHANGED <<txn, outcome, reads>>
  BY DEF WritesDirectly, DirectWrite
<1>2. VersionsGrow BY <1>1 DEF VersionsGrow, StoreTypeOK
<1>3. OutcomeInv' BY <1>1 DEF OutcomeInv
<1>4. WritesInv' BY <1>1 DEF WritesInv
<1>5. StoreInv'
  <2>1. content \notin TxId BY WriterAssumption, SentinelAssumption, ValueAssumption
  <2>2. QED BY <1>1, <2>1 DEF StoreInv
<1>6. ReadsInv' BY <1>1 DEF ReadsInv
<1>7. UnusedInv' BY <1>1 DEF UnusedInv
<1>8. SnapshotInv' BY <1>1, <1>2, OutdatedStaysOutdated DEF SnapshotInv
<1>9. QED BY <1>3, <1>4, <1>5, <1>6, <1>7, <1>8

\* What closing a transaction keeps of it.
LEMMA ClosedKeeps ==
  ASSUME StoreTypeOK, NEW t \in TxId, NEW state
  PROVE  /\ Closed(t, state).state = state
         /\ Closed(t, state).group = txn[t].group
         /\ Closed(t, state).writes = txn[t].writes
BY DEF StoreTypeOK, Closed, Txn

\* So does a commit that the service carries out.
LEMMA AppliesSafe ==
  ASSUME StoreTypeOK, CallTypeOK, SafeInv, NEW t \in TxId,
         NEW answer \in {"returned", "unknown"}, Applies(t, answer)
  PROVE  SafeInv'
<1> USE DEF SafeInv
<1>1. /\ txn[t].state = "active"
      /\ \A u \in TxId \ {t} : txn'[u] = txn[u] /\ outcome'[u] = outcome[u]
      /\ txn'[t] = Closed(t, "committed") /\ outcome'[t] = answer
      /\ \A k \in Key : store'[k] = IF k \in Wrote(t) THEN txn[t].writes[k] ELSE store[k]
      /\ version' = IF ReadOnly(t) THEN version ELSE [version EXCEPT ![txn[t].group] = @ + 1]
      /\ UNCHANGED reads
  BY DEF Applies, ApplyWrites, StoreTypeOK, CallTypeOK
<1>2. /\ txn'[t].state = "committed"
      /\ txn'[t].group = txn[t].group
      /\ txn'[t].writes = txn[t].writes
  BY <1>1, ClosedKeeps
<1>3. VersionsGrow
  <2> SUFFICES ASSUME NEW g \in Group
               PROVE  /\ version'[g] \in Nat /\ version'[g] >= version[g]
                      /\ version'[g] = version[g] =>
                           \A k \in Key : GroupOf[k] = g => store'[k] = store[k]
    BY DEF VersionsGrow
  <2>1. version \in [Group -> Nat] BY DEF StoreTypeOK
  <2>2. CASE ReadOnly(t) BY <1>1, <2>1, <2>2 DEF ReadOnly
  <2>3. CASE ~ReadOnly(t) /\ txn[t].group = g
    <3>1. version'[g] = version[g] + 1 BY <1>1, <2>1, <2>3
    <3>2. QED BY <2>1, <3>1
  <2>4. CASE ~ReadOnly(t) /\ txn[t].group # g
    <3>1. version'[g] = version[g] BY <1>1, <2>1, <2>4
    <3>2. \A k \in Key : GroupOf[k] = g => k \notin Wrote(t) BY <2>4 DEF Wrote, WritesInv
    <3>3. QED BY <1>1, <2>1, <3>1, <3>2
  <2>5. QED BY <2>2, <2>3, <2>4
<1>4. OutcomeInv' BY <1>1, <1>2 DEF OutcomeInv
<1>5. WritesInv' BY <1>1, <1>2 DEF WritesInv
<1>6. StoreInv'
  <2>1. \A k \in Wrote(t) : txn[t].writes[k] \in {t, NoEntity} BY DEF Wrote, WritesInv
  <2>2. NoEntity \notin TxId BY SentinelAssumption, ValueAssumption
  <2>3. QED BY <1>1, <1>2, <2>1, <2>2 DEF StoreInv
<1>7. ReadsInv' BY <1>1, <1>2 DEF ReadsInv
<1>8. UnusedInv' BY <1>1, <1>2 DEF UnusedInv
<1>9. SnapshotInv' BY <1>1, <1>2, <1>3, OutdatedStaysOutdated DEF SnapshotInv
<1>10. QED BY <1>4, <1>5, <1>6, <1>7, <1>8, <1>9

\* So does a transaction that ends without effect.
LEMMA DropsSafe ==
  ASSUME StoreTypeOK, CallTypeOK, SafeInv, NEW t \in TxId,
         NEW state \in {"rolledback", "failed"}, NEW answer \in {"threw", "conflict", "unknown"},
         Drops(t, state, answer)
  PROVE  SafeInv'
<1> USE DEF SafeInv
<1>1. /\ txn[t].state = "active"
      /\ \A u \in TxId \ {t} : txn'[u] = txn[u] /\ outcome'[u] = outcome[u]
      /\ txn'[t] = Closed(t, state) /\ outcome'[t] = answer
      /\ UNCHANGED <<store, version, reads>>
  BY DEF Drops, DropWrites, StoreTypeOK, CallTypeOK
<1>2. /\ txn'[t].state = state
      /\ txn'[t].group = txn[t].group
      /\ txn'[t].writes = txn[t].writes
  BY <1>1, ClosedKeeps
<1>3. OutcomeInv' BY <1>1, <1>2 DEF OutcomeInv
<1>4. WritesInv' BY <1>1, <1>2 DEF WritesInv
<1>5. StoreInv' BY <1>1, <1>2 DEF StoreInv
<1>6. ReadsInv' BY <1>1, <1>2 DEF ReadsInv
<1>7. UnusedInv' BY <1>1, <1>2 DEF UnusedInv
<1>8. SnapshotInv' BY <1>1, <1>2 DEF SnapshotInv
<1>9. QED BY <1>3, <1>4, <1>5, <1>6, <1>7, <1>8

\* So does the death of a request.
LEMMA ExpiresSafe ==
  ASSUME StoreTypeOK, SafeInv, NEW T \in SUBSET TxId, Expires(T)
  PROVE  SafeInv'
<1> USE DEF SafeInv
<1>1. /\ \A u \in TxId \ T : txn'[u] = txn[u] /\ outcome'[u] = outcome[u]
      /\ \A u \in T : txn[u].state = "active" /\ outcome'[u] = "killed"
      /\ \A u \in T : txn'[u] = Closed(u, "expired")
      /\ UNCHANGED <<store, version, reads>>
  BY DEF Expires
<1>2. \A u \in T : /\ txn'[u].state = "expired"
                   /\ txn'[u].group = txn[u].group
                   /\ txn'[u].writes = txn[u].writes
  BY <1>1, ClosedKeeps
<1>3. OutcomeInv' BY <1>1, <1>2 DEF OutcomeInv
<1>4. WritesInv' BY <1>1, <1>2 DEF WritesInv
<1>5. StoreInv' BY <1>1, <1>2 DEF StoreInv
<1>6. ReadsInv' BY <1>1, <1>2 DEF ReadsInv
<1>7. UnusedInv' BY <1>1, <1>2 DEF UnusedInv
<1>8. SnapshotInv' BY <1>1, <1>2 DEF SnapshotInv
<1>9. QED BY <1>3, <1>4, <1>5, <1>6, <1>7, <1>8

\* The safety invariant is inductive, given the types.
LEMMA StepSafe == TypeInv /\ SafeInv /\ [Next]_vars => SafeInv'
<1> SUFFICES ASSUME TypeInv, SafeInv, [Next]_vars PROVE SafeInv' OBVIOUS
<1>1. StoreTypeOK /\ CallTypeOK BY TypeInvParts
<1>2. Kinds BY StepKinds
<1>3. CASE UNCHANGED <<store, version, txn, outcome, reads>>
  BY <1>3 DEF SafeInv, OutcomeInv, WritesInv, StoreInv, ReadsInv, UnusedInv, SnapshotInv
<1>4. QED
  BY <1>1, <1>2, <1>3, OpensSafe, GetsSafe, WritesSafe, WritesDirectlySafe,
     AppliesSafe, DropsSafe, ExpiresSafe DEF Kinds

\* The inductive invariant from which the properties below follow, for the whole
\* of runInTransaction (db.js:146-161), in every reachable state.
THEOREM Safety == Spec => [](TypeInv /\ SafeInv)
<1>1. Init => TypeInv /\ SafeInv BY InitTypes, InitSafe
<1>2. TypeInv /\ SafeInv /\ [Next]_vars => (TypeInv /\ SafeInv)'
  BY StepTypes, StepSafe
<1>3. QED BY <1>1, <1>2, PTL DEF Spec

\* Whatever runInTransaction told its caller is what happened to the
\* transaction (db.js:152-160).
THEOREM Truthful == Spec => []OutcomeIsTruthful
<1>1. SafeInv => OutcomeIsTruthful BY DEF SafeInv, OutcomeInv, OutcomeIsTruthful
<1>2. QED BY <1>1, Safety, PTL

\* No update of an open, rolled back, conflicting or killed transaction is
\* ever in the store (db.js:139-142, 154-158).
THEOREM NoDirty == Spec => []NoDirtyData
<1>1. SafeInv => NoDirtyData BY DEF SafeInv, StoreInv, OutcomeInv, NoDirtyData
<1>2. QED BY <1>1, Safety, PTL

-----------------------------------------------------------------------------
(***************************************************************************)
(* The action properties.                                                  *)
(***************************************************************************)
\* A transaction becomes committed, or its writes become visible, only in
\* the step that applies it.
LEMMA CommittedByApplying ==
  ASSUME TypeInv, SafeInv, [Next]_vars, NEW t \in TxId,
         \/ txn[t].state = "active" /\ txn'[t].state = "committed"
         \/ outcome[t] = "running" /\ outcome'[t] = "returned"
         \/ \E k \in Key : store'[k] = t /\ store[k] # t
  PROVE  txn[t].state = "active" /\ ApplyWrites(t) /\ UNCHANGED reads
<1> DEFINE Goal == txn[t].state = "active" /\ ApplyWrites(t) /\ UNCHANGED reads
<1>0. StoreTypeOK /\ CallTypeOK /\ Kinds BY TypeInvParts, StepKinds
<1> DEFINE Visible == \E k \in Key : store'[k] = t /\ store[k] # t
           Turns == txn[t].state = "active" /\ txn'[t].state = "committed"
           Told == outcome[t] = "running" /\ outcome'[t] = "returned"
<1>1. ASSUME NEW u \in TxId, Opens(u) PROVE ~Visible /\ ~Turns /\ ~Told
  BY <1>0, <1>1 DEF Opens, StoreTypeOK, CallTypeOK, Txn
<1>2. ASSUME NEW u \in TxId, NEW k \in Key, Gets(u, k) PROVE ~Visible /\ ~Turns /\ ~Told
  <2>1. ActiveKept BY <1>0, <1>2, GetTypes DEF Gets
  <2>2. QED BY <1>2, <2>1 DEF Gets, TxnGet, ActiveKept
<1>3. ASSUME NEW u \in TxId, NEW K \in SUBSET Key, NEW c \in {u, NoEntity}, WritesIn(u, K, c)
      PROVE  ~Visible /\ ~Turns /\ ~Told
  <2>1. ActiveKept BY <1>0, <1>3, WriteTypes, ValueAssumption DEF WritesIn, Content
  <2>2. QED BY <1>3, <2>1 DEF WritesIn, TxnWrite, ActiveKept
<1>4. ASSUME NEW K \in SUBSET Key, NEW c \in {Direct, NoEntity}, WritesDirectly(K, c)
      PROVE  ~Visible /\ ~Turns /\ ~Told
  <2>1. c # t BY WriterAssumption, SentinelAssumption, ValueAssumption
  <2>2. QED BY <1>4, <2>1 DEF WritesDirectly, DirectWrite
<1>5. ASSUME NEW u \in TxId, NEW a \in {"returned", "unknown"}, Applies(u, a), u # t
      PROVE  ~Visible /\ ~Turns /\ ~Told
  <2>1. txn'[t] = txn[t] /\ outcome'[t] = outcome[t]
    BY <1>0, <1>5 DEF Applies, ApplyWrites, StoreTypeOK, CallTypeOK
  <2>2. \A k \in Wrote(u) : txn[u].writes[k] # t
    BY <1>5, SentinelAssumption, ValueAssumption DEF SafeInv, WritesInv, Wrote
  <2>3. QED BY <1>5, <2>1, <2>2 DEF Applies, ApplyWrites
<1>6. ASSUME NEW u \in TxId, NEW s \in {"rolledback", "failed"},
             NEW a \in {"threw", "conflict", "unknown"}, Drops(u, s, a)
      PROVE  ~Visible /\ ~Turns /\ ~Told
  BY <1>0, <1>6, ClosedKeeps DEF Drops, DropWrites, StoreTypeOK, CallTypeOK
<1>7. ASSUME NEW T \in SUBSET TxId, Expires(T) PROVE ~Visible /\ ~Turns /\ ~Told
  BY <1>0, <1>7, ClosedKeeps DEF Expires
<1>8. CASE UNCHANGED <<store, version, txn, outcome, reads>>
  BY <1>8
<1>9. PICK a \in {"returned", "unknown"} : Applies(t, a)
  BY <1>0, <1>1, <1>2, <1>3, <1>4, <1>5, <1>6, <1>7, <1>8 DEF Kinds
<1>10. QED BY <1>9 DEF Applies

\* What the function of a transaction that writes and is up to date read is
\* what the store holds.
LEMMA ReadsAreCurrent ==
  ASSUME SafeInv, NEW t \in TxId, txn[t].state = "active", UpToDate(t), ~ReadOnly(t),
         NEW k \in Key
  PROVE  reads[t][k] \in {NotRead, store[k]}
<1>1. txn[t].ver = version[txn[t].group] BY DEF UpToDate
<1>2. ASSUME reads[t][k] # NotRead PROVE reads[t][k] = store[k]
  <2>1. txn[t].group = GroupOf[k] /\ reads[t][k] = txn[t].snap[k]
    BY <1>2 DEF SafeInv, ReadsInv
  <2>2. txn[t].group # NoGroup BY <2>1, GroupAssumption, SentinelAssumption
  <2>3. QED BY <1>1, <2>1, <2>2 DEF SafeInv, SnapshotInv
<1>3. QED BY <1>2

\* A transaction that writes takes effect only on what its function read
\* (db.js:158): no update made in between is lost.
THEOREM NoUpdateLost == Spec => NoLostUpdate
<1>1. ASSUME TypeInv, SafeInv, [Next]_vars, NEW t \in TxId,
             txn[t].state = "active", txn'[t].state = "committed", ~ReadOnly(t),
             NEW k \in Key
      PROVE  reads[t][k] \in {NotRead, store[k]}
  <2>1. ApplyWrites(t) BY <1>1, CommittedByApplying
  <2>2. UpToDate(t) BY <2>1 DEF ApplyWrites
  <2>3. QED BY <1>1, <2>2, ReadsAreCurrent
<1>2. TypeInv /\ SafeInv /\ [Next]_vars =>
        [\A t \in TxId :
          (txn[t].state = "active" /\ txn'[t].state = "committed" /\ ~ReadOnly(t))
            => \A k \in Key : reads[t][k] \in {NotRead, store[k]}]_vars
  BY <1>1
<1>3. QED BY <1>2, Safety, PTL DEF Spec, NoLostUpdate

\* The writes of a transaction reach the store together, and have reached it
\* when its caller is told that the call returned (db.js:139-142, 158).
THEOREM AllOrNothing == Spec => CommitIsAtomic
<1>1. ASSUME TypeInv, SafeInv, [Next]_vars, NEW t \in TxId,
             \/ \E k \in Key : store'[k] = t /\ store[k] # t
             \/ outcome[t] = "running" /\ outcome'[t] = "returned",
             NEW j \in Wrote(t)
      PROVE  store'[j] = txn[t].writes[j]
  <2>1. ApplyWrites(t) BY <1>1, CommittedByApplying
  <2>2. QED BY <2>1 DEF ApplyWrites, Wrote
<1>2. TypeInv /\ SafeInv /\ [Next]_vars =>
        [\A t \in TxId :
          (\/ \E k \in Key : store'[k] = t /\ store[k] # t
           \/ outcome[t] = "running" /\ outcome'[t] = "returned")
            => \A j \in Wrote(t) : store'[j] = txn[t].writes[j]]_vars
  BY <1>1
<1>3. QED BY <1>2, Safety, PTL DEF Spec, CommitIsAtomic

-----------------------------------------------------------------------------
(***************************************************************************)
(* What the mapping makes of the state: the updates functions asked for,   *)
(* what their callers have been told, and what those that updated          *)
(* something had read.                                                     *)
(***************************************************************************)
Askeds == [t \in TxId |-> txn[t].writes]
Answers == [t \in TxId |-> Answered[outcome[t]]]
Seens == [t \in TxId |-> IF Updated(t) THEN reads[t] ELSE [k \in Key |-> NotRead]]

AtomicStep == [Atomic!AtomicNext]_(Atomic!aVars)

\* The steps of AtomicStore, as they look from here.
LEMMA AskStep ==
  ASSUME NEW t \in TxId, Answers[t] = "none", UNCHANGED <<store, Answers, Seens>>,
         Askeds' = [Askeds EXCEPT ![t] = Askeds'[t]],
         Askeds'[t] \in [Key -> {t, NoEntity, NoWrite}],
         \A k \in Key : Askeds'[t][k] \in {Askeds[t][k], t, NoEntity}
  PROVE  Atomic!Ask(t)
BY DEF Atomic!Ask, Askeds, Answers, Seens

LEMMA UpdateStep ==
  ASSUME NEW t \in TxId, Answers[t] = "none",
         NEW told \in {"returned", "unknown"}, Answers' = [Answers EXCEPT ![t] = told],
         Askeds[t] # [k \in Key |-> NoWrite], UNCHANGED Askeds,
         store' = [k \in Key |-> IF Askeds[t][k] = NoWrite THEN store[k] ELSE Askeds[t][k]],
         Seens' = [Seens EXCEPT ![t] = Seens'[t]],
         Seens'[t] \in [Key -> Value \cup {NoEntity, NotRead}],
         \A k \in Key : Seens'[t][k] \in {NotRead, store[k]}
  PROVE  Atomic!Update(t)
<1>1. Answers' \in {[Answers EXCEPT ![t] = o] : o \in {"returned", "unknown"}} OBVIOUS
<1>2. QED
  BY <1>1 DEF Atomic!Update, Atomic!Done, Atomic!NothingAsked, Askeds, Answers, Seens

LEMMA NoUpdateStep ==
  ASSUME NEW t \in TxId, Answers[t] = "none",
         NEW told \in {"returned", "unknown"}, Answers' = [Answers EXCEPT ![t] = told],
         Askeds[t] = [k \in Key |-> NoWrite], UNCHANGED <<store, Askeds, Seens>>
  PROVE  Atomic!NoUpdate(t)
<1>1. Answers' \in {[Answers EXCEPT ![t] = o] : o \in {"returned", "unknown"}} OBVIOUS
<1>2. QED
  BY <1>1 DEF Atomic!NoUpdate, Atomic!Done, Atomic!NothingAsked, Askeds, Answers, Seens

\* A write outside any transaction is one of AtomicStore.
LEMMA WriteDirectlyStep ==
  ASSUME store' \in [Key -> Value \cup {NoEntity}],
         \A k \in Key : store'[k] \in {store[k], Direct, NoEntity},
         UNCHANGED <<Askeds, Answers, Seens>>
  PROVE  Atomic!WriteDirectly
BY DEF Atomic!WriteDirectly, Askeds, Answers, Seens

\* Nothing that AtomicStore sees changes.
Quiet == UNCHANGED <<store, Askeds, Answers, Seens>>

\* Calls end, of functions that leave no trace in the store.
EndsInVain ==
  /\ Answers' \in [TxId -> {"none", "returned", "failed", "unknown"}]
  /\ \A t \in TxId : \/ Answers'[t] = Answers[t]
                     \/ Answers[t] = "none" /\ Answers'[t] \in {"failed", "unknown"}
  /\ UNCHANGED <<store, Askeds, Seens>>

-----------------------------------------------------------------------------
\* An active transaction has updated nothing and its caller knows nothing.
LEMMA ActiveIsUnanswered ==
  ASSUME SafeInv, NEW t \in TxId, txn[t].state = "active"
  PROVE  ~Updated(t) /\ outcome[t] = "running" /\ Answers[t] = "none"
<1>1. outcome[t] = "running" BY DEF SafeInv, OutcomeInv
<1>2. QED BY <1>1 DEF Updated, Answers, Answered

\* What functions had read stays while nothing becomes an update.
LEMMA SeensKept ==
  ASSUME \A t \in TxId : Updated(t)' <=> Updated(t),
         \A t \in TxId : Updated(t) => reads'[t] = reads[t]
  PROVE  UNCHANGED Seens
BY DEF Seens

\* A transaction that is opened, reads or writes has updated nothing yet.
LEMMA StillActive ==
  ASSUME SafeInv, NEW t \in TxId, ~Updated(t), txn'[t].state = "active",
         \A u \in TxId \ {t} : txn'[u] = txn[u] /\ reads'[u] = reads[u]
  PROVE  UNCHANGED Seens
<1>1. ~Updated(t)' BY DEF Updated
<1>2. \A u \in TxId \ {t} : Updated(u)' <=> Updated(u) BY DEF Updated, ReadOnly, Wrote
<1>3. QED BY <1>1, <1>2, SeensKept

\* Closing a transaction keeps its writes.
LEMMA ClosedUpdated ==
  ASSUME StoreTypeOK, NEW t \in TxId, NEW state \in TxnState, txn'[t] = Closed(t, state)
  PROVE  Updated(t)' <=> state = "committed" /\ ~ReadOnly(t)
<1>1. txn'[t].state = state /\ txn'[t].writes = txn[t].writes
  BY DEF Closed, StoreTypeOK, Txn
<1>2. QED BY <1>1 DEF Updated, ReadOnly, Wrote

\* What callers are told.
LEMMA AnswerOf ==
  /\ Answered["none"] = "none" /\ Answered["running"] = "none"
  /\ Answered["returned"] = "returned" /\ Answered["unknown"] = "unknown"
  /\ Answered["threw"] = "failed" /\ Answered["conflict"] = "failed"
  /\ Answered["killed"] = "failed"
  /\ \A o \in Outcome : Answered[o] \in {"none", "returned", "failed", "unknown"}
BY DEF Answered, Outcome

\* One caller is told something.
LEMMA AnswersAfter ==
  ASSUME CallTypeOK, NEW t \in TxId, NEW o \in Outcome, outcome' = [outcome EXCEPT ![t] = o]
  PROVE  Answers' = [Answers EXCEPT ![t] = Answered[o]]
BY DEF CallTypeOK, Answers

-----------------------------------------------------------------------------
(***************************************************************************)
(* The seven things a step can do to the datastore.                        *)
(***************************************************************************)
LEMMA OpensQuiet ==
  ASSUME TypeInv, SafeInv, NEW t \in TxId, Opens(t) PROVE Quiet
<1>0. StoreTypeOK /\ CallTypeOK BY TypeInvParts
<1>1. outcome[t] = "none" BY DEF Opens, SafeInv, OutcomeInv
<1>2. Answers' = [Answers EXCEPT ![t] = "none"] /\ Answers[t] = "none"
  BY <1>0, <1>1, AnswersAfter, AnswerOf DEF Opens, Answers, Outcome
<1>3. Answers' = Answers BY <1>2 DEF Answers
<1>4. ~Updated(t) BY DEF Opens, Updated
<1>5. txn'[t].state = "active" /\ \A u \in TxId \ {t} : txn'[u] = txn[u]
  BY <1>0 DEF Opens, StoreTypeOK, Txn
<1>6. UNCHANGED Seens BY <1>4, <1>5, StillActive DEF Opens
<1>7. txn'[t].writes = txn[t].writes BY <1>0 DEF Opens, StoreTypeOK, Txn
<1>8. UNCHANGED Askeds BY <1>5, <1>7 DEF Askeds
<1>9. QED BY <1>3, <1>6, <1>8 DEF Opens, Quiet

\* A read in a transaction is a stutter of AtomicStore.
LEMMA GetsQuiet ==
  ASSUME TypeInv, SafeInv, NEW t \in TxId, NEW k \in Key, Gets(t, k) PROVE Quiet
<1>0. StoreTypeOK /\ CallTypeOK BY TypeInvParts
<1>1. ActiveKept BY <1>0, GetTypes DEF Gets
<1>2. txn'[t].state = "active" /\ ~Updated(t)
  BY <1>1, ActiveIsUnanswered DEF Gets, ActiveKept
<1>3. \A u \in TxId \ {t} : txn'[u] = txn[u] /\ reads'[u] = reads[u]
  BY <1>0 DEF Gets, TxnGet, StoreTypeOK, CallTypeOK
<1>4. UNCHANGED Seens BY <1>2, <1>3, StillActive
<1>5. UNCHANGED <<store, Answers>> BY DEF Gets, TxnGet, Answers
<1>6. txn'[t].writes = txn[t].writes
  BY <1>0 DEF Gets, TxnGet, Enrolled, StoreTypeOK, Txn
<1>7. UNCHANGED Askeds BY <1>3, <1>6 DEF Askeds
<1>8. QED BY <1>4, <1>5, <1>7 DEF Quiet

\* An update in one is asked for, and not made until it commits.
LEMMA WritesAsk ==
  ASSUME TypeInv, SafeInv, NEW t \in TxId, NEW K \in SUBSET Key, NEW c \in {t, NoEntity},
         WritesIn(t, K, c)
  PROVE  Atomic!Ask(t)
<1>0. StoreTypeOK /\ CallTypeOK BY TypeInvParts
<1>1. ActiveKept BY <1>0, WriteTypes, ValueAssumption DEF WritesIn, Content
<1>2. txn'[t].state = "active" /\ ~Updated(t) /\ Answers[t] = "none"
  BY <1>1, ActiveIsUnanswered DEF WritesIn, ActiveKept
<1>3. \A u \in TxId \ {t} : txn'[u] = txn[u] /\ reads'[u] = reads[u]
  BY <1>0 DEF WritesIn, TxnWrite, StoreTypeOK
<1>4. UNCHANGED Seens BY <1>2, <1>3, StillActive
<1>5. UNCHANGED <<store, Answers>> BY DEF WritesIn, TxnWrite, Answers
<1>6. PICK g \in Group : txn'[t] =
        [Enrolled(t, g) EXCEPT !.writes = [k \in Key |-> IF k \in K THEN c ELSE @[k]]]
  BY <1>0 DEF WritesIn, TxnWrite, StoreTypeOK
<1>7. Enrolled(t, g) \in Txn /\ Enrolled(t, g).writes = txn[t].writes
  BY <1>0 DEF Enrolled, StoreTypeOK, Txn, SnapshotOf, Snapshot, Content
<1>8. txn'[t].writes = [k \in Key |-> IF k \in K THEN c ELSE txn[t].writes[k]]
  BY <1>6, <1>7 DEF Txn
<1>9. \A k \in Key : txn[t].writes[k] \in {NoWrite, NoEntity, t} BY DEF SafeInv, WritesInv
<1>10. /\ Askeds'[t] \in [Key -> {t, NoEntity, NoWrite}]
       /\ \A k \in Key : Askeds'[t][k] \in {Askeds[t][k], t, NoEntity}
  BY <1>8, <1>9 DEF Askeds
<1>11. Askeds' = [Askeds EXCEPT ![t] = Askeds'[t]] BY <1>3 DEF Askeds
<1>12. QED BY <1>2, <1>4, <1>5, <1>10, <1>11, AskStep

\* A write outside any transaction is one of AtomicStore.
LEMMA DirectEffect ==
  ASSUME TypeInv, SafeInv, NEW K \in SUBSET Key, NEW c \in {Direct, NoEntity},
         WritesDirectly(K, c)
  PROVE  Atomic!WriteDirectly
<1>0. StoreTypeOK BY TypeInvParts
<1>1. c \in Content BY ValueAssumption DEF Content
<1>2. store' \in [Key -> Value \cup {NoEntity}]
  BY <1>0, <1>1 DEF WritesDirectly, DirectWrite, StoreTypeOK, Content
<1>3. \A k \in Key : store'[k] \in {store[k], Direct, NoEntity}
  BY DEF WritesDirectly, DirectWrite
<1>4. UNCHANGED Seens
  BY SeensKept DEF WritesDirectly, DirectWrite, Updated, ReadOnly, Wrote
<1>5. UNCHANGED <<Askeds, Answers>> BY DEF WritesDirectly, DirectWrite, Askeds, Answers
<1>6. QED BY <1>2, <1>3, <1>4, <1>5, WriteDirectlyStep

\* A commit is the update, on what the function read if it wrote anything.
LEMMA AppliesEffect ==
  ASSUME TypeInv, SafeInv, NEW t \in TxId, NEW a \in {"returned", "unknown"}, Applies(t, a)
  PROVE  Atomic!Update(t) \/ Atomic!NoUpdate(t)
<1>0. StoreTypeOK /\ CallTypeOK /\ StoreTypeOK'
  BY TypeInvParts, ApplyTypes DEF Applies
<1>1. ~Updated(t) /\ Answers[t] = "none" BY ActiveIsUnanswered DEF Applies
<1>2. Answers' = [Answers EXCEPT ![t] = a]
  BY <1>0, AnswersAfter, AnswerOf DEF Applies, Outcome
<1>3. txn' = [txn EXCEPT ![t] = Closed(t, "committed")] /\ UpToDate(t) /\ UNCHANGED reads
  BY DEF Applies, ApplyWrites
<1>4. \A u \in TxId \ {t} : txn'[u] = txn[u] BY <1>0, <1>3 DEF StoreTypeOK
<1>5. \A u \in TxId \ {t} : Updated(u)' <=> Updated(u)
  BY <1>4 DEF Updated, ReadOnly, Wrote
<1>6. Updated(t)' <=> ~ReadOnly(t)
  BY <1>0, <1>3, ClosedUpdated DEF StoreTypeOK, TxnState
<1>7. UNCHANGED Askeds BY <1>0, <1>3, ClosedKeeps DEF Askeds, StoreTypeOK
<1>8. CASE ReadOnly(t)
  <2>1. UNCHANGED Seens BY <1>1, <1>3, <1>5, <1>6, <1>8, SeensKept
  <2>2. UNCHANGED store BY <1>0, <1>8 DEF Applies, ApplyWrites, ReadOnly, StoreTypeOK
  <2>3. Askeds[t] = [k \in Key |-> NoWrite]
    BY <1>0, <1>8 DEF Askeds, ReadOnly, Wrote, StoreTypeOK, Txn, Writes
  <2>4. QED BY <1>1, <1>2, <1>7, <2>1, <2>2, <2>3, NoUpdateStep
<1>9. CASE ~ReadOnly(t)
  <2>1. /\ Seens'[t] = reads[t]
        /\ \A u \in TxId \ {t} : Seens'[u] = Seens[u]
    BY <1>3, <1>5, <1>6, <1>9 DEF Seens
  <2>2. Seens' = [Seens EXCEPT ![t] = Seens'[t]] BY <2>1 DEF Seens
  <2>3. reads[t] \in [Key -> Value \cup {NoEntity, NotRead}]
    BY <1>0 DEF CallTypeOK, Content
  <2>4. Askeds[t] # [k \in Key |-> NoWrite] BY <1>9 DEF Askeds, ReadOnly, Wrote
  <2>5. store' = [k \in Key |-> IF Askeds[t][k] = NoWrite THEN store[k] ELSE Askeds[t][k]]
    BY DEF Applies, ApplyWrites, Wrote, Askeds
  <2>6. ASSUME NEW k \in Key PROVE reads[t][k] \in {NotRead, store[k]}
    BY <1>3, <1>9, ReadsAreCurrent DEF Applies
  <2>7. QED
    BY <1>1, <1>2, <1>7, <2>1, <2>2, <2>3, <2>4, <2>5, <2>6, UpdateStep
<1>10. QED BY <1>8, <1>9

\* A transaction without effect updates nothing in AtomicStore.
LEMMA DropsEffect ==
  ASSUME TypeInv, SafeInv, NEW t \in TxId, NEW state \in {"rolledback", "failed"},
         NEW a \in {"threw", "conflict", "unknown"}, Drops(t, state, a)
  PROVE  EndsInVain
<1>0. StoreTypeOK /\ CallTypeOK BY TypeInvParts
<1>1. ~Updated(t) /\ Answers[t] = "none" BY ActiveIsUnanswered DEF Drops
<1>2. Answers' = [Answers EXCEPT ![t] = Answered[a]] /\ a \in Outcome
  BY <1>0, AnswersAfter DEF Drops, Outcome
<1>3. txn' = [txn EXCEPT ![t] = Closed(t, state)] BY DEF Drops, DropWrites
<1>4. \A u \in TxId \ {t} : txn'[u] = txn[u] BY <1>0, <1>3 DEF StoreTypeOK
<1>5. \A u \in TxId \ {t} : Updated(u)' <=> Updated(u)
  BY <1>4 DEF Updated, ReadOnly, Wrote
<1>6. ~Updated(t)' BY <1>0, <1>3, ClosedUpdated DEF StoreTypeOK, TxnState
<1>7. UNCHANGED <<store, Askeds, Seens>>
  <2>1. txn'[t].writes = txn[t].writes BY <1>0, <1>3, ClosedKeeps DEF StoreTypeOK, TxnState
  <2>2. UNCHANGED Askeds BY <1>4, <2>1 DEF Askeds
  <2>3. QED BY <1>1, <1>5, <1>6, <2>2, SeensKept DEF Drops, DropWrites
<1>8. Answers \in [TxId -> {"none", "returned", "failed", "unknown"}]
  BY <1>0, AnswerOf DEF Answers, CallTypeOK
<1>9. Answered[a] \in {"failed", "unknown"} BY AnswerOf
<1>10. QED BY <1>1, <1>2, <1>7, <1>8, <1>9 DEF EndsInVain

\* Nor do those of a request that dies.
LEMMA ExpiresEffect ==
  ASSUME TypeInv, SafeInv, NEW T \in SUBSET TxId, Expires(T) PROVE EndsInVain
<1>0. StoreTypeOK /\ CallTypeOK BY TypeInvParts
<1>1. \A t \in T : ~Updated(t) /\ Answers[t] = "none" BY ActiveIsUnanswered DEF Expires
<1>2. \A t \in TxId : txn'[t] = IF t \in T THEN Closed(t, "expired") ELSE txn[t]
  BY DEF Expires
<1>3. \A t \in T : ~Updated(t)' BY <1>0, <1>2, ClosedUpdated DEF TxnState
<1>4. \A t \in TxId \ T : Updated(t)' <=> Updated(t) BY <1>2 DEF Updated, ReadOnly, Wrote
<1>5. UNCHANGED <<store, Askeds, Seens>>
  <2>1. \A t \in TxId : txn'[t].writes = txn[t].writes
    BY <1>0, <1>2, ClosedKeeps DEF TxnState
  <2>2. UNCHANGED Askeds BY <2>1 DEF Askeds
  <2>3. QED BY <1>1, <1>3, <1>4, <2>2, SeensKept DEF Expires
<1>6. \A t \in TxId : Answers'[t] = IF t \in T THEN "failed" ELSE Answers[t]
  BY AnswerOf DEF Expires, Answers
<1>7. Answers \in [TxId -> {"none", "returned", "failed", "unknown"}]
  BY <1>0, AnswerOf DEF Answers, CallTypeOK
<1>8. Answers' \in [TxId -> {"none", "returned", "failed", "unknown"}]
  <2>1. Answers' = [t \in TxId |-> Answers'[t]] BY DEF Answers
  <2>2. QED BY <1>6, <1>7, <2>1
<1>9. QED BY <1>1, <1>5, <1>6, <1>8 DEF EndsInVain

-----------------------------------------------------------------------------
\* runInTransaction implements the atomic store: all the updates a function
\* asked for take effect in one step, as if it had run alone then, or none
\* does, and a caller is told "returned" only if they have (db.js:139-161).
THEOREM ImplementsAtomicStore == Spec => RunsAtomically
<1>1. Init => Atomic!AtomicInit
  BY AnswerOf DEF Init, DatastoreInit, Atomic!AtomicInit, Atomic!NothingRead,
      Atomic!NothingAsked, Updated, FreshTxn
<1>2. TypeInv /\ SafeInv /\ [Next]_vars => AtomicStep
  <2> SUFFICES ASSUME TypeInv, SafeInv, [Next]_vars PROVE AtomicStep OBVIOUS
  <2> USE DEF AtomicStep, Atomic!AtomicNext
  <2>1. Kinds BY StepKinds
  <2>2. Answers \in [TxId -> {"none", "returned", "failed", "unknown"}]
    BY TypeInvParts, AnswerOf DEF Answers, CallTypeOK
  <2>3. CASE Quiet BY <2>3 DEF Quiet, Atomic!aVars, Askeds, Answers, Seens
  <2>4. CASE UNCHANGED <<store, version, txn, outcome, reads>>
    <3>1. Quiet BY <2>4 DEF Quiet, Askeds, Answers, Seens, Updated, ReadOnly, Wrote
    <3>2. QED BY <2>3, <3>1
  <2>5. CASE EndsInVain
    BY <2>5 DEF EndsInVain, Atomic!EndInVain, Atomic!Answer, Askeds, Answers, Seens
  <2>6. ASSUME NEW t \in TxId, NEW a \in {"returned", "unknown"}, Applies(t, a)
        PROVE  AtomicStep
    BY <2>6, AppliesEffect
  <2>7. QED
    BY <2>1, <2>3, <2>4, <2>5, <2>6, OpensQuiet, GetsQuiet, WritesAsk, DirectEffect,
       DropsEffect, ExpiresEffect
    DEF Kinds
<1>3. QED
  BY <1>1, <1>2, Safety, PTL
  DEF Spec, RunsAtomically, Atomic!AtomicSpec, AtomicStep
=============================================================================
