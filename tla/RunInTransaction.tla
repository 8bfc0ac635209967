-------------------------- MODULE RunInTransaction --------------------------
(***************************************************************************)
(* runInTransaction of src/lib/google/appengine/ext/db.js (139-161), run by *)
(* several requests at once over the shared datastore, with the db.get,    *)
(* db.put and db.remove calls (64-137) that the functions passed to it, or *)
(* code outside any of them, make.                                         *)
(*                                                                         *)
(*     var tx = JDatastore.beginTransaction();                             *)
(*     try { result = func.apply(null, args); }                            *)
(*     catch (e) { tx.rollback(); throw e; }                               *)
(*     tx.commit();                                                        *)
(*                                                                         *)
(* func is application code: it may get, put and remove, call              *)
(* runInTransaction itself, throw, catch what it calls throws, or return,  *)
(* in any order.  Values are the writer's name, a transaction or Direct,   *)
(* so that a stored value tells which call put it there.                   *)
(***************************************************************************)
EXTENDS Datastore

CONSTANTS
  Direct,        \* the value written by a put outside any transaction
  NotRead,       \* a key a function has not read
  Batches,       \* bound: the lists of keys that db.put and db.remove are given
  MaxDepth,      \* bound: activations of runInTransaction in one request
  MaxVersion     \* bound: a group takes direct writes below this version

ASSUME ValueAssumption == TxId \cup {Direct} \subseteq Value
ASSUME NotReadAssumption == NotRead \notin Value \cup {NoEntity}
ASSUME WriterAssumption == Direct \notin TxId
ASSUME BoundAssumption ==
  Batches \subseteq (SUBSET Key) \ {{}} /\ MaxDepth \in Nat /\ MaxVersion \in Nat

VARIABLES
  call,       \* the tx of each activation of runInTransaction, innermost last
  raised,     \* an exception is on its way up the request's stack
  outcome,    \* what the caller of the activation that opened t was told
  reads,      \* what the function run in t got for each key it asked for
  within      \* the transactions open on t's thread when t began

vars == <<dsVars, call, raised, outcome, reads, within>>

Outcome == {"none", "running", "returned", "threw", "conflict", "unknown", "killed"}

Init ==
  /\ DatastoreInit
  /\ call = [r \in Request |-> <<>>]
  /\ raised = [r \in Request |-> FALSE]
  /\ outcome = [t \in TxId |-> "none"]
  /\ reads = [t \in TxId |-> [k \in Key |-> NotRead]]
  /\ within = [t \in TxId |-> {}]

-----------------------------------------------------------------------------
Calling(r) == call[r] # <<>>
Innermost(r) == Top(call[r])
Pop(s) == SubSeq(s, 1, Len(s) - 1)

Running(r) == ~raised[r]
Raise(r) == raised' = [raised EXCEPT ![r] = TRUE]
Tell(t, answer) == outcome' = [outcome EXCEPT ![t] = answer]
ReturnFrom(r) == call' = [call EXCEPT ![r] = Pop(@)]

\* db.js:151, then func starts.
RunIn(r, t) ==
  /\ Running(r)
  /\ Len(call[r]) < MaxDepth
  /\ BeginTransaction(r, t)
  /\ call' = [call EXCEPT ![r] = Append(@, t)]
  /\ Tell(t, "running")
  /\ within' = [within EXCEPT ![t] = {call[r][i] : i \in 1..Len(call[r])}]
  /\ UNCHANGED <<raised, reads>>

\* Slips of Get: the datastore is asked directly, out of the transaction; an
\* absent entity is answered with something that is neither content nor null.
GetOutside(r, k) ==
  /\ Running(r)
  /\ InTransaction(r)
  /\ reads' = [reads EXCEPT ![CurrentTxn(r)][k] = store[k]]
  /\ UNCHANGED <<dsVars, call, raised, outcome, within>>

GetUndefined(r, k) ==
  /\ Running(r)
  /\ InTransaction(r)
  /\ Accepts(CurrentTxn(r), {k})
  /\ TxnGet(CurrentTxn(r), k)
  /\ reads' = [reads EXCEPT ![CurrentTxn(r)][k] =
                 IF Seen(CurrentTxn(r), k) = NoEntity THEN NoWrite ELSE @]
  /\ UNCHANGED <<call, raised, outcome, within>>

\* db.get of one key, or of each key of a list, in the current transaction.
\* (A get outside any transaction changes nothing.)
Get(r, k) ==
  /\ Running(r)
  /\ InTransaction(r)
  /\ Accepts(CurrentTxn(r), {k})
  /\ TxnGet(CurrentTxn(r), k)
  /\ reads' = [reads EXCEPT ![CurrentTxn(r)][k] = Seen(CurrentTxn(r), k)]
  /\ UNCHANGED <<call, raised, outcome, within>>

\* db.put or db.remove of a list in the current transaction.
Write(r, K, content) ==
  /\ Running(r)
  /\ InTransaction(r)
  /\ Accepts(CurrentTxn(r), K)
  /\ TxnWrite(CurrentTxn(r), K, content)
  /\ UNCHANGED <<call, raised, outcome, reads, within>>

\* A slip of Put: the write bypasses the transaction.
PutBypassing(r, K) ==
  /\ Running(r)
  /\ InTransaction(r)
  /\ DirectWrite(K, CurrentTxn(r))
  /\ UNCHANGED <<call, raised, outcome, reads, within>>

Put(r, K) == InTransaction(r) /\ Write(r, K, CurrentTxn(r))
Remove(r, K) == Write(r, K, NoEntity)

\* The keys are not all in the transaction's group: IllegalArgumentException.
CrossGroup(r, K) ==
  /\ Running(r)
  /\ InTransaction(r)
  /\ ~Accepts(CurrentTxn(r), K)
  /\ Raise(r)
  /\ UNCHANGED <<dsVars, call, outcome, reads, within>>

\* db.put or db.remove of a list outside any transaction.  The batch is not
\* atomic: when the call throws, any of its groups may have been written.
WriteOutside(r, K, content) ==
  /\ Running(r)
  /\ ~InTransaction(r)
  /\ \A k \in K : version[GroupOf[k]] < MaxVersion
  /\ \/ DirectWrite(K, content) /\ UNCHANGED raised
     \/ \E G \in SUBSET {GroupOf[k] : k \in K} :
          /\ DirectWrite({k \in K : GroupOf[k] \in G}, content)
          /\ Raise(r)
  /\ UNCHANGED <<call, outcome, reads, within>>

PutOutside(r, K) == WriteOutside(r, K, Direct)
RemoveOutside(r, K) == WriteOutside(r, K, NoEntity)

\* Application code, or a service call that failed, throws.
Throw(r) ==
  /\ Running(r)
  /\ Raise(r)
  /\ UNCHANGED <<dsVars, call, outcome, reads, within>>

\* A handler in the application code around the failed call, or the server's.
Catch(r) ==
  /\ raised[r]
  /\ raised' = [raised EXCEPT ![r] = FALSE]
  /\ UNCHANGED <<dsVars, call, outcome, reads, within>>

\* Slips of RollbackAndRethrow: no rollback; a commit in a finally clause.
RethrowOnly(r) ==
  /\ raised[r]
  /\ Calling(r)
  /\ Tell(Innermost(r), "threw")
  /\ ReturnFrom(r)
  /\ UNCHANGED <<dsVars, raised, reads, within>>

CommitAndRethrow(r) ==
  /\ raised[r]
  /\ Calling(r)
  /\ ApplyWrites(Innermost(r))
  /\ Leave(r, Innermost(r))
  /\ Tell(Innermost(r), "threw")
  /\ ReturnFrom(r)
  /\ UNCHANGED <<raised, reads, within>>

\* db.js:154-156: the exception leaves func.
RollbackAndRethrow(r) ==
  /\ raised[r]
  /\ Calling(r)
  /\ DropWrites(Innermost(r), "rolledback")
  /\ Leave(r, Innermost(r))
  /\ Tell(Innermost(r), "threw")
  /\ ReturnFrom(r)
  /\ UNCHANGED <<raised, reads, within>>

\* db.js:158: func returned.  commit applies the writes and returns ...
Commit(r) ==
  /\ Running(r)
  /\ Calling(r)
  /\ ApplyWrites(Innermost(r))
  /\ Leave(r, Innermost(r))
  /\ Tell(Innermost(r), "returned")
  /\ ReturnFrom(r)
  /\ UNCHANGED <<raised, reads, within>>

\* A slip of CommitConflict: the exception is swallowed.
ConflictSwallowed(r) ==
  /\ Running(r)
  /\ Calling(r)
  /\ ~UpToDate(Innermost(r))
  /\ DropWrites(Innermost(r), "failed")
  /\ Leave(r, Innermost(r))
  /\ Tell(Innermost(r), "returned")
  /\ ReturnFrom(r)
  /\ UNCHANGED <<raised, reads, within>>

\* ... or throws ConcurrentModificationException.  The call is outside the
\* try block: nothing is rolled back or retried, the caller gets the exception.
CommitConflict(r) ==
  /\ Running(r)
  /\ Calling(r)
  /\ ~UpToDate(Innermost(r))
  /\ DropWrites(Innermost(r), "failed")
  /\ Leave(r, Innermost(r))
  /\ Tell(Innermost(r), "conflict")
  /\ ReturnFrom(r)
  /\ Raise(r)
  /\ UNCHANGED <<reads, within>>

\* ... or throws a timeout, the writes being applied or not.
CommitUnknown(r) ==
  /\ Running(r)
  /\ Calling(r)
  /\ \/ ApplyWrites(Innermost(r))
     \/ DropWrites(Innermost(r), "failed")
  /\ Leave(r, Innermost(r))
  /\ Tell(Innermost(r), "unknown")
  /\ ReturnFrom(r)
  /\ Raise(r)
  /\ UNCHANGED <<reads, within>>

\* The request is killed (deadline, instance shut down) with calls open.
Killed(r) ==
  /\ Calling(r)
  /\ Expire(r)
  /\ outcome' = [t \in TxId |-> IF \E i \in 1..Len(call[r]) : call[r][i] = t
                                THEN "killed" ELSE outcome[t]]
  /\ call' = [call EXCEPT ![r] = <<>>]
  /\ raised' = [raised EXCEPT ![r] = FALSE]
  /\ UNCHANGED <<reads, within>>

\* No request is in the middle of anything.
Idle ==
  /\ \A r \in Request : Running(r) /\ ~Calling(r)
  /\ UNCHANGED vars

\* What a request does next.
RequestStep(r) ==
  \/ \E t \in TxId : RunIn(r, t)
  \/ \E k \in Key : Get(r, k)
  \/ \E K \in Batches : \/ Put(r, K) \/ Remove(r, K) \/ CrossGroup(r, K)
                        \/ PutOutside(r, K) \/ RemoveOutside(r, K)
  \/ Throw(r)
  \/ Catch(r)
  \/ RollbackAndRethrow(r)
  \/ Commit(r)
  \/ CommitConflict(r)
  \/ CommitUnknown(r)

Next == (\E r \in Request : RequestStep(r) \/ Killed(r)) \/ Idle

Spec == Init /\ [][Next]_vars

-----------------------------------------------------------------------------
\* Type invariant of the datastore and of the calls over it (db.js:146-161).
TypeOK ==
  /\ DatastoreTypeOK
  /\ call \in [Request -> Seq(TxId)]
  /\ raised \in [Request -> BOOLEAN]
  /\ outcome \in [TxId -> Outcome]
  /\ reads \in [TxId -> [Key -> Content \cup {NotRead}]]
  /\ within \in [TxId -> SUBSET TxId]

\* No transaction is leaked (db.js:151-158).  The transactions open on a
\* thread are those of the activations of runInTransaction it is inside, in
\* order, so that a call made after one has ended, however it ended, acts in
\* the enclosing transaction or in none, never in one already closed.
NoTransactionLeaks ==
  /\ \A r \in Request : current[r] = call[r]
  /\ \A t \in TxId : (txn[t].state = "active") <=>
       \E r \in Request : \E i \in 1..Len(current[r]) : current[r][i] = t

\* What the caller of runInTransaction is told is what happened
\* (db.js:152-160): a normal return means the updates were committed, an
\* exception from func or a conflict means they never will be.
OutcomeIsTruthful ==
  \A t \in TxId :
    /\ outcome[t] = "returned" => txn[t].state = "committed"
    /\ outcome[t] \in {"threw", "conflict", "killed"} =>
         txn[t].state \in {"rolledback", "failed", "expired"}
    /\ outcome[t] = "running" => txn[t].state = "active"

\* Every stored value was put there by a call that is over and whose caller
\* was not told that it failed (the doc of db.js:139-142): no update of an
\* open, rolled back or conflicting transaction is ever visible.
NoDirtyData ==
  \A k \in Key : store[k] \in TxId => outcome[store[k]] \in {"returned", "unknown"}

\* A transaction that writes takes effect only if everything its function
\* read is still what the store holds, so that no update committed in
\* between, by a transaction or by a direct put, is lost (db.js:158).
NoLostUpdate ==
  [][\A t \in TxId :
       (txn[t].state = "active" /\ txn'[t].state = "committed" /\ ~ReadOnly(t))
         => \A k \in Key : reads[t][k] \in {NotRead, store[k]}]_vars

\* All or nothing (db.js:139-142, 158): when any write of a transaction
\* reaches the store, or its caller is told that the call returned, all of
\* its writes are in the store at that step.
CommitIsAtomic ==
  [][\A t \in TxId :
       (\/ \E k \in Key : store'[k] = t /\ store[k] # t
        \/ outcome[t] = "running" /\ outcome'[t] = "returned")
         => \A j \in Wrote(t) : store'[j] = txn[t].writes[j]]_vars

\* The doc of runInTransaction (db.js:139-142): "If any code raises an
\* exception during the transaction, all datastore updates made in the
\* transaction are rolled back."  A call inside func commits on its own, so
\* its updates stay when the exception ends the enclosing transaction.
AllUpdatesRolledBack ==
  \A k \in Key : store[k] \in TxId /\ outcome[store[k]] = "returned" =>
    \A t \in within[store[k]] : outcome[t] # "threw"

-----------------------------------------------------------------------------
Answered == [none |-> "none", running |-> "none", returned |-> "returned",
             threw |-> "failed", conflict |-> "failed", killed |-> "failed",
             unknown |-> "unknown"]

Updated(t) == txn[t].state = "committed" /\ ~ReadOnly(t)

Atomic == INSTANCE AtomicStore WITH
  asked <- [t \in TxId |-> txn[t].writes],
  answer <- [t \in TxId |-> Answered[outcome[t]]],
  seen <- [t \in TxId |-> IF Updated(t) THEN reads[t] ELSE [k \in Key |-> NotRead]]

\* runInTransaction over the datastore implements the atomic store
\* (db.js:139-161): all the updates a function asked for take effect in one
\* step, as if it had run alone then, and no caller is told that it returned
\* unless they have.
RunsAtomically == Atomic!AtomicSpec
=============================================================================
