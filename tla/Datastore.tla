----------------------------- MODULE Datastore -----------------------------
(***************************************************************************)
(* The App Engine datastore service, as src/lib/google/appengine/ext/db.js *)
(* and ext/db/model.js use it through JDatastore.  The service is not part *)
(* of the repository: everything here is external, and is what the calls   *)
(* in the code rely on.                                                    *)
(*                                                                         *)
(* - beginTransaction() pushes a transaction on a stack kept per thread,   *)
(*   one thread per request; get, put and delete take part in the          *)
(*   transaction on top of that stack, or act directly when it is empty.   *)
(* - A transaction works in one entity group.  Its first operation fixes   *)
(*   the group, the group's version and the snapshot all its reads see;    *)
(*   its own writes are buffered and invisible to it.                      *)
(* - commit() applies the writes together if the group's version is the    *)
(*   one recorded, and throws ConcurrentModificationException otherwise.   *)
(*   commit() and rollback() take the transaction off the thread's stack   *)
(*   whatever happens.                                                     *)
(*                                                                         *)
(* The module has operators only; the modules that EXTEND it say who calls *)
(* them and when.                                                          *)
(***************************************************************************)
EXTENDS Integers, Sequences

CONSTANTS
  Request,     \* requests, each served by a thread of its own
  TxId,        \* transaction handles
  Key,         \* datastore keys
  Group,       \* entity groups, one per root key
  GroupOf,     \* the group a key belongs to
  Value,       \* contents an entity can have
  NoEntity,    \* a key that holds no entity
  NoWrite,     \* a key a transaction has not written
  NoGroup      \* a transaction that has touched no group yet

ASSUME GroupAssumption == GroupOf \in [Key -> Group]
ASSUME SentinelAssumption ==
  /\ NoEntity \notin Value
  /\ NoWrite \notin Value \cup {NoEntity}
  /\ NoGroup \notin Group

VARIABLES
  store,       \* the entity each key holds, or NoEntity
  version,     \* the number of commits each group has seen
  txn,         \* what the service keeps for each handle
  current      \* each thread's stack of open transactions

dsVars == <<store, version, txn, current>>

Content == Value \cup {NoEntity}
TxnState == {"unused", "active", "committed", "rolledback", "failed", "expired"}
Snapshot == [Key -> Content]
Writes == [Key -> Content \cup {NoWrite}]
Txn == [state : TxnState, group : Group \cup {NoGroup}, ver : Nat,
        snap : Snapshot, writes : Writes]

NoSnapshot == [k \in Key |-> NoEntity]
FreshTxn == [state |-> "unused", group |-> NoGroup, ver |-> 0,
             snap |-> NoSnapshot, writes |-> [k \in Key |-> NoWrite]]

DatastoreInit ==
  /\ store = [k \in Key |-> NoEntity]
  /\ version = [g \in Group |-> 0]
  /\ txn = [t \in TxId |-> FreshTxn]
  /\ current = [r \in Request |-> <<>>]

(***************************************************************************)
(* The stack of a thread.                                                  *)
(***************************************************************************)
InTransaction(r) == current[r] # <<>>
Top(s) == s[Len(s)]
CurrentTxn(r) == Top(current[r])

\* The stack s without the handle t, which occurs in it once.
Detach(s, t) ==
  [i \in 1..(Len(s) - 1) |-> IF \E j \in 1..i : s[j] = t THEN s[i + 1] ELSE s[i]]

BeginTransaction(r, t) ==
  /\ txn[t].state = "unused"
  /\ txn' = [txn EXCEPT ![t].state = "active"]
  /\ current' = [current EXCEPT ![r] = Append(@, t)]
  /\ UNCHANGED <<store, version>>

(***************************************************************************)
(* Operations inside a transaction.  They fail, and change nothing, when   *)
(* the keys are not all in the group of the transaction.                   *)
(***************************************************************************)
AllIn(K, g) == \A k \in K : GroupOf[k] = g
Accepts(t, K) == \E g \in Group : AllIn(K, g) /\ txn[t].group \in {NoGroup, g}

\* The group members as a snapshot; the other keys are out of reach.
SnapshotOf(g) == [k \in Key |-> IF GroupOf[k] = g THEN store[k] ELSE NoEntity]

\* The record of t once it has touched the group g.
Enrolled(t, g) ==
  IF txn[t].group # NoGroup THEN txn[t]
  ELSE [txn[t] EXCEPT !.group = g, !.ver = version[g], !.snap = SnapshotOf(g)]

\* What a get of k by the transaction t answers.
Seen(t, k) == Enrolled(t, GroupOf[k]).snap[k]

TxnGet(t, k) ==
  /\ txn' = [txn EXCEPT ![t] = Enrolled(t, GroupOf[k])]
  /\ UNCHANGED <<store, version, current>>

TxnWrite(t, K, content) ==
  /\ \E g \in Group :
       /\ AllIn(K, g)
       /\ txn' = [txn EXCEPT ![t] =
                   [Enrolled(t, g) EXCEPT
                      !.writes = [k \in Key |-> IF k \in K THEN content ELSE @[k]]]]
  /\ UNCHANGED <<store, version, current>>

(***************************************************************************)
(* Operations outside any transaction: each group is written by a commit   *)
(* of its own.                                                             *)
(***************************************************************************)
DirectWrite(K, content) ==
  /\ store' = [k \in Key |-> IF k \in K THEN content ELSE store[k]]
  /\ version' = [g \in Group |-> IF \E k \in K : GroupOf[k] = g
                                 THEN version[g] + 1 ELSE version[g]]
  /\ UNCHANGED <<txn, current>>

(***************************************************************************)
(* The end of a transaction.                                               *)
(***************************************************************************)
Wrote(t) == {k \in Key : txn[t].writes[k] # NoWrite}
ReadOnly(t) == Wrote(t) = {}
UpToDate(t) == ~ReadOnly(t) => txn[t].ver = version[txn[t].group]

Closed(t, state) == [txn[t] EXCEPT !.state = state, !.ver = 0, !.snap = NoSnapshot]

Leave(r, t) == current' = [current EXCEPT ![r] = Detach(@, t)]

ApplyWrites(t) ==
  /\ UpToDate(t)
  /\ store' = [k \in Key |-> IF k \in Wrote(t) THEN txn[t].writes[k] ELSE store[k]]
  /\ version' = IF ReadOnly(t) THEN version
                ELSE [version EXCEPT ![txn[t].group] = @ + 1]
  /\ txn' = [txn EXCEPT ![t] = Closed(t, "committed")]

DropWrites(t, state) ==
  /\ txn' = [txn EXCEPT ![t] = Closed(t, state)]
  /\ UNCHANGED <<store, version>>

\* The service forgets the open transactions of a request that is no more.
Expire(r) ==
  /\ txn' = [t \in TxId |-> IF \E i \in 1..Len(current[r]) : current[r][i] = t
                            THEN Closed(t, "expired") ELSE txn[t]]
  /\ current' = [current EXCEPT ![r] = <<>>]
  /\ UNCHANGED <<store, version>>

(***************************************************************************)
(* The type of the service's state.                                        *)
(***************************************************************************)
DatastoreTypeOK ==
  /\ store \in [Key -> Content]
  /\ version \in [Group -> Nat]
  /\ txn \in [TxId -> Txn]
  /\ current \in [Request -> Seq(TxId)]
=============================================================================
