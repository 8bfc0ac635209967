----------------------------- MODULE GetOrInsert -----------------------------
(***************************************************************************)
(* Model.getOrInsert of src/lib/google/appengine/ext/db/model.js (208-235), *)
(* called by several users at once with one key name and one parent:       *)
(*                                                                         *)
(*     db.runInTransaction(function () {                                   *)
(*         if (!data) data = {};                                           *)
(*         obj = self.getByKeyName(keyName, data.parent);                  *)
(*         if (!obj) { data.keyName = keyName; obj = new self(data);       *)
(*                     obj.put(); }                                        *)
(*     });                                                                 *)
(*     return obj;                                                         *)
(*                                                                         *)
(* The steps are the calls to the datastore: begin, get, put, commit.  The *)
(* constructor deletes data.parent and data.keyName from the object the    *)
(* caller passed (model.js:104-108).  A user whose call throws may call    *)
(* again with that same object.  The content of an entity is the call that  *)
(* created it, or Other when the rest of the application wrote it.         *)
(***************************************************************************)
EXTENDS Datastore

CONSTANTS
  RootKey,       \* the key of the name without parent
  ChildKey,      \* the key of the name under the parent
  NoInstance,    \* obj before it is assigned
  Other,         \* the content written by the rest of the application
  WithParent,    \* whether the caller's data names a parent
  Retrying,      \* whether a user whose call threw calls again
  MaxCalls,      \* bound: calls one user makes
  MaxFailures,   \* bound: calls of the service that fail
  MaxOther       \* bound: writes by the rest of the application

Handle(u, n) == <<u, n>>

ASSUME KeyAssumption == Key = {RootKey, ChildKey} /\ RootKey # ChildKey
ASSUME UserAssumption == TxId \cup {Other} \subseteq Value /\ Other \notin TxId
ASSUME PolicyAssumption == {WithParent, Retrying} \subseteq BOOLEAN
ASSUME CallAssumption ==
  /\ {MaxCalls, MaxFailures, MaxOther} \subseteq Nat
  /\ {Handle(u, n) : u \in Request, n \in 1..MaxCalls} \subseteq TxId

VARIABLES
  pc,          \* where each user is
  calls,       \* how many calls it has made
  hasParent,   \* whether its data object still has a parent
  obj,         \* the variable obj of its call, or what the call returned
  failures,    \* calls of the service that have failed
  others       \* writes by the rest of the application

callVars == <<pc, calls, hasParent, obj>>
vars == <<dsVars, callVars, failures, others>>

Step == {"start", "begun", "found", "absent", "inserted", "returned", "threw"}
Instance == [key : Key, content : Value]

Init ==
  /\ DatastoreInit
  /\ pc = [u \in Request |-> "start"]
  /\ calls = [u \in Request |-> 0]
  /\ hasParent = [u \in Request |-> WithParent]
  /\ obj = [u \in Request |-> NoInstance]
  /\ failures = 0
  /\ others = 0

-----------------------------------------------------------------------------
Tx(u) == Handle(u, calls[u])
Goto(u, s) == pc' = [pc EXCEPT ![u] = s]
EntityKey(u) == IF hasParent[u] THEN ChildKey ELSE RootKey

\* The user calls getOrInsert, for the first time or after an exception:
\* runInTransaction begins (db.js:151).
Call(u) ==
  /\ pc[u] \in {"start"} \cup (IF Retrying THEN {"threw"} ELSE {})
  /\ calls[u] < MaxCalls
  /\ BeginTransaction(u, Handle(u, calls[u] + 1))
  /\ calls' = [calls EXCEPT ![u] = @ + 1]
  /\ obj' = [obj EXCEPT ![u] = NoInstance]
  /\ Goto(u, "begun")
  /\ UNCHANGED <<hasParent, failures, others>>

\* Slips of GetByKeyName: the lookup is made out of the transaction; its
\* result is not tested.
GetOutside(u) ==
  /\ pc[u] = "begun"
  /\ IF store[EntityKey(u)] = NoEntity
       THEN Goto(u, "absent") /\ UNCHANGED obj
       ELSE /\ Goto(u, "found")
            /\ obj' = [obj EXCEPT ![u] = [key |-> EntityKey(u), content |-> store[EntityKey(u)]]]
  /\ UNCHANGED <<dsVars, calls, hasParent, failures, others>>

GetUntested(u) ==
  /\ pc[u] = "begun"
  /\ TxnGet(CurrentTxn(u), EntityKey(u))
  /\ Goto(u, "found")
  /\ obj' = [obj EXCEPT ![u] = [key |-> EntityKey(u),
                                content |-> Seen(CurrentTxn(u), EntityKey(u))]]
  /\ UNCHANGED <<calls, hasParent, failures, others>>

\* model.js:226, through getByKeyName, Model.get and db.get.
GetByKeyName(u) ==
  /\ pc[u] = "begun"
  /\ TxnGet(CurrentTxn(u), EntityKey(u))
  /\ LET content == Seen(CurrentTxn(u), EntityKey(u)) IN
       IF content = NoEntity
         THEN Goto(u, "absent") /\ UNCHANGED obj
         ELSE /\ Goto(u, "found")
              /\ obj' = [obj EXCEPT ![u] = [key |-> EntityKey(u), content |-> content]]
  /\ UNCHANGED <<calls, hasParent, failures, others>>

\* model.js:227-231: the constructor takes parent and name out of data, then
\* put writes the entity in the transaction.
Insert(u) ==
  /\ pc[u] = "absent"
  /\ TxnWrite(CurrentTxn(u), {EntityKey(u)}, Tx(u))
  /\ obj' = [obj EXCEPT ![u] = [key |-> EntityKey(u), content |-> Tx(u)]]
  /\ hasParent' = [hasParent EXCEPT ![u] = FALSE]
  /\ Goto(u, "inserted")
  /\ UNCHANGED <<calls, failures, others>>

InFunc(u) == pc[u] \in {"begun", "found", "absent", "inserted"}
AtEnd(u) == pc[u] \in {"found", "inserted"}

\* db.js:158, model.js:234.
CommitAndReturn(u) ==
  /\ AtEnd(u)
  /\ ApplyWrites(CurrentTxn(u))
  /\ Leave(u, CurrentTxn(u))
  /\ Goto(u, "returned")
  /\ UNCHANGED <<calls, hasParent, obj, failures, others>>

\* Slips of CommitConflict: the exception is swallowed; the same commit is
\* tried again for ever; the call is made again inside the transaction.
ConflictSwallowed(u) ==
  /\ AtEnd(u)
  /\ ~UpToDate(CurrentTxn(u))
  /\ DropWrites(CurrentTxn(u), "failed")
  /\ Leave(u, CurrentTxn(u))
  /\ Goto(u, "returned")
  /\ UNCHANGED <<calls, hasParent, obj, failures, others>>

CommitAgain(u) == AtEnd(u) /\ ~UpToDate(CurrentTxn(u)) /\ UNCHANGED vars

RetryInside(u) ==
  /\ AtEnd(u) /\ calls[u] < MaxCalls
  /\ ~UpToDate(CurrentTxn(u))
  /\ calls' = [calls EXCEPT ![u] = @ + 1]
  /\ obj' = [obj EXCEPT ![u] = NoInstance]
  /\ Goto(u, "begun")
  /\ UNCHANGED <<dsVars, hasParent, failures, others>>

\* The exception of the commit leaves getOrInsert, and obj with it.
CommitConflict(u) ==
  /\ AtEnd(u)
  /\ ~UpToDate(CurrentTxn(u))
  /\ DropWrites(CurrentTxn(u), "failed")
  /\ Leave(u, CurrentTxn(u))
  /\ Goto(u, "threw")
  /\ obj' = [obj EXCEPT ![u] = NoInstance]
  /\ UNCHANGED <<calls, hasParent, failures, others>>

\* A get or put fails: rollback and rethrow (db.js:154-156), the constructor
\* having taken the parent out of data if it was the put.  A commit fails
\* (db.js:158), having been applied or not.
Failure(u) ==
  /\ InFunc(u)
  /\ failures < MaxFailures
  /\ \/ UNCHANGED hasParent
     \/ pc[u] = "absent" /\ hasParent' = [hasParent EXCEPT ![u] = FALSE]
  /\ \/ DropWrites(CurrentTxn(u), "rolledback")
     \/ AtEnd(u) /\ ApplyWrites(CurrentTxn(u))
  /\ Leave(u, CurrentTxn(u))
  /\ Goto(u, "threw")
  /\ obj' = [obj EXCEPT ![u] = NoInstance]
  /\ failures' = failures + 1
  /\ UNCHANGED <<calls, others>>

\* The rest of the application writes or removes one of the entities.
OtherWrite(k) ==
  /\ others < MaxOther
  /\ \E content \in {Other, NoEntity} : DirectWrite({k}, content)
  /\ others' = others + 1
  /\ UNCHANGED <<callVars, failures>>

Done(u) == pc[u] = "returned" \/ (pc[u] = "threw" /\ (~Retrying \/ calls[u] = MaxCalls))

AllDone == (\A u \in Request : Done(u)) /\ UNCHANGED vars

UserStep(u) ==
  \/ Call(u) \/ GetByKeyName(u) \/ Insert(u) \/ CommitAndReturn(u) \/ CommitConflict(u)

Next ==
  \/ \E u \in Request : UserStep(u) \/ Failure(u)
  \/ \E k \in Key : OtherWrite(k)
  \/ AllDone

\* A request that has entered getOrInsert keeps being executed, and a user
\* who calls again after an exception does so in a loop that keeps running.
Fairness == \A u \in Request : WF_vars(pc[u] # "start" /\ UserStep(u))

Spec == Init /\ [][Next]_vars
FairSpec == Spec /\ Fairness

-----------------------------------------------------------------------------
\* Type invariant of the calls of getOrInsert (model.js:220-235).
TypeOK ==
  /\ DatastoreTypeOK
  /\ pc \in [Request -> Step]
  /\ calls \in [Request -> 0..MaxCalls]
  /\ hasParent \in [Request -> BOOLEAN]
  /\ obj \in [Request -> Instance \cup {NoInstance}]
  /\ failures \in 0..MaxFailures
  /\ others \in 0..MaxOther

\* getOrInsert never replaces an entity, whoever created it, an earlier call
\* of the same user that threw after its commit among them, and whenever
\* during the call (model.js:226-231): the absence it saw still holds when
\* its insert takes effect.
NeverOverwrites ==
  [][\A k \in Key : store'[k] \in TxId /\ store'[k] # store[k]
                      => store[k] = NoEntity]_vars

\* The doc of getOrInsert (model.js:209-213): "if two users attempt to
\* get-or-insert the entity with the given name simultaneously, then both
\* users will have a model instance that refers to the entity".  The
\* instances all users end with are of one entity.
OneEntity ==
  \A u, v \in Request :
    pc[u] = "returned" /\ pc[v] = "returned" => obj[u].key = obj[v].key

\* Contention costs little, however many users there are (model.js:220-235,
\* db.js:158): each call that threw is paid for by a failure, by the insert of
\* one of the two entities there may be, or by a write from outside, which
\* pays twice if what it removes is inserted again.
Failed(u) == IF pc[u] \in {"start", "threw"} THEN calls[u] ELSE calls[u] - 1
Present(k) == IF store[k] = NoEntity THEN 0 ELSE 1
Payments == failures + 2 * others + Present(RootKey) + Present(ChildKey)
RetriesPaidFor == \A u \in Request : Failed(u) <= Payments

\* Contention does not starve a user who calls again after a conflict
\* (model.js:220-235, db.js:158): every conflict means that another write
\* took effect, so each user is served in the end.
EveryUserServed ==
  \A u \in Request : pc[u] = "begun" ~> pc[u] = "returned"

\* The instances users hold, as soon as an existing entity has been found.
Once == INSTANCE InsertOnce WITH
  holds <- [u \in Request |-> IF pc[u] \in {"found", "returned"} THEN obj[u] ELSE NoInstance]

\* getOrInsert over the datastore implements the one-step get-or-insert
\* (model.js:208-235).
InsertsOnce == Once!OnceSpec
=============================================================================
