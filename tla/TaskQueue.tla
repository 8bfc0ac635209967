----------------------------- MODULE TaskQueue -----------------------------
(***************************************************************************)
(* Tasks of src/lib/google/appengine/api/taskqueue.js (57-122), added by   *)
(* the requests of RunInTransaction, in functions that run in transactions *)
(* and outside, and the webhooks that the queue calls to work them off.    *)
(*                                                                         *)
(* Task.add makes one call of the Java queue, which is external: it adds   *)
(* the task in the transaction on top of the thread's stack, if there is   *)
(* one, and such a task is put on the queue by the commit.  The queue      *)
(* calls the webhook of a task until it answers with success, and hears    *)
(* it; so a task may be executed more than once.  A webhook is a request   *)
(* like any other: it runs transactions, throws and is killed.             *)
(***************************************************************************)
EXTENDS RunInTransaction

CONSTANTS
  Task,       \* the tasks that are made, each given to the queue once
  NoTask,     \* a request that is not a webhook
  NoTxn       \* a task added outside any transaction

ASSUME TaskAssumption == NoTask \notin Task
ASSUME NoTxnAssumption == NoTxn \notin TxId

VARIABLES
  status,     \* what has become of each task
  addedIn,    \* the transaction it was added in
  webhook     \* the task each request works off

taskVars == <<status, addedIn, webhook>>
allVars == <<vars, taskVars>>

Status == {"new", "held", "queued", "running", "done", "dropped"}

TaskInit ==
  /\ Init
  /\ status = [w \in Task |-> "new"]
  /\ addedIn = [w \in Task |-> NoTxn]
  /\ webhook = [r \in Request |-> NoTask]

-----------------------------------------------------------------------------
Becomes(w, s) == status' = [status EXCEPT ![w] = s]

\* What the service does with a task that it accepts.
Accept(r, w) ==
  /\ status[w] = "new"
  /\ \/ InTransaction(r)
        /\ Becomes(w, "held")
        /\ addedIn' = [addedIn EXCEPT ![w] = CurrentTxn(r)]
     \/ ~InTransaction(r) /\ Becomes(w, "queued") /\ UNCHANGED addedIn

\* new Task(args) and task.add(queueName), or add(args).
AddTask(r, w) ==
  /\ Running(r)
  /\ Accept(r, w)
  /\ UNCHANGED <<vars, webhook>>

\* They throw: the service refuses the task (its name has been used, or it has
\* one and is added in a transaction) or is out of time, after having accepted
\* it or not; Task was given no arguments; or the task was given to the add of
\* a Queue, which passes itself for its name.
AddFails(r, w) ==
  /\ Throw(r)
  /\ Accept(r, w) \/ UNCHANGED <<status, addedIn>>
  /\ UNCHANGED webhook

\* What a transaction in this state makes of the tasks added in it.
Fate(state) ==
  CASE state = "active" -> "held" [] state = "committed" -> "queued" [] OTHER -> "dropped"

\* A slip of Released: the queue hears of a commit after it was made.
ReleasedLate == [w \in Task |-> IF status[w] = "held" THEN Fate(txn[addedIn[w]].state)
                                ELSE status[w]]

\* The tasks after a step of the datastore.
Released == [w \in Task |-> IF status[w] = "held" THEN Fate(txn'[addedIn[w]].state)
                            ELSE status[w]]

\* A request does anything else.
Work(r) ==
  /\ RequestStep(r)
  /\ status' = Released
  /\ UNCHANGED <<addedIn, webhook>>

StartTask(r, w) ==
  /\ status[w] = "queued"
  /\ webhook[r] = NoTask /\ Running(r) /\ ~Calling(r)
  /\ Becomes(w, "running")
  /\ webhook' = [webhook EXCEPT ![r] = w]
  /\ UNCHANGED <<vars, addedIn>>

\* The webhook is over.
Leaves(r) ==
  /\ webhook[r] # NoTask
  /\ webhook' = [webhook EXCEPT ![r] = NoTask]
  /\ UNCHANGED addedIn

Succeed(r) ==
  /\ Running(r) /\ ~Calling(r)
  /\ Leaves(r)
  /\ Becomes(webhook[r], "done")
  /\ UNCHANGED vars

\* It threw, answered with an error, or its answer was lost.
Fail(r) ==
  /\ ~Calling(r)
  /\ Leaves(r)
  /\ Becomes(webhook[r], "queued")
  /\ raised' = [raised EXCEPT ![r] = FALSE]
  /\ UNCHANGED <<dsVars, call, outcome, reads, within>>

\* A slip of Die: the task of a webhook that is killed is not tried again.
DieWithTask(r) ==
  /\ Killed(r)
  /\ status' = Released
  /\ webhook' = [webhook EXCEPT ![r] = NoTask]
  /\ UNCHANGED addedIn

\* A request is killed in the middle of runInTransaction.
Die(r) ==
  /\ Killed(r)
  /\ status' = [w \in Task |-> IF w = webhook[r] THEN "queued" ELSE Released[w]]
  /\ webhook' = [webhook EXCEPT ![r] = NoTask]
  /\ UNCHANGED addedIn

AllIdle == Idle /\ UNCHANGED taskVars

TaskNext ==
  \/ \E r \in Request :
       \/ Work(r) \/ Succeed(r) \/ Fail(r) \/ Die(r)
       \/ \E w \in Task : AddTask(r, w) \/ AddFails(r, w) \/ StartTask(r, w)
  \/ AllIdle

TaskSpec == TaskInit /\ [][TaskNext]_allVars

-----------------------------------------------------------------------------
\* Type invariant of tasks and webhooks (taskqueue.js:57-82); the tasks that
\* are being executed are those of the webhooks, each of one.
TaskTypeOK ==
  /\ status \in [Task -> Status]
  /\ addedIn \in [Task -> TxId \cup {NoTxn}]
  /\ webhook \in [Request -> Task \cup {NoTask}]
  /\ \A w \in Task : status[w] = "running" <=> \E r \in Request : webhook[r] = w
  /\ \A r, q \in Request : webhook[r] = webhook[q] => r = q \/ webhook[r] = NoTask

Delivered == {"queued", "running", "done"}

\* A task added in the function of a transaction is on its queue if and only
\* if the updates of the function are in the store (taskqueue.js:79-82 called
\* in db.js:153): never when the caller was told that the call failed,
\* always when it was told that it returned, and never while it runs.
TasksFollowTransactions ==
  \A w \in Task : addedIn[w] # NoTxn =>
    LET told == outcome[addedIn[w]] IN
      /\ status[w] \in Delivered => told \in {"returned", "unknown"}
      /\ told = "returned" => status[w] \in Delivered
      /\ told = "running" <=> status[w] = "held"

\* Updates and tasks of a function come out together (taskqueue.js:79-82,
\* db.js:158): in the step that puts a task on its queue all writes of the
\* transaction it was added in are applied, so that its webhook finds them,
\* and no write is applied that leaves a task of its transaction behind.
TasksComeWithUpdates ==
  [][\A w \in Task :
       LET t == addedIn'[w] IN
       status[w] \notin Delivered /\ t # NoTxn =>
         /\ status'[w] \in Delivered =>
              \A k \in Wrote(t) : store'[k] = txn[t].writes[k]
         /\ (\E k \in Key : store'[k] = t /\ store[k] # t) => status'[w] \in Delivered]_allVars

\* Tasks over the transactions implement the atomic outbox (taskqueue.js:57-122,
\* db.js:139-161): whatever is nested, thrown, caught, killed or retried,
\* each function updates the store and gives out all its tasks in one step.
Outbox == INSTANCE AtomicOutbox WITH
  asked <- [t \in TxId |-> txn[t].writes],
  answer <- [t \in TxId |-> Answered[outcome[t]]],
  seen <- [t \in TxId |-> IF Updated(t) THEN reads[t] ELSE [k \in Key |-> NotRead]],
  from <- addedIn,
  work <- [w \in Task |-> IF status[w] \in Delivered THEN status[w] ELSE "inside"]

TasksComeOutAtomically == Outbox!OutboxSpec
=============================================================================
