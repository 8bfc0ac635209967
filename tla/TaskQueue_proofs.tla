-------------------------- MODULE TaskQueue_proofs --------------------------
(***************************************************************************)
(* Theorems about tasks that are added in transactions                     *)
(* (api/taskqueue.js:57-122 with ext/db.js:146-161), for every set of      *)
(* tasks, requests, transactions, keys and groups.                         *)
(***************************************************************************)
EXTENDS TaskQueue, RunInTransaction_proofs

\* What becomes of a task follows the state of its transaction.
SettledInv ==
  \A w \in Task :
    /\ status[w] = "new" => addedIn[w] = NoTxn
    /\ status[w] = "held" => addedIn[w] \in TxId
    /\ addedIn[w] \in TxId =>
         LET state == txn[addedIn[w]].state IN
           /\ state # "unused"
           /\ state = "active" => status[w] = "held"
           /\ state = "committed" => status[w] \in Delivered
           /\ state \notin {"active", "committed"} => status[w] = "dropped"

TaskInv == TaskTypeOK /\ SettledInv
Inv == TypeInv /\ SafeInv /\ TaskInv

-----------------------------------------------------------------------------
(***************************************************************************)
(* Tasks leave the transactions alone.                                     *)
(***************************************************************************)
\* Every step of requests, tasks and webhooks is a step of runInTransaction
\* or leaves it alone.
LEMMA StepsOfRequests == TypeInv /\ [TaskNext]_allVars => [Next]_vars
<1> SUFFICES ASSUME TypeInv, TaskNext \/ UNCHANGED allVars PROVE [Next]_vars
  OBVIOUS
<1>1. ASSUME NEW r \in Request, Work(r) PROVE Next BY <1>1 DEF Work, Next
<1>2. ASSUME NEW r \in Request, Succeed(r) PROVE UNCHANGED vars BY <1>2 DEF Succeed
<1>3. ASSUME NEW r \in Request, Fail(r) PROVE [Next]_vars
  <2>1. raised \in [Request -> BOOLEAN] BY DEF TypeInv, TypeOK
  <2>2. CASE raised[r]
    <3>1. Catch(r) BY <1>3, <2>2 DEF Fail, Catch
    <3>2. QED BY <3>1 DEF Next, RequestStep
  <2>3. CASE ~raised[r]
    <3>1. raised' = raised BY <1>3, <2>1, <2>3 DEF Fail
    <3>2. QED BY <1>3, <3>1 DEF Fail, vars
  <2>4. QED BY <2>2, <2>3
<1>4. ASSUME NEW r \in Request, Die(r) PROVE Next BY <1>4 DEF Die, Next
<1>5. ASSUME NEW r \in Request, NEW w \in Task, AddTask(r, w) \/ StartTask(r, w)
      PROVE  UNCHANGED vars
  BY <1>5 DEF AddTask, StartTask
<1>6. ASSUME NEW r \in Request, NEW w \in Task, AddFails(r, w) PROVE Next
  BY <1>6 DEF AddFails, Next, RequestStep
<1>7. CASE AllIdle BY <1>7 DEF AllIdle, Next
<1>8. CASE UNCHANGED allVars BY <1>8 DEF allVars
<1>9. QED BY <1>1, <1>2, <1>3, <1>4, <1>5, <1>6, <1>7, <1>8 DEF TaskNext

\* A transaction that is over stays as it is, and one that is open does not
\* become a fresh one again.
LEMMA Endings ==
  ASSUME TypeInv, [Next]_vars, NEW t \in TxId, txn[t].state # "unused"
  PROVE  /\ txn[t].state # "active" => txn'[t].state = txn[t].state
         /\ txn'[t].state # "unused"
<1> DEFINE Goal == /\ txn[t].state # "active" => txn'[t].state = txn[t].state
                   /\ txn'[t].state # "unused"
<1>0. StoreTypeOK /\ CallTypeOK /\ Kinds BY TypeInvParts, StepKinds
<1>1. ASSUME NEW u \in TxId, Opens(u) PROVE Goal
  BY <1>0, <1>1 DEF Opens, StoreTypeOK, Txn
<1>2. ASSUME NEW u \in TxId, NEW k \in Key, Gets(u, k) PROVE Goal
  BY <1>0, <1>2 DEF Gets, TxnGet, StoreTypeOK, Enrolled
<1>3. ASSUME NEW u \in TxId, NEW K \in SUBSET Key, NEW c \in {u, NoEntity}, WritesIn(u, K, c)
      PROVE  Goal
  BY <1>0, <1>3 DEF WritesIn, TxnWrite, StoreTypeOK, Enrolled
<1>4. ASSUME NEW K \in SUBSET Key, NEW c \in {Direct, NoEntity}, WritesDirectly(K, c)
      PROVE  Goal
  BY <1>4 DEF WritesDirectly, DirectWrite
<1>5. ASSUME NEW u \in TxId, NEW a \in {"returned", "unknown"}, Applies(u, a) PROVE Goal
  BY <1>0, <1>5, ClosedKeeps DEF Applies, ApplyWrites, StoreTypeOK
<1>6. ASSUME NEW u \in TxId, NEW s \in {"rolledback", "failed"},
             NEW a \in {"threw", "conflict", "unknown"}, Drops(u, s, a)
      PROVE  Goal
  BY <1>0, <1>6, ClosedKeeps DEF Drops, DropWrites, StoreTypeOK
<1>7. ASSUME NEW T \in SUBSET TxId, Expires(T) PROVE Goal
  BY <1>0, <1>7, ClosedKeeps DEF Expires
<1>8. CASE UNCHANGED <<store, version, txn, outcome, reads>> BY <1>8
<1>9. QED BY <1>0, <1>1, <1>2, <1>3, <1>4, <1>5, <1>6, <1>7, <1>8 DEF Kinds

-----------------------------------------------------------------------------
(***************************************************************************)
(* Each operation preserves the invariant of the tasks.                    *)
(***************************************************************************)
LEMMA InitTasks == TaskInit => Inv
<1> SUFFICES ASSUME TaskInit PROVE Inv OBVIOUS
<1>1. TypeInv /\ SafeInv BY InitTypes, InitSafe DEF TaskInit
<1>2. TaskTypeOK BY TaskAssumption DEF TaskInit, TaskTypeOK, Status
<1>3. SettledInv BY NoTxnAssumption DEF TaskInit, SettledInv
<1>4. QED BY <1>1, <1>2, <1>3 DEF Inv, TaskInv

\* A task that the service accepts is held by an open transaction, or is on
\* its queue.
LEMMA AcceptKeeps ==
  ASSUME TypeInv, TaskInv, NEW r \in Request, NEW w \in Task, Accept(r, w),
         UNCHANGED <<txn, webhook>>
  PROVE  TaskInv'
<1>0. TaskTypeOK /\ SettledInv BY DEF TaskInv
<1>1. CASE InTransaction(r) /\ Becomes(w, "held")
           /\ addedIn' = [addedIn EXCEPT ![w] = CurrentTxn(r)]
  <2>1. CurrentTxn(r) \in TxId /\ txn[CurrentTxn(r)].state = "active"
    BY <1>1, InnermostIsCurrent, InTransactionIsCalling DEF TypeInv
  <2>2. TaskTypeOK' BY <1>0, <1>1, <2>1 DEF TaskTypeOK, Becomes, Accept, Status
  <2>3. SettledInv' BY <1>0, <1>1, <2>1, <2>2 DEF TaskTypeOK, SettledInv, Becomes, Accept
  <2>4. QED BY <2>2, <2>3 DEF TaskInv
<1>2. CASE Becomes(w, "queued") /\ UNCHANGED addedIn
  <2>1. status[w] = "new" /\ addedIn[w] \notin TxId
    BY <1>0, NoTxnAssumption DEF Accept, SettledInv
  <2>2. TaskTypeOK' BY <1>0, <1>2, <2>1 DEF TaskTypeOK, Becomes, Status
  <2>3. SettledInv' BY <1>0, <1>2, <2>1 DEF TaskTypeOK, SettledInv, Becomes
  <2>4. QED BY <2>2, <2>3 DEF TaskInv
<1>3. QED BY <1>1, <1>2 DEF Accept

\* What a step of a request, or its end, does to the tasks it holds.
LEMMA ReleaseKeeps ==
  ASSUME TypeInv, TaskInv, [Next]_vars, UNCHANGED addedIn,
         status' = [w \in Task |-> status'[w]],
         \A w \in Task : \/ status'[w] = Released[w]
                         \/ status[w] = "running" /\ status'[w] = "queued"
  PROVE  SettledInv' /\ status' \in [Task -> Status]
<1>0. TaskTypeOK /\ SettledInv BY DEF TaskInv
<1>1. ASSUME NEW w \in Task
      PROVE  /\ status[w] = "held" => status'[w] = Fate(txn'[addedIn[w]].state)
             /\ status[w] # "held" => \/ status'[w] = status[w]
                                      \/ status[w] = "running" /\ status'[w] = "queued"
  BY <1>0, <1>1 DEF Released
<1>2. \A s : Fate(s) \in {"held", "queued", "dropped"} BY DEF Fate
<1>3. status' \in [Task -> Status]
  <2>1. ASSUME NEW w \in Task PROVE status'[w] \in Status
    <3>1. status[w] \in Status BY <1>0 DEF TaskTypeOK
    <3>2. QED BY <1>1, <1>2, <3>1 DEF Status
  <2>2. QED BY <2>1
<1>4. ASSUME NEW w \in Task
      PROVE  /\ status'[w] = "new" => addedIn[w] = NoTxn
             /\ status'[w] = "held" => addedIn[w] \in TxId
  BY <1>0, <1>1, <1>2 DEF SettledInv
<1>5. ASSUME NEW w \in Task, addedIn[w] \in TxId
      PROVE  LET state == txn'[addedIn[w]].state IN
               /\ state # "unused"
               /\ state = "active" => status'[w] = "held"
               /\ state = "committed" => status'[w] \in Delivered
               /\ state \notin {"active", "committed"} => status'[w] = "dropped"
  <2> DEFINE t == addedIn[w]
  <2>1. txn[t].state # "unused" BY <1>0, <1>5 DEF SettledInv
  <2>2. txn'[t].state # "unused" BY <1>5, <2>1, Endings
  <2>3. CASE txn[t].state = "active"
    <3>1. status[w] = "held" BY <1>0, <1>5, <2>3 DEF SettledInv
    <3>2. QED BY <1>1, <2>2, <3>1 DEF Fate, Delivered
  <2>4. CASE txn[t].state # "active"
    <3>1. txn'[t].state = txn[t].state BY <1>5, <2>1, <2>4, Endings
    <3>2. status[w] # "held" BY <1>0, <1>5, <2>4 DEF SettledInv, Delivered
    <3>3. QED BY <1>0, <1>1, <1>5, <2>1, <2>4, <3>1, <3>2 DEF SettledInv, Delivered
  <2>5. QED BY <2>3, <2>4
<1>6. SettledInv' BY <1>4, <1>5 DEF SettledInv
<1>7. QED BY <1>3, <1>6

\* A webhook starts, or is over: its task stays one that was delivered.
LEMMA WebhookKeeps ==
  ASSUME TaskInv, UNCHANGED <<txn, addedIn>>, NEW w \in Task, status[w] \in Delivered,
         NEW s \in Delivered, Becomes(w, s)
  PROVE  SettledInv'
BY DEF TaskInv, TaskTypeOK, SettledInv, Becomes, Delivered

-----------------------------------------------------------------------------
LEMMA StepTasks == Inv /\ [TaskNext]_allVars => TaskInv'
<1> SUFFICES ASSUME Inv, [TaskNext]_allVars PROVE TaskInv' OBVIOUS
<1>0. TypeInv /\ TaskInv /\ TaskTypeOK /\ SettledInv /\ [Next]_vars
  BY StepsOfRequests DEF Inv, TaskInv
<1>1. ASSUME NEW r \in Request, Work(r) PROVE TaskInv'
  <2>1. /\ status' = [w \in Task |-> status'[w]]
        /\ \A w \in Task : status'[w] = Released[w]
        /\ UNCHANGED <<addedIn, webhook>>
    BY <1>1 DEF Work, Released
  <2>2. SettledInv' /\ status' \in [Task -> Status] BY <1>0, <2>1, ReleaseKeeps
  <2>3. \A w \in Task : status'[w] = "running" <=> status[w] = "running"
    BY <2>1 DEF Released, Fate
  <2>4. TaskTypeOK' BY <1>0, <2>1, <2>2, <2>3 DEF TaskTypeOK
  <2>5. QED BY <2>2, <2>4 DEF TaskInv
<1>2. ASSUME NEW r \in Request, Die(r) PROVE TaskInv'
  <2>1. /\ status' = [w \in Task |-> status'[w]]
        /\ \A w \in Task : status'[w] = IF w = webhook[r] THEN "queued" ELSE Released[w]
        /\ UNCHANGED addedIn /\ webhook' = [webhook EXCEPT ![r] = NoTask]
    BY <1>2 DEF Die
  <2>2. \A w \in Task : w = webhook[r] => status[w] = "running" BY <1>0 DEF TaskTypeOK
  <2>3. SettledInv' /\ status' \in [Task -> Status] BY <1>0, <2>1, <2>2, ReleaseKeeps
  <2>4. \A w \in Task : status'[w] = "running" <=> status[w] = "running" /\ w # webhook[r]
    BY <2>1 DEF Released, Fate
  <2>5. TaskTypeOK' BY <1>0, <2>1, <2>3, <2>4, TaskAssumption DEF TaskTypeOK
  <2>6. QED BY <2>3, <2>5 DEF TaskInv
<1>3. ASSUME NEW r \in Request, NEW w \in Task, AddTask(r, w) PROVE TaskInv'
  BY <1>0, <1>3, AcceptKeeps DEF AddTask, vars, dsVars
<1>4. ASSUME NEW r \in Request, NEW w \in Task, AddFails(r, w) PROVE TaskInv'
  <2>1. CASE Accept(r, w)
    BY <1>0, <1>4, <2>1, AcceptKeeps DEF AddFails, Throw, dsVars
  <2>2. CASE UNCHANGED <<status, addedIn>>
    BY <1>0, <1>4, <2>2 DEF AddFails, Throw, dsVars, TaskInv, TaskTypeOK, SettledInv
  <2>3. QED BY <1>4, <2>1, <2>2 DEF AddFails
<1>5. ASSUME NEW r \in Request, NEW w \in Task, StartTask(r, w) PROVE TaskInv'
  <2>1. SettledInv'
    BY <1>0, <1>5, WebhookKeeps DEF StartTask, vars, dsVars, Delivered
  <2>2. TaskTypeOK'
    BY <1>0, <1>5, TaskAssumption DEF StartTask, Becomes, TaskTypeOK, Status
  <2>3. QED BY <2>1, <2>2 DEF TaskInv
<1>6. ASSUME NEW r \in Request, NEW s \in {"done", "queued"},
             Leaves(r), Becomes(webhook[r], s), UNCHANGED txn
      PROVE  TaskInv'
  <2>1. webhook[r] \in Task /\ status[webhook[r]] = "running"
    BY <1>0, <1>6 DEF Leaves, TaskTypeOK
  <2>2. SettledInv'
    BY <1>0, <1>6, <2>1, WebhookKeeps DEF Leaves, Delivered
  <2>3. TaskTypeOK'
    BY <1>0, <1>6, <2>1, TaskAssumption DEF Leaves, Becomes, TaskTypeOK, Status
  <2>4. QED BY <2>2, <2>3 DEF TaskInv
<1>7. ASSUME NEW r \in Request, Succeed(r) \/ Fail(r) PROVE TaskInv'
  BY <1>6, <1>7 DEF Succeed, Fail, vars, dsVars
<1>8. CASE AllIdle \/ UNCHANGED allVars
  BY <1>0, <1>8
  DEF AllIdle, Idle, allVars, vars, dsVars, taskVars, TaskInv, TaskTypeOK, SettledInv
<1>9. QED BY <1>1, <1>2, <1>3, <1>4, <1>5, <1>7, <1>8 DEF TaskNext

\* The invariant of transactions and tasks together.
THEOREM TasksAndTransactions == TaskSpec => []Inv
<1>1. Inv /\ [TaskNext]_allVars => Inv'
  BY StepsOfRequests, StepTypes, StepSafe, StepTasks DEF Inv
<1>2. QED BY <1>1, InitTasks, PTL DEF TaskSpec

\* Adding and executing tasks leaves runInTransaction what it is
\* (db.js:146-161): every behaviour with tasks is one of it.
THEOREM TransactionsStay == TaskSpec => Spec
<1>1. TaskInit => Init BY DEF TaskInit
<1>2. Inv /\ [TaskNext]_allVars => [Next]_vars BY StepsOfRequests DEF Inv
<1>3. QED BY <1>1, <1>2, TasksAndTransactions, PTL DEF TaskSpec, Spec

\* Types of tasks and webhooks; the tasks that are being executed are those
\* of the webhooks (taskqueue.js:57-82).
THEOREM TaskTypes == TaskSpec => []TaskTypeOK
<1>1. Inv => TaskTypeOK BY DEF Inv, TaskInv
<1>2. QED BY <1>1, TasksAndTransactions, PTL

\* A task added in a transaction is on its queue if and only if the updates
\* of the transaction are in the store (taskqueue.js:79-82, db.js:153-158).
THEOREM Follow == TaskSpec => []TasksFollowTransactions
<1>1. Inv => TasksFollowTransactions
  <2> SUFFICES ASSUME Inv, NEW w \in Task, addedIn[w] # NoTxn
               PROVE  LET told == outcome[addedIn[w]] IN
                        /\ status[w] \in Delivered => told \in {"returned", "unknown"}
                        /\ told = "returned" => status[w] \in Delivered
                        /\ told = "running" <=> status[w] = "held"
    BY DEF TasksFollowTransactions
  <2> DEFINE t == addedIn[w]
  <2>1. t \in TxId BY DEF Inv, TaskInv, TaskTypeOK
  <2>2. /\ txn[t].state = "active" => status[w] = "held"
        /\ txn[t].state = "committed" => status[w] \in Delivered
        /\ txn[t].state \notin {"active", "committed"} => status[w] = "dropped"
    BY <2>1 DEF Inv, TaskInv, SettledInv
  <2>3. /\ outcome[t] = "running" <=> txn[t].state = "active"
        /\ outcome[t] = "returned" => txn[t].state = "committed"
        /\ txn[t].state = "committed" => outcome[t] \in {"returned", "unknown"}
    BY <2>1 DEF Inv, SafeInv, OutcomeInv
  <2>4. QED BY <2>2, <2>3 DEF Delivered
<1>2. QED BY <1>1, TasksAndTransactions, PTL

\* Tasks and updates of a function come out in one step (taskqueue.js:79-82,
\* db.js:158).
THEOREM ComeTogether == TaskSpec => TasksComeWithUpdates
<1>1. ASSUME Inv, Inv', [TaskNext]_allVars, NEW w \in Task,
             status[w] \notin Delivered, addedIn'[w] # NoTxn
      PROVE  /\ status'[w] \in Delivered =>
                  \A k \in Wrote(addedIn'[w]) : store'[k] = txn[addedIn'[w]].writes[k]
             /\ (\E k \in Key : store'[k] = addedIn'[w] /\ store[k] # addedIn'[w])
                  => status'[w] \in Delivered
  <2> DEFINE t == addedIn'[w]
  <2>0. TypeInv /\ SafeInv /\ [Next]_vars /\ StoreTypeOK
    BY <1>1, StepsOfRequests, TypeInvParts DEF Inv
  <2>1. t \in TxId BY <1>1 DEF Inv, TaskInv, TaskTypeOK
  <2>2. /\ txn'[t].state = "active" => status'[w] = "held"
        /\ txn'[t].state = "committed" => status'[w] \in Delivered
        /\ txn'[t].state \notin {"active", "committed"} => status'[w] = "dropped"
    BY <1>1, <2>1 DEF Inv, TaskInv, SettledInv
  <2>3. ASSUME status'[w] \in Delivered, NEW k \in Wrote(t)
        PROVE  store'[k] = txn[t].writes[k]
    <3>1. txn'[t].state = "committed" BY <2>2, <2>3 DEF Delivered
    <3>2. addedIn[w] = t
      <4>1. ASSUME NEW r \in Request, NEW v \in Task, Accept(r, v), v # w
            PROVE  addedIn'[w] = addedIn[w]
        BY <1>1, <4>1 DEF Accept, Inv, TaskInv, TaskTypeOK
      <4>2. ASSUME NEW r \in Request, Accept(r, w), addedIn' # addedIn
            PROVE  status'[w] = "held"
        BY <1>1, <4>2 DEF Accept, Becomes, Inv, TaskInv, TaskTypeOK
      <4>3. addedIn' = addedIn \/ \E r \in Request, v \in Task : Accept(r, v)
        BY <1>1 DEF TaskNext, AddTask, AddFails, Work, Succeed, Fail, Die, StartTask, Leaves,
                    AllIdle, allVars, taskVars
      <4>4. status'[w] # "held" BY <2>3 DEF Delivered
      <4>5. QED BY <4>1, <4>2, <4>3, <4>4
    <3>3. txn[t].state = "active"
      <4>1. txn[t].state \notin {"unused", "committed"}
        BY <1>1, <2>1, <3>2 DEF Inv, TaskInv, SettledInv
      <4>2. QED BY <2>0, <2>1, <3>1, <4>1, Endings
    <3>4. ApplyWrites(t) BY <2>0, <2>1, <3>1, <3>3, CommittedByApplying
    <3>5. QED BY <2>3, <3>4 DEF ApplyWrites, Wrote
  <2>4. ASSUME NEW k \in Key, store'[k] = t, store[k] # t PROVE status'[w] \in Delivered
    <3>1. ApplyWrites(t) BY <2>0, <2>1, <2>4, CommittedByApplying
    <3>2. txn'[t].state = "committed"
      BY <2>0, <2>1, <3>1, ClosedKeeps DEF ApplyWrites, StoreTypeOK
    <3>3. QED BY <2>2, <3>2
  <2>5. QED BY <2>3, <2>4
<1>2. Inv /\ Inv' /\ [TaskNext]_allVars =>
        [\A w \in Task :
           LET t == addedIn'[w] IN
           status[w] \notin Delivered /\ t # NoTxn =>
             /\ status'[w] \in Delivered =>
                  \A k \in Wrote(t) : store'[k] = txn[t].writes[k]
             /\ (\E k \in Key : store'[k] = t /\ store[k] # t) => status'[w] \in Delivered]_allVars
  BY <1>1
<1>3. QED BY <1>2, TasksAndTransactions, PTL DEF TaskSpec, TasksComeWithUpdates

-----------------------------------------------------------------------------
(***************************************************************************)
(* The refinement.  A task that is held or dropped has not come out.       *)
(***************************************************************************)
Place(s) == IF s \in Delivered THEN s ELSE "inside"
Works == [w \in Task |-> Place(status[w])]

OutboxStep == [Outbox!OutboxNext]_(Outbox!oVars)

\* The steps of AtomicOutbox, as they look from here.
LEMMA TakeEffectStep ==
  ASSUME NEW t \in TxId, Atomic!Update(t) \/ Atomic!NoUpdate(t),
         Works' = [w \in Task |-> IF addedIn[w] = t THEN "queued" ELSE Works[w]],
         UNCHANGED addedIn
  PROVE  OutboxStep
<1>1. Outbox!Update(t) \/ Outbox!NoUpdate(t)
  BY DEF Atomic!Update, Atomic!NoUpdate, Atomic!Done, Atomic!NothingAsked,
         Outbox!Update, Outbox!NoUpdate, Outbox!Done, Outbox!NothingAsked
<1>2. Outbox!TakeEffect(t) BY <1>1 DEF Outbox!TakeEffect, Works, Place
<1>3. QED BY <1>2 DEF OutboxStep, Outbox!OutboxNext

\* Functions end without effect, or none does.
LEMMA NoEffectIs ==
  ASSUME EndsInVain, UNCHANGED addedIn
  PROVE  Outbox!EndInVain
BY DEF EndsInVain, Outbox!EndInVain, Outbox!Answer, Askeds, Answers, Seens

\* A step that AtomicStore does not see ends none.
LEMMA NoneEnds ==
  ASSUME TypeInv, Quiet
  PROVE  EndsInVain
<1>1. Answers \in [TxId -> {"none", "returned", "failed", "unknown"}]
  BY TypeInvParts, AnswerOf DEF Answers, CallTypeOK
<1>2. QED BY <1>1 DEF Quiet, EndsInVain

\* A step without effect, in which a task may be tried again.
LEMMA NoEffectStep ==
  ASSUME EndsInVain, UNCHANGED addedIn,
         \/ Works' = Works
         \/ \E w \in Task : status[w] = "running" /\ Works' = [Works EXCEPT ![w] = "queued"]
  PROVE  OutboxStep
<1>1. Outbox!EndInVain BY NoEffectIs
<1>2. CASE Works' = Works
  BY <1>1, <1>2 DEF OutboxStep, Outbox!OutboxNext, Works, Place
<1>3. ASSUME NEW w \in Task, status[w] = "running", Works' = [Works EXCEPT ![w] = "queued"]
      PROVE  OutboxStep
  <2>1. Works[w] = "running" BY <1>3 DEF Works, Place, Delivered
  <2>2. Outbox!Again(w) BY <1>1, <1>3, <2>1 DEF Outbox!Again, Outbox!Move, Works, Place
  <2>3. QED BY <2>2 DEF OutboxStep, Outbox!OutboxNext
<1>4. QED BY <1>2, <1>3

\* What a task does where no function ends.
LEMMA TaskStep ==
  ASSUME Quiet, UNCHANGED addedIn, NEW w \in Task,
         \/ /\ status[w] = "queued" /\ Works' = [Works EXCEPT ![w] = "running"]
         \/ /\ status[w] = "running" /\ Works' = [Works EXCEPT ![w] = "done"]
         \/ /\ status[w] = "new" /\ addedIn[w] = NoTxn
            /\ Works' = [Works EXCEPT ![w] = "queued"]
  PROVE  OutboxStep
<1>1. Works[w] = Place(status[w]) BY DEF Works
<1>2. UNCHANGED <<store, Askeds, Answers, Seens>> BY DEF Quiet
<1>3. \/ Outbox!Start(w) \/ Outbox!Succeed(w) \/ Outbox!AddOutside(w)
  BY <1>1, <1>2
  DEF Outbox!Start, Outbox!Succeed, Outbox!AddOutside, Outbox!Move, Outbox!aVars,
      Works, Place, Delivered, Askeds, Answers, Seens
<1>4. QED BY <1>3 DEF OutboxStep, Outbox!OutboxNext

-----------------------------------------------------------------------------
\* A task is held by a transaction that is open, and one that is open holds
\* all its tasks.
LEMMA HeldWhileOpen ==
  ASSUME TaskInv, NEW w \in Task
  PROVE  /\ status[w] = "held" => addedIn[w] \in TxId /\ txn[addedIn[w]].state = "active"
         /\ addedIn[w] \in TxId /\ txn[addedIn[w]].state = "active" => status[w] = "held"
BY DEF TaskInv, SettledInv, Delivered

\* No task comes out of a step that commits no transaction.
LEMMA NothingComesOut ==
  ASSUME TaskInv, \A t \in TxId : txn[t].state = "active" => txn'[t].state # "committed",
         NEW w \in Task
  PROVE  Place(Released[w]) = Works[w]
<1>1. CASE status[w] = "held"
  <2>1. txn'[addedIn[w]].state # "committed" BY <1>1, HeldWhileOpen
  <2>2. Fate(txn'[addedIn[w]].state) \in {"held", "dropped"} BY <2>1 DEF Fate
  <2>3. QED BY <1>1, <2>2 DEF Released, Place, Works, Delivered
<1>2. CASE status[w] # "held" BY <1>2 DEF Released, Works
<1>3. QED BY <1>1, <1>2

\* All tasks of a transaction, and no others, come out when it commits.
LEMMA TasksComeOut ==
  ASSUME TaskInv, NEW t \in TxId, txn[t].state = "active", txn'[t].state = "committed",
         \A u \in TxId \ {t} : txn'[u] = txn[u], NEW w \in Task
  PROVE  Place(Released[w]) = IF addedIn[w] = t THEN "queued" ELSE Works[w]
<1>1. CASE addedIn[w] = t
  <2>1. status[w] = "held" BY <1>1, HeldWhileOpen
  <2>2. QED BY <1>1, <2>1 DEF Released, Fate, Place, Delivered
<1>2. CASE addedIn[w] # t /\ status[w] = "held"
  <2>1. txn'[addedIn[w]].state = "active" BY <1>2, HeldWhileOpen
  <2>2. Released[w] = "held" BY <1>2, <2>1 DEF Released, Fate
  <2>3. QED BY <1>2, <2>2 DEF Works
<1>3. CASE addedIn[w] # t /\ status[w] # "held" BY <1>3 DEF Released, Works
<1>4. QED BY <1>1, <1>2, <1>3

\* A request does anything but add tasks.
LEMMA WorkOutbox == ASSUME Inv, NEW r \in Request, Work(r) PROVE OutboxStep
<1>0. TypeInv /\ SafeInv /\ TaskInv /\ StoreTypeOK BY TypeInvParts DEF Inv
<1>1. status' = Released /\ UNCHANGED addedIn BY DEF Work
<1>2. Works' = [w \in Task |-> Place(Released[w])] BY <1>1 DEF Works
<1>3. Kinds BY <1>0, StepKinds DEF Work, Next
<1>4. ASSUME \A t \in TxId : txn[t].state = "active" => txn'[t].state # "committed"
      PROVE  Works' = Works
  BY <1>0, <1>2, <1>4, NothingComesOut DEF Works
<1>5. ASSUME \A t \in TxId : (txn[t].state = "active") => (txn'[t].state = "active"), Quiet
      PROVE  OutboxStep
  BY <1>0, <1>1, <1>4, <1>5, NoneEnds, NoEffectStep
<1>6. ASSUME NEW t \in TxId, Opens(t) PROVE OutboxStep
  BY <1>0, <1>5, <1>6, OpensQuiet DEF Opens, StoreTypeOK, Txn
<1>7. ASSUME NEW t \in TxId, NEW k \in Key, Gets(t, k) PROVE OutboxStep
  BY <1>0, <1>5, <1>7, GetsQuiet, GetTypes DEF Gets, ActiveKept
<1>8. ASSUME NEW t \in TxId, NEW K \in SUBSET Key, NEW c \in {t, NoEntity}, WritesIn(t, K, c)
      PROVE  OutboxStep
  <2>1. c \in Content BY ValueAssumption DEF Content
  <2>2. ActiveKept BY <1>0, <1>8, <2>1, WriteTypes DEF WritesIn
  <2>3. Atomic!Ask(t) BY <1>0, <1>8, WritesAsk
  <2>4. Outbox!Ask(t) BY <2>3 DEF Atomic!Ask, Outbox!Ask
  <2>5. Works' = Works BY <1>4, <2>2 DEF ActiveKept
  <2>6. QED BY <1>1, <2>4, <2>5 DEF OutboxStep, Outbox!OutboxNext, Works, Place
<1>9. ASSUME NEW K \in SUBSET Key, NEW c \in {Direct, NoEntity}, WritesDirectly(K, c)
      PROVE  OutboxStep
  <2>1. Atomic!WriteDirectly BY <1>0, <1>9, DirectEffect
  <2>2. Outbox!WriteDirectly BY <2>1 DEF Atomic!WriteDirectly, Outbox!WriteDirectly
  <2>3. Works' = Works BY <1>4, <1>9 DEF WritesDirectly, DirectWrite
  <2>4. QED BY <1>1, <2>2, <2>3 DEF OutboxStep, Outbox!OutboxNext, Works, Place
<1>10. ASSUME NEW t \in TxId, NEW a \in {"returned", "unknown"}, Applies(t, a)
       PROVE  OutboxStep
  <2>1. /\ txn'[t].state = "committed" /\ txn[t].state = "active"
        /\ \A u \in TxId \ {t} : txn'[u] = txn[u]
    BY <1>0, <1>10, ClosedKeeps DEF Applies, ApplyWrites, StoreTypeOK
  <2>2. Works' = [w \in Task |-> IF addedIn[w] = t THEN "queued" ELSE Works[w]]
    BY <1>0, <1>2, <2>1, TasksComeOut
  <2>3. QED BY <1>0, <1>1, <1>10, <2>2, AppliesEffect, TakeEffectStep
<1>11. ASSUME NEW t \in TxId, NEW s \in {"rolledback", "failed"},
              NEW a \in {"threw", "conflict", "unknown"}, Drops(t, s, a)
       PROVE  OutboxStep
  <2>1. \A u \in TxId : txn'[u].state \in {s, txn[u].state}
    BY <1>0, <1>11, ClosedKeeps DEF Drops, DropWrites, StoreTypeOK
  <2>2. Works' = Works BY <1>4, <2>1
  <2>3. QED BY <1>0, <1>1, <1>11, <2>2, DropsEffect, NoEffectStep
<1>12. ASSUME NEW T \in SUBSET TxId, Expires(T) PROVE OutboxStep
  <2>1. \A u \in TxId : txn'[u].state \in {"expired", txn[u].state}
    BY <1>0, <1>12, ClosedKeeps DEF Expires
  <2>2. Works' = Works BY <1>4, <2>1
  <2>3. QED BY <1>0, <1>1, <1>12, <2>2, ExpiresEffect, NoEffectStep
<1>13. CASE UNCHANGED <<store, version, txn, outcome, reads>>
  <2>1. Quiet BY <1>13 DEF Quiet, Askeds, Answers, Seens, Updated, ReadOnly, Wrote
  <2>2. QED BY <1>5, <1>13, <2>1
<1>14. QED
  BY <1>3, <1>6, <1>7, <1>8, <1>9, <1>10, <1>11, <1>12, <1>13 DEF Kinds

\* A request is killed, in a webhook or not: its functions have no effect,
\* and the task is tried again.
LEMMA DieOutbox == ASSUME Inv, NEW r \in Request, Die(r) PROVE OutboxStep
<1>0. TypeInv /\ SafeInv /\ TaskInv BY DEF Inv
<1>1. PICK T \in SUBSET TxId : Expires(T) BY <1>0, KilledExpires DEF Die
<1>2. EndsInVain BY <1>0, <1>1, ExpiresEffect
<1>3. \A u \in TxId : txn'[u].state \in {"expired", txn[u].state}
  BY <1>0, <1>1, TypeInvParts, ClosedKeeps DEF Expires
<1>4. \A w \in Task : Place(Released[w]) = Works[w] BY <1>0, <1>3, NothingComesOut
<1>5. \A w \in Task : Works'[w] = IF w = webhook[r] THEN "queued" ELSE Works[w]
  BY <1>4 DEF Die, Works, Place, Delivered
<1>6. webhook[r] \in Task => status[webhook[r]] = "running"
  BY <1>0 DEF TaskInv, TaskTypeOK
<1>7. CASE webhook[r] \in Task
  <2>1. Works' = [Works EXCEPT ![webhook[r]] = "queued"] BY <1>5, <1>7 DEF Works
  <2>2. QED BY <1>2, <1>6, <1>7, <2>1, NoEffectStep DEF Die
<1>8. CASE webhook[r] \notin Task
  <2>1. Works' = Works BY <1>5, <1>8 DEF Works
  <2>2. QED BY <1>2, <2>1, NoEffectStep DEF Die
<1>9. QED BY <1>7, <1>8

\* Neither the store nor what callers were told changes.
LEMMA QuietVars ==
  ASSUME UNCHANGED <<store, txn, outcome, reads>>
  PROVE  Quiet
BY DEF Quiet, Askeds, Answers, Seens, Updated, ReadOnly, Wrote

\* One task goes somewhere.
LEMMA WorksAfter ==
  ASSUME TaskInv, NEW w \in Task, NEW s, Becomes(w, s)
  PROVE  Works' = [Works EXCEPT ![w] = Place(s)]
BY DEF TaskInv, TaskTypeOK, Becomes, Works

\* A task is added, whether the caller is told or not.
LEMMA AcceptOutbox ==
  ASSUME Inv, NEW r \in Request, NEW w \in Task, Accept(r, w), Quiet
  PROVE  OutboxStep
<1>0. TypeInv /\ SafeInv /\ TaskInv BY DEF Inv
<1>1. status[w] = "new" /\ addedIn[w] = NoTxn BY <1>0 DEF Accept, TaskInv, SettledInv
<1>2. CASE InTransaction(r) /\ Becomes(w, "held")
           /\ addedIn' = [addedIn EXCEPT ![w] = CurrentTxn(r)]
  <2>1. CurrentTxn(r) \in TxId /\ txn[CurrentTxn(r)].state = "active"
    BY <1>0, <1>2, InnermostIsCurrent, InTransactionIsCalling DEF TypeInv
  <2>2. Answers[CurrentTxn(r)] = "none" BY <1>0, <2>1, ActiveIsUnanswered
  <2>3. Works' = [Works EXCEPT ![w] = "inside"] /\ Works[w] = "inside"
    BY <1>0, <1>1, <1>2, WorksAfter DEF Works, Place, Delivered
  <2>4. Works' = Works BY <2>3 DEF Works
  <2>5. Outbox!AddInside(CurrentTxn(r), w)
    BY <1>1, <1>2, <2>2, <2>3, <2>4
    DEF Outbox!AddInside, Outbox!aVars, Quiet, Askeds, Answers, Seens, Works, Place
  <2>6. QED BY <2>1, <2>5 DEF OutboxStep, Outbox!OutboxNext
<1>3. CASE Becomes(w, "queued") /\ UNCHANGED addedIn
  <2>1. Works' = [Works EXCEPT ![w] = "queued"]
    BY <1>0, <1>3, WorksAfter DEF Place, Delivered
  <2>2. QED BY <1>1, <1>3, <2>1, TaskStep
<1>4. QED BY <1>2, <1>3 DEF Accept

\* The webhook starts, succeeds or fails.
LEMMA WebhookOutbox ==
  ASSUME Inv, NEW r \in Request, NEW v \in Task, StartTask(r, v) \/ Succeed(r) \/ Fail(r)
  PROVE  OutboxStep
<1>0. TypeInv /\ TaskInv BY DEF Inv
<1>1. Quiet /\ UNCHANGED addedIn
  BY QuietVars DEF StartTask, Succeed, Fail, Leaves, vars, dsVars
<1>2. CASE StartTask(r, v)
  <2>1. Works' = [Works EXCEPT ![v] = "running"] /\ status[v] = "queued"
    BY <1>0, <1>2, WorksAfter DEF StartTask, Place, Delivered
  <2>2. QED BY <1>1, <2>1, TaskStep
<1>3. ASSUME Leaves(r) PROVE webhook[r] \in Task /\ status[webhook[r]] = "running"
  BY <1>0, <1>3 DEF Leaves, TaskInv, TaskTypeOK
<1>4. CASE Succeed(r)
  <2>1. Works' = [Works EXCEPT ![webhook[r]] = "done"]
    BY <1>0, <1>3, <1>4, WorksAfter DEF Succeed, Place, Delivered
  <2>2. QED BY <1>1, <1>3, <1>4, <2>1, TaskStep DEF Succeed
<1>5. CASE Fail(r)
  <2>1. Works' = [Works EXCEPT ![webhook[r]] = "queued"]
    BY <1>0, <1>3, <1>5, WorksAfter DEF Fail, Place, Delivered
  <2>2. QED BY <1>0, <1>1, <1>3, <1>5, <2>1, NoneEnds, NoEffectStep DEF Fail
<1>6. QED BY <1>2, <1>4, <1>5

\* Tasks over transactions implement the atomic outbox (taskqueue.js:57-122,
\* db.js:139-161): each function updates the store and gives out all its
\* tasks in one step, or does neither.
THEOREM ImplementsOutbox == TaskSpec => TasksComeOutAtomically
<1>1. TaskInit => Outbox!OutboxInit
  BY AnswerOf
  DEF TaskInit, Init, DatastoreInit, Outbox!OutboxInit, Outbox!AtomicInit, Outbox!NothingRead,
      Outbox!NothingAsked, Updated, FreshTxn, Delivered
<1>2. Inv /\ [TaskNext]_allVars => OutboxStep
  <2> SUFFICES ASSUME Inv, [TaskNext]_allVars PROVE OutboxStep OBVIOUS
  <2>1. ASSUME UNCHANGED allVars PROVE OutboxStep
    <3>1. Quiet /\ Works' = Works /\ UNCHANGED addedIn
      BY <2>1, QuietVars DEF allVars, vars, dsVars, taskVars, Works
    <3>2. QED BY <3>1, NoneEnds, NoEffectStep DEF Inv
  <2>2. ASSUME NEW r \in Request, NEW w \in Task, AddTask(r, w) PROVE OutboxStep
    BY <2>2, AcceptOutbox, QuietVars DEF AddTask, vars, dsVars
  <2>3. ASSUME NEW r \in Request, NEW w \in Task, AddFails(r, w) PROVE OutboxStep
    <3>1. Quiet BY <2>3, QuietVars DEF AddFails, Throw, dsVars
    <3>2. CASE Accept(r, w) BY <3>1, <3>2, AcceptOutbox
    <3>3. CASE UNCHANGED <<status, addedIn>>
      <4>1. Works' = Works BY <3>3 DEF Works
      <4>2. QED BY <3>1, <3>3, <4>1, NoneEnds, NoEffectStep DEF Inv
    <3>4. QED BY <2>3, <3>2, <3>3 DEF AddFails
  <2>4. ASSUME NEW r \in Request, Succeed(r) \/ Fail(r) PROVE OutboxStep
    <3>1. PICK v : v \in Task BY <2>4 DEF Succeed, Fail, Leaves, Inv, TaskInv, TaskTypeOK
    <3>2. QED BY <2>4, <3>1, WebhookOutbox
  <2>5. CASE AllIdle BY <2>1, <2>5 DEF AllIdle, Idle, allVars
  <2>6. QED
    BY <2>1, <2>2, <2>3, <2>4, <2>5, WorkOutbox, DieOutbox, WebhookOutbox DEF TaskNext
<1>3. QED
  BY <1>1, <1>2, TasksAndTransactions, PTL
  DEF TaskSpec, TasksComeOutAtomically, Outbox!OutboxSpec, OutboxStep
=============================================================================
