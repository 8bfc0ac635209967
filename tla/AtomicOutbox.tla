----------------------------- MODULE AtomicOutbox -----------------------------
(***************************************************************************)
(* What runInTransaction (ext/db.js:139-161) and Task.add                  *)
(* (api/taskqueue.js:57-122) promise together, with no stacks, snapshots,  *)
(* versions or exceptions: the atomic store with an outbox.  The tasks     *)
(* that a function adds come out all at once, in the indivisible step in   *)
(* which the function takes effect, or never.  A task that is out is       *)
(* worked off, one worker at a time, and again until it has succeeded.     *)
(***************************************************************************)
EXTENDS AtomicStore

CONSTANTS Task, NoTxn

VARIABLES
  from,      \* the function that added each task, or NoTxn
  work       \* where each task is

oVars == <<aVars, from, work>>

OutboxInit ==
  /\ AtomicInit
  /\ from = [w \in Task |-> NoTxn]
  /\ work = [w \in Task |-> "inside"]

Move(w, place, next) == work[w] = place /\ work' = [work EXCEPT ![w] = next]

\* The function t, which is not over, adds a task.
AddInside(t, w) ==
  /\ answer[t] = "none"
  /\ work[w] = "inside" /\ from[w] = NoTxn
  /\ from' = [from EXCEPT ![w] = t]
  /\ UNCHANGED <<aVars, work>>

\* A task is added by code outside any function.
AddOutside(w) ==
  /\ from[w] = NoTxn
  /\ Move(w, "inside", "queued")
  /\ UNCHANGED <<aVars, from>>

\* The function t takes effect: its updates if it asked for any, and its tasks.
TakeEffect(t) ==
  /\ Update(t) \/ NoUpdate(t)
  /\ work' = [w \in Task |-> IF from[w] = t THEN "queued" ELSE work[w]]
  /\ UNCHANGED from

\* What happens to a task that is out.  Its worker may end in the middle of
\* functions that it runs.
Start(w) == Move(w, "queued", "running") /\ UNCHANGED <<aVars, from>>
Succeed(w) == Move(w, "running", "done") /\ UNCHANGED <<aVars, from>>
Again(w) == EndInVain /\ Move(w, "running", "queued") /\ UNCHANGED from

OutboxNext ==
  \/ \E t \in TxId : TakeEffect(t) \/ \E w \in Task : AddInside(t, w)
  \/ /\ (\E t \in TxId : Ask(t)) \/ EndInVain \/ WriteDirectly
     /\ UNCHANGED <<from, work>>
  \/ \E w \in Task : AddOutside(w) \/ Start(w) \/ Succeed(w) \/ Again(w)

OutboxSpec == OutboxInit /\ [][OutboxNext]_oVars
=============================================================================
