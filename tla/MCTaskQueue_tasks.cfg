\* Two requests, two transactions that may be nested, two tasks.
CONSTANTS
  Request = {r1, r2}
  TxId = {t1, t2}
  Key = {k1}
  Group = {g1}
  g1 = g1
  GroupOf <- MCGroupOf
  Value <- MCValue
  NoEntity = NoEntity
  NoWrite = NoWrite
  NoGroup = NoGroup
  Direct = Direct
  NotRead = NotRead
  Batches <- MCBatches
  MaxDepth = 2
  MaxVersion = 0
  Task = {w1, w2}
  NoTask = NoTask
  NoTxn = NoTxn
SPECIFICATION TaskSpec
SYMMETRY Symmetry
INVARIANTS
  TaskTypeOK
  TasksFollowTransactions
PROPERTIES
  TasksComeWithUpdates
  TasksComeOutAtomically
