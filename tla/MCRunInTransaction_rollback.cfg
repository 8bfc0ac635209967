\* The doc of runInTransaction against a function that calls it again.
CONSTANTS
  Request = {r1, r2}
  TxId = {t1, t2, t3}
  Key = {k1, k3}
  Group = {g1, g2}
  k1 = k1
  k2 = k2
  k3 = k3
  g1 = g1
  g2 = g2
  GroupOf <- MCGroupOf
  Value <- MCValue
  NoEntity = NoEntity
  NoWrite = NoWrite
  NoGroup = NoGroup
  Direct = Direct
  NotRead = NotRead
  Batches <- AllBatches
  MaxDepth = 2
  MaxVersion = 0
SPECIFICATION Spec
SYMMETRY Symmetry
INVARIANT
  AllUpdatesRolledBack
