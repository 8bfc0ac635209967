\* Three users who call again after an exception, under a parent.
CONSTANTS
  Request = {u1, u2, u3}
  RootKey = RootKey
  ChildKey = ChildKey
  Key <- MCKey
  g1 = g1
  g2 = g2
  Group = {g1, g2}
  GroupOf <- MCGroupOf
  TxId <- MCTxId
  Value <- MCValue
  NoEntity = NoEntity
  NoWrite = NoWrite
  NoGroup = NoGroup
  NoInstance = NoInstance
  Other = Other
  WithParent = TRUE
  Retrying = TRUE
  MaxCalls = 6
  MaxFailures = 1
  MaxOther = 1
SPECIFICATION FairSpec
PROPERTIES
  InsertsOnce
  EveryUserServed
  NeverOverwrites
INVARIANTS
  TypeOK
  RetriesPaidFor
