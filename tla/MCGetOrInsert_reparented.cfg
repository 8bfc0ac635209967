\* Two users who call again with the same data object, under a parent.
CONSTANTS
  Request = {u1, u2}
  RootKey = RootKey
  ChildKey = ChildKey
  Key <- MCKey
  g1 = g1
  g2 = g2
  Group = {g1, g2}
  GroupOf <- MCGroupOf
  TxId <- MCTxId
  Value <- MCValue
  NoEntity = NoEntity
  NoWrite = NoWrite
  NoGroup = NoGroup
  NoInstance = NoInstance
  Other = Other
  WithParent = TRUE
  Retrying = TRUE
  MaxCalls = 3
  MaxFailures = 0
  MaxOther = 0
SPECIFICATION Spec
INVARIANT
  OneEntity
