\* One instance, a name and two ids, two transactions, one foreign write.
CONSTANTS
  Me = r
  Request = {r}
  TxId = {t1, t2}
  Instance = {i1}
  NameKey = {a}
  IdKey = {n1, n2}
  Key <- MCKey
  Group <- MCKey
  GroupOf <- MCGroupOf
  Dates = {0, 1}
  Value <- MCValue
  NoEntity = NoEntity
  NoWrite = NoWrite
  NoGroup = NoGroup
  NoKey = NoKey
  NoDate = NoDate
  Other = Other
  MaxClock = 1
  MaxOther = 1
  MaxVersion = 3
SPECIFICATION Spec
SYMMETRY Symmetry
INVARIANTS
  TypeOK
  KeysAgree
  OneEntityPerInstance
  OneCreationDate
PROPERTY
  KeyNeverChanges
