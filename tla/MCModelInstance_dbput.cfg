\* The doc of isSaved against db.put.
CONSTANTS
  Me = r
  Request = {r}
  TxId = {t1}
  Instance = {i1}
  NameKey = {a}
  IdKey = {n1}
  Key <- MCKey
  Group <- MCKey
  GroupOf <- MCGroupOf
  Dates = {0, 1}
  Value <- MCValue
  NoEntity = NoEntity
  NoWrite = NoWrite
  NoGroup = NoGroup
  NoKey = NoKey
  NoDate = NoDate
  Other = Other
  MaxClock = 1
  MaxOther = 0
  MaxVersion = 2
SPECIFICATION Spec
SYMMETRY Symmetry
INVARIANT
  SavedObjectsAreSaved
