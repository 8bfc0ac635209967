\* One reader, five places, pages of two, two writes, a request that dies.
CONSTANTS
  Reader = {r1}
  MaxPlace = 5
  PageSize = 2
  Limits = {0, 1}
  Offsets = {0, 1}
  Unset = Unset
  MaxWrites = 2
  MaxLosses = 1
  MaxLooks = 1
SPECIFICATION FairSpec
INVARIANTS
  TypeOK
  EachOnce
  NothingMissed
PROPERTIES
  ScanEnds
  PagesAdvance
