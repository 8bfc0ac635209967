\* Two requests at a time, of two domains, and an entity of each.
CONSTANTS
  Request = {r1, r2}
  Domain = {d1, d2}
  Empty = Empty
  Key = {k1}
  Absent = Absent
  Deadline = 1
  LockTime = 3
  MaxUpdates = 1
  MaxCounts = 2
SPECIFICATION Spec
SYMMETRY Symmetry
INVARIANTS
  TypeOK
  CacheIsFresh
  DomainsApart
  CountsOnce
PROPERTY
  LikeAStorePerDomain
