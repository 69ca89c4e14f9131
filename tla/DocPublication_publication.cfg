SPECIFICATION Spec
CONSTANTS
  Attempts = {a1, a2, a3}
  Requests = {r1, r2}
  Contents = {c1, c2}
  Secs = {s1}
  Empty = empty
  None = None
  Grace = 1
  MaxUploadAge = 0
  KeepBundles = 1
  MaxPrepare = 0
  MaxExchange = 0
  Retention = 1
  MaxTime = 0
  MaxGen = 3
SYMMETRY Interchangeable
INVARIANTS
  LinearHistory
  Truthful
PROPERTIES
  NoPublishWhileInactive
  ImplementsHistoryStore
CHECK_DEADLOCK FALSE
