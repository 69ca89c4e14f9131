SPECIFICATION Spec
CONSTANTS
  Attempts = {a1, a2, a3, a4}
  Requests = {r1}
  Contents = {c1, c2}
  Secs = {s1}
  Empty = c1
  None = None
  Grace = 1
  MaxUploadAge = 0
  KeepBundles = 1
  MaxPrepare = 0
  MaxExchange = 1
  Retention = 2
  MaxTime = 5
  MaxGen = 3
CONSTRAINTS StaysActive AnswersArrive NoCallWasted OneWriter
SYMMETRY Callers
INVARIANTS
  NoDanglingObjects
  RequestOnce
PROPERTIES
  HeadReadableForGrace
CHECK_DEADLOCK FALSE
