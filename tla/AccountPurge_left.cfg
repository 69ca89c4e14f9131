SPECIFICATION PurgeSafety
CONSTANTS
  Procs = {p1}
  Steady = p1
  Task = task
  None = None
  MaxAttempts = 1
  MaxGen = 2
  Domains <- OneDomain
  Batches = 1
  Stored = {o1}
  Uploading = {o2}
CHECK_DEADLOCK FALSE
INVARIANTS NothingIsLeft
