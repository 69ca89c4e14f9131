SPECIFICATION LocalPurgeSpec
CONSTANTS
  Procs = {p1}
  Steady = p1
  Task = task
  None = None
  MaxAttempts = 1
  MaxGen = 2
  Domains <- OneDomain
  Batches = 1
  Stored = {}
  Uploading = {o1}
CHECK_DEADLOCK FALSE
PROPERTIES PurgedInLocalMode
