SPECIFICATION ComponentsSpec
CONSTANTS
  \* ExecutionDispatch
  Procs = {p1, p2}
  Steady = p1
  None = None
  MaxAttempts = 2
  MaxGen = 2
  \* Idempotency
  Attempts = {a1, a2}
  Inputs = {x1, x2}
  NoValue = NoValue
  TTL = 3
  PendingLease = 1
  MaxExchange = 1
  MaxIdemTime = 4
  \* InviteAccess
  Accounts = {u1, u2}
  i1 = i1
  i2 = i2
  k1 = k1
  k2 = k2
  Invites = {i1}
  Campaigns = {k1}
  CampaignOf <- OneInvite
  Redemptions = {c1, c2}
  Nobody = Nobody
  MaxCap = 2
  MaxEpoch = 1
  \* RealtimeAccess
  Sockets = {s1}
  Readers = {rd1}
  Never = Never
  CacheTtl = 1
  RememberFor = 2
  Patience = 1
  MaxHubClock = 2
  MaxGeneration = 2
  MaxReads = 2
  \* TopicDelivery
  Clients = {tab1}
  Replaying = {tab1}
  NoSeq = NoSeq
  Capacity = 1
  PendingLimit = 1
  Rate = 10
  MaxChanges = 3
  MaxTopicClock = 3
  MaxDrops = 1
  \* SearchIndex
  Records = {n1}
  Writers = {w1, w2}
  Missing = Missing
  BatchLimit = 1
  MaxVersion = 2
  MaxRuns = 2
  MaxSwitches = 2
  \* ReminderScan
  LastReminder = 2
  Scanners = {j1, j2}
  NoRow = NoRow
  ClaimLease = 1
  MaxLateness = 2
  MaxSends = 2
  Retention = 2
  ProviderMemory = 2
  MaxMinute = 4
  MaxChoices = 3
  MaxEdits = 2
INVARIANTS
  ComponentsTypeOK
  LocalStartsOnce
  AppliedOnce
  AnswersAreTrue
  SeatsWithinCapacity
  UnlockedByGrant
  SeatAdmitsOnce
  NoSocketOutlivesRestriction
  NothingIsMissed
  IndexIsWhole
  CompleteAnswersAreCurrent
  NotifiedOnce
  ReceivedOnce
PROPERTIES
  RetriesReplay
  AdmittedUnderOneGeneration
  SilencedStaysSilent
CHECK_DEADLOCK FALSE
VIEW Moving
SYMMETRY ScannerSymmetry
