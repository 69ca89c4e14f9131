SPECIFICATION AccountSpec
CONSTANTS
  \* AccountPurge and ExecutionDispatch
  Procs = {p1}
  Steady = p1
  Task = task
  None = None
  MaxAttempts = 2
  MaxGen = 2
  Domains <- OneDomain
  Batches = 1
  Stored = {d1}
  Uploading = {}
  \* OtpSignIn
  OtpCallers = {g1, g2}
  CodeTtl = 2
  MaxGuesses = 2
  PerHour = 1
  PerDay = 2
  Cooldown = 1
  FailuresPerDay = 2
  Lockout = 1
  Hour = 1
  Day = 3
  MaxCodes = 2
  MaxOtpTime = 3
  \* OAuthGrants
  OAuthCallers = {e1, e2}
  RequestLife = 1
  CodeLife = 1
  GrantLife = 2
  MaxCredentials = 3
  MaxOAuthTime = 2
  \* VaultAccess
  VaultCallers = {v1, v2}
  MaxFailures = 2
  Window = 1
  MaxDayFailures = 3
  DayWindow = 2
  IdleTime = 1
  SessionLife = 2
  AuthorizationLife = 1
  MaxOpened = 1
  MaxVaultTime = 2
  \* SharedArtifacts
  o1 = o1
  o2 = o2
  z1 = z1
  z2 = z2
  Releasers = {o1, o2}
  Guests = {z1, z2}
  TriesPerWindow = 2
  TriesPerDay = 3
  WindowsPerDay = 2
  MaxHeads = 2
  MaxShares = 2
  MaxWindow = 1
INVARIANTS
  AccountTypeOK
  StepsHold
  GuessesAreLimited
  OneChainPerConsent
  ResetEndsTrust
  TriesAreLimited
  SharedAsReleased
CHECK_DEADLOCK FALSE
VIEW AccountMoving
