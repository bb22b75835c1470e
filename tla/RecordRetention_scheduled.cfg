\* OCI provider, fair scheduling, no failure; the location closes.
CONSTANTS
  Jobs = {j1}
  Legacy = {}
  Attempts = {a1}
  Pollers = {p1}
  Senders = {}
  Oci = TRUE
  Prompt = TRUE
  Window = 1
  StaleAfter = 2
  RetryDelay <- MCRetryDelay
  DeferDelay = 1
  TxTimeout = 2
  MaxFailures = 0
  MaxDeferrals = 0
  MaxFreezes = 0
  None = None
  Rows = {1}
  Layouts <- MCNoLayouts
  PageLimit = 1
  PassBatch = 1
  Year = 1
  LastTick = 0
  MaxPassFails = 0
  MaxDeletions = 0
  Nothing = Nothing
SPECIFICATION MCSpec
PROPERTIES
  FailedIsDestroyed
\* The behaviour stops when its bounds are reached.
CHECK_DEADLOCK FALSE
