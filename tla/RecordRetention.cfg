\* OCI provider, two backends, fair scheduling, two failures; the tenant may be
\* deleted. Lists of one record a page, passes of one record a kind.
CONSTANTS
  Jobs = {j1}
  Legacy = {}
  Attempts = {a1, a2}
  Pollers = {p1, p2}
  Senders = {}
  Oci = TRUE
  Prompt = TRUE
  Window = 1
  StaleAfter = 2
  RetryDelay <- MCRetryDelay
  DeferDelay = 1
  TxTimeout = 2
  MaxFailures = 2
  MaxDeferrals = 0
  MaxFreezes = 1
  None = None
  Rows = {1, 2, 3, 4}
  Layouts <- MCLayouts
  PageLimit = 1
  PassBatch = 1
  Year = 1
  LastTick = 1
  MaxPassFails = 1
  MaxDeletions = 1
  Nothing = Nothing
SPECIFICATION MCSpec
INVARIANTS
  WalkIsExact
PROPERTIES
  SentIsDestroyed
  NothingGoesWhilePending
  BacklogIsCleared
\* The bounds of the records are used up.
CHECK_DEADLOCK FALSE
