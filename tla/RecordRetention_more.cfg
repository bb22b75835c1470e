\* As RecordRetention.cfg, a further property.
CONSTANTS
  Jobs = {j1}
  Legacy = {}
  Attempts = {a1, a2}
  Pollers = {p1, p2}
  Senders = {}
  Oci = TRUE
  Prompt = TRUE
  Window = 1
  StaleAfter = 2
  RetryDelay <- MCRetryDelay
  DeferDelay = 1
  TxTimeout = 2
  MaxFailures = 1
  MaxDeferrals = 0
  MaxFreezes = 1
  None = None
  Rows = {1, 2, 3, 4}
  Layouts <- MCLayouts
  PageLimit = 1
  PassBatch = 1
  Year = 1
  LastTick = 1
  MaxPassFails = 1
  MaxDeletions = 1
  Nothing = Nothing
SPECIFICATION MCSpec
PROPERTIES
  DestroyedStaysGone
\* See RecordRetention.cfg.
CHECK_DEADLOCK FALSE
