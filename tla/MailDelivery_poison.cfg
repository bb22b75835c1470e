\* OCI provider: a rate-limited job claimed again and left by a crash.
CONSTANTS
  Jobs = {j1}
  Legacy = {}
  Attempts = {a1, a2, a3}
  Pollers = {p1}
  Senders = {}
  Oci = TRUE
  Prompt = TRUE
  Window = 1
  StaleAfter = 2
  RetryDelay <- MCRetryDelay
  DeferDelay = 1
  TxTimeout = 2
  MaxFailures = 1
  MaxDeferrals = 1
  None = None
SPECIFICATION FairSpec
PROPERTIES
  ClaimIsResolved
