\* Sandbox provider, fair scheduling, every retry used up, one failure.
CONSTANTS
  Jobs = {j1, j2}
  Legacy = {j2}
  Attempts = {a1, a2, a3, a4, a5}
  Pollers = {p1}
  Senders = {}
  Oci = FALSE
  Prompt = TRUE
  Window = 1
  StaleAfter = 2
  RetryDelay <- MCOneRetry
  DeferDelay = 1
  TxTimeout = 1
  MaxFailures = 1
  MaxDeferrals = 0
  None = None
SPECIFICATION FairSpec
PROPERTIES
  WaitingSettles
  ClaimIsResolved
