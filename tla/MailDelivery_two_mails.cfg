\* A worker may outlive its claim: it stalls before the provider is called.
CONSTANTS
  Jobs = {j1}
  Legacy = {}
  Attempts = {a1, a2}
  Pollers = {p1, p2}
  Senders = {}
  Oci = TRUE
  Prompt = FALSE
  Window = 1
  StaleAfter = 2
  RetryDelay <- MCRetryDelay
  DeferDelay = 1
  TxTimeout = 2
  MaxFailures = 0
  MaxDeferrals = 0
  None = None
SPECIFICATION Spec
INVARIANTS
  AtMostOneMail
