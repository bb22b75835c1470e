\* OCI provider, two backends, a lifetime of two failures and one deferral: the mail the
\* purge reads is the mail of the tenant life cycle.
CONSTANTS
  Jobs = {j1}
  Legacy = {}
  Attempts = {a1, a2, a3}
  Pollers = {p1, p2}
  Senders = {}
  Oci = TRUE
  Prompt = TRUE
  Window = 1
  StaleAfter = 2
  RetryDelay <- MCRetryDelay
  DeferDelay = 1
  TxTimeout = 2
  MaxFailures = 2
  MaxDeferrals = 1
  None = None
SPECIFICATION Spec
PROPERTIES
  KeepsPurgeView
