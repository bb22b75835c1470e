\* A worker may outlive its claim: its answer comes after the recovery.
CONSTANTS
  Jobs = {j1}
  Legacy = {}
  Attempts = {a1, a2}
  Pollers = {p1}
  Senders = {h1}
  Oci = TRUE
  Prompt = FALSE
  Window = 1
  StaleAfter = 2
  RetryDelay <- MCRetryDelay
  DeferDelay = 1
  TxTimeout = 2
  MaxFailures = 0
  MaxDeferrals = 0
  None = None
SPECIFICATION Spec
PROPERTIES
  TerminalIsFinal
