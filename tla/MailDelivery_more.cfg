\* As MailDelivery_safety.cfg, further invariants.
CONSTANTS
  Jobs = {j1}
  Legacy = {}
  Attempts = {a1, a2, a3, a4}
  Pollers = {p1, p2}
  Senders = {h1}
  Oci = TRUE
  Prompt = TRUE
  Window = 1
  StaleAfter = 2
  RetryDelay <- MCRetryDelay
  DeferDelay = 1
  TxTimeout = 2
  MaxFailures = 2
  MaxDeferrals = 1
  None = None
SPECIFICATION Spec
INVARIANTS
  NoCallInsideWindow
  CallIsRecorded
  ClaimIsRecoverable
  RetryCountIsRefusals
