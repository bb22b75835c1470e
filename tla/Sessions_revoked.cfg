\* The calls a tenant's page still makes after its session was revoked.
CONSTANTS
  Realms = {"tenant"}
  Sessions = {s1}
  Calls = {c1}
  MaxTokens = 2
  MaxChanges = 1
  MayFail = FALSE
  None = None
SYMMETRY Symmetric
SPECIFICATION Spec
INVARIANTS
  RevokedIsRefused
CHECK_DEADLOCK FALSE
