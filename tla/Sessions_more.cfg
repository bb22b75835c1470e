\* As Sessions.cfg, the type invariant.
CONSTANTS
  Realms = {"tenant", "platform"}
  Sessions = {s1, s2}
  Calls = {c1, c2}
  MaxTokens = 3
  MaxChanges = 2
  MayFail = TRUE
  None = None
SYMMETRY Symmetric
SPECIFICATION Spec
INVARIANTS
  TypeOK
\* See Sessions.cfg.
CHECK_DEADLOCK FALSE
