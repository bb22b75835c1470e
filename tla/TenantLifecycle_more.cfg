\* Two administrators and one death; the type invariant and further properties.
CONSTANTS
  Tenants = {t1}
  Admins = {a1, a2}
  Backends = {b1, b2}
  Grace = 2
  MaxTime = 3
  MaxChanges = 3
  MaxDeaths = 1
  MaxFailures = 1
  None = None
SPECIFICATION FairSpec
INVARIANTS
  TypeOK
  StagingAnswerIsTrue
PROPERTIES
  NoLostUpdate
\* See TenantLifecycle.cfg.
CHECK_DEADLOCK FALSE
