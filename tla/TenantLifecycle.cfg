\* One tenant of production or staging, an administrator, two backends, two deaths.
CONSTANTS
  Tenants = {t1}
  Admins = {a1}
  Backends = {b1, b2}
  Grace = 2
  MaxTime = 3
  MaxChanges = 3
  MaxDeaths = 2
  MaxFailures = 1
  None = None
SPECIFICATION FairSpec
INVARIANTS
  DeletedStaysSuspended
  RestoreUndoesDelete
  NoCallAfterPurge
PROPERTIES
  DueTenantIsPurged
\* The behaviour stops when the changes are used up and the last tick is reached.
CHECK_DEADLOCK FALSE
