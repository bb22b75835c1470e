\* Two tenants are deleted and one worker dies.
CONSTANTS
  Tenants = {t1, t2}
  Admins = {}
  Backends = {b1}
  Grace = 1
  MaxTime = 2
  MaxChanges = 2
  MaxDeaths = 1
  MaxFailures = 0
  None = None
SPECIFICATION FairSpec
PROPERTIES
  SettledTenantIsPurged
\* The behaviour stops when the changes are used up and the last tick is reached.
CHECK_DEADLOCK FALSE
