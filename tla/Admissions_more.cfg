\* As Admissions.cfg, the type invariant and further properties.
CONSTANTS
  Attempts = {a1, a2, a3, a4}
  Pace = 2
  Second = 4
  MaxPerSecond = 2
  MaxTime = 7
  None = None
  Ips = {i1, i2}
  LookupKeys = {tenant}
  Identifiers = {u1, u2}
  Limit <- MCLimit
  Window = 2
  MaxCounters = 6
  MaxLogins = 5
  LastTime = 4
  Requests = {r1, r2, r3}
  ProvisionKeys = {k1, k2}
  Bodies = {b1, b2}
  PlatformAdmins = {p1}
  TenantCodes = {c1, c2}
  CodeAttempts = 2
  MaxTenants = 2
  NoOne = NoOne
SPECIFICATION MCSpec
SYMMETRY MCSymmetry
INVARIANTS
  AdmissionsTypeOK
  ReservationRate
\* See Admissions.cfg.
CHECK_DEADLOCK FALSE
