CONSTANTS
  Askers = {a1, a2}
  Length = 5
  CacheTTL = 1
  BootTimeout = 1
  StaleAfter = 2
  RetryAfter = 3
  MaxFaults = 1
SPECIFICATION QuotaSpec
CHECK_DEADLOCK FALSE
INVARIANTS
  OncePerPeriod
