SPECIFICATION FullSpec
CONSTANTS
  w1 = w1 w2 = w2 i1 = i1 i2 = i2 j1 = j1 j2 = j2 t1 = t1
  none = none
  Workers = {w1}
  Instances = {i1, i2}
  NoInstance = none
  NoJob = none
  Jobs = {j2}
  Tenants = {t1}
  LeaseTtl = 1
  MaxClock = 3
  MaxCalls = 2
  TenantMax = 1
  MaxRequests = 2
  TenantOf <- MCTenantOf
  MaxAttempts <- MCMaxAttempts
  Deadline <- MCDeadline
  Priority <- MCPriority
  CanRun <- MCCanRun
PROPERTIES LeaseKeptForTtl ActiveInstanceKept
