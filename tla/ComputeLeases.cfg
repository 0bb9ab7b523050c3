SPECIFICATION OrphanSpec
CONSTANTS
  w1 = w1 w2 = w2 i1 = i1 i2 = i2 j1 = j1 j2 = j2 t1 = t1
  none = none
  Workers = {w1, w2}
  Instances = {i1}
  NoInstance = none
  NoJob = none
  Jobs = {j1}
  Tenants = {t1}
  LeaseTtl = 1
  MaxClock = 3
  MaxCalls = 0
  TenantMax = 1
  MaxRequests = 1
  TenantOf <- MCTenantOf
  MaxAttempts <- MCMaxAttempts
  Deadline <- MCDeadline
  Priority <- MCPriority
  CanRun <- MCCanRun
INVARIANTS TypeOK ResultFromLastLease AttemptsBounded UsageOfAcceptedResults
PROPERTIES TerminalStable NoDoubleAssignment LifecycleSpec OrphanedLeaseEnds
CHECK_DEADLOCK FALSE
