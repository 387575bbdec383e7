SPECIFICATION Spec
CONSTANTS
  Caller <- MCCaller
  Tenant <- MCTenant
  tenantOf <- MCTenantOf
  CallsPerMinute = 2
  Burst = 2
  MaxConcurrent = 2
  Scale = 3
  MaxTime = 3
  NoLimiter = NoLimiter
INVARIANTS
  ConcurrencyCeiling
  SlotsMatchHolders
  RateCeiling
PROPERTY
  AcquireReturns
CHECK_DEADLOCK FALSE
