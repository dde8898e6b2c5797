SPECIFICATION FairDispatchSpec
CONSTANTS
  t1 = t1  cpu = cpu  gpu = gpu  c1 = c1  d1 = d1  a1 = a1  e1 = e1
  w1 = w1  w2 = w2  None = None
  Tenants = {t1}
  Codes = {gpu}
  GpuCodes = {gpu}
  Creates = {c1}
  Deletes = {d1, a1}
  Events = {e1}
  Workers = {w1, w2}
  MaxAttempts = 0
  MaxFaults = 2
  TenantOf <- OneTenantOf
  Kind <- InferenceKind
  Units <- GpuUnits
  AutoClose <- OneClose
  Plans <- GpuPlan
INVARIANTS
  DispatchInv
PROPERTIES
  ImplementsUsageSource
  EveryCommandDecided
  RejectionIsRefunded
