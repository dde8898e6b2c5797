SPECIFICATION Spec
CONSTANTS
  t1 = t1  t2 = t2  cpu = cpu  gpu = gpu
  c1 = c1  c2 = c2  c3 = c3  d1 = d1  a1 = a1  a2 = a2  a3 = a3
  e1 = e1  e2 = e2  None = None
  Tenants = {t1, t2}
  Codes = {cpu, gpu}
  GpuCodes = {gpu}
  Creates = {c1, c2, c3}
  Deletes = {d1, a1, a2, a3}
  Events = {e1, e2}
  MaxAttempts = 0
  TenantOf <- AccountsTenantOf
  Kind <- AccountsKind
  Units <- AccountsUnits
  AutoClose <- AccountsClose
  Plans <- AccountsPlans
INVARIANTS
  Balanced
  RefundsFollowReceipts
PROPERTIES
  AdmissionWithinPlan
  ImplementsAccounting
