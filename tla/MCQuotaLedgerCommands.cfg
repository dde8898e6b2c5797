SPECIFICATION Spec
CONSTANTS
  t1 = t1  t2 = t2  cpu = cpu  gpu = gpu
  c1 = c1  c2 = c2  c3 = c3  d1 = d1  a1 = a1  a2 = a2  a3 = a3
  e1 = e1  None = None
  Tenants = {t1}
  Codes = {cpu}
  GpuCodes = {}
  Creates = {c1, c2}
  Deletes = {d1, a1, a2}
  Events = {e1}
  MaxAttempts = 2
  TenantOf <- CommandsTenantOf
  Kind <- CommandsKind
  Units <- CommandsUnits
  AutoClose <- CommandsClose
  Plans <- CommandsPlans
INVARIANTS
  LedgerInv
PROPERTIES
  NothingTakenBack
