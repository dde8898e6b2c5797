SPECIFICATION FairSpaceSpec
CONSTANTS
  t1 = t1  s1 = s1  w1 = w1  w2 = w2  x1 = x1  r1 = r1
  NoOne = NoOne  NoTenant = NoTenant  NoSandbox = NoSandbox
  Tenants = {t1}
  Sandboxes = {s1}
  TenantOf <- OneTenantOf
  Workers = {w1, w2}
  Couriers = {x1}
  Requests = {r1}
  MaxFaults = 1
CHECK_DEADLOCK FALSE
INVARIANTS
  SpaceInv
  SpacesAgree
PROPERTIES
  NoLateSandbox
  ClosingIsFinal
  OpeningSettles
  ClosingSettles
  IntentsSettle
