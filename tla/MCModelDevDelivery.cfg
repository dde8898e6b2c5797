SPECIFICATION FairDeliverySpec
CONSTANTS
  e1 = e1  p1 = p1  p2 = p2
  NoProc = NoProc  NoExec = NoExec
  Execs = {e1}
  Gpu = {e1}
  Procs = {p1, p2}
  MayStop = {p2}
  MaxCount = 2
  MaxFaults = 2
INVARIANTS
  DeliveryInv
  StoppedUnsentNeverRuns
  QuotaFollowsDelivery
  DrainedIsQuiet
PROPERTIES
  LeaseProtects
  CreateSettles
  StopSettles
