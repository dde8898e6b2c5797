SPECIFICATION SessionSpec
CONSTANTS
  None = None
  Sids = {s1}
  Jtis = {j1, j2}
  Reqs = {r1}
  MaxFaults = 0
PROPERTIES
  LogoutTakesProof
