SPECIFICATION SessionSpec
CONSTANTS
  None = None
  Sids = {s1}
  Jtis = {j1, j2, j3}
  Reqs = {r1, r2}
  MaxFaults = 2
SYMMETRY Interchangeable
INVARIANTS
  SessionInv
  OnePair
  OneSuccessor
  NoRevival
  RevokedIsGone
PROPERTIES
  ProofStands
  ImplementsLife
