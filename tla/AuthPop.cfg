CONSTANTS
  Procs = {p1, p2}
  Flows = {f1}
  Grants = {g1, g2}
  None = None
  Password = Password
  FlowTTL = 1
  AccessTTL = 1
  RefreshTTL = 2
  MinTTL = 1
  MaxFaults = 0
SPECIFICATION Spec
INVARIANTS PoppedOnce
