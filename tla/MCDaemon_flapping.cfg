\* Two DPUs that come and go; a wait for a cancelled manager may always time out.
SPECIFICATION Spec
CONSTANTS
  a = a
  b = b
  None = None
  Dpus = {a, b}
  HostDpus = {}
  SetupVfCount = 8
  VfCounts = {}
  ErrCapacity = 1
  MaxRoutines = 3
  MaxFlaps = 2
  MaxFaults = 1
  MaxOutside = 0
SYMMETRY DpuSymmetry
INVARIANTS
  OneManagerPerDpu
PROPERTIES
  SocketsLeadToServing
CHECK_DEADLOCK FALSE
