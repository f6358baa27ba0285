\* One DPU that goes and comes back, so that an abandoned manager, its successor
\* and the readiness server may all have errors to send.  A shutdown that is
\* stuck stops the process for good.
SPECIFICATION FairSpec
CONSTANTS
  a = a
  None = None
  Dpus = {a}
  HostDpus = {a}
  SetupVfCount = 8
  VfCounts = {4}
  ErrCapacity = 1
  MaxRoutines = 3
  MaxFlaps = 2
  MaxFaults = 1
  MaxOutside = 1
PROPERTIES
  ReadyMeansSynced ClusterConverges ShutdownEnds
CHECK_DEADLOCK FALSE
