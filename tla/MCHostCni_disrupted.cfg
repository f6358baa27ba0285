\* Every step may fail, the daemon may crash, a namespace may vanish.
SPECIFICATION FairSpec
CONSTANTS
  Sandboxes = {s1, s2}
  VFs = {v1, d1}
  DpdkVFs = {d1}
  MacSandboxes = {s1}
  IpamSandboxes = {s2}
  None = None
  MaxFaults = 1
  MaxCrashes = 1
  NetnsMayVanish = TRUE
INVARIANTS RunningAttached
PROPERTIES LeaseSpec LockOnlyByOwner DelEventuallySucceeds
CHECK_DEADLOCK FALSE
