\* No call fails, no namespace vanishes, the daemon stays up; what is left is
\* the interleaving of the runtime's requests.
SPECIFICATION Spec
CONSTANTS
  Sandboxes = {s1, s2, s3}
  VFs = {v1, d1}
  DpdkVFs = {d1}
  MacSandboxes = {}
  IpamSandboxes = {}
  None = None
  MaxFaults = 0
  MaxCrashes = 0
  NetnsMayVanish = FALSE
SYMMETRY Symmetry
INVARIANTS RunningConfigured PortHasOwner
PROPERTIES AddWaitsForDel
CHECK_DEADLOCK FALSE
