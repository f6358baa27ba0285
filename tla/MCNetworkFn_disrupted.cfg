SPECIFICATION Spec
CONSTANTS
    Pods = {p1, p2}
    Links = {d1, d2}
    PciLinks = {d2}
    IpamPods = {p1}
    Host = Host
    None = None
    Orderly = FALSE
    MaxFaults = 1
    MaxCrashes = 1
INVARIANTS UpIsAttached PanicOnlyAfterLoss NfExact DelGivesBack
CHECK_DEADLOCK FALSE
