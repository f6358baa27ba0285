CONSTANTS
    a = a
    b = b
    Configs = {a, b}
    Counts = {1, 3}
    SetupVfCount = 2
    Scans = TRUE
    MaxEdits = 2
    MaxEvents = 1
    MaxLate = 1
    Window = 1
SPECIFICATION Spec
INVARIANTS
    AllocateFinds
PROPERTIES
    OverrideInForce
    KubeletFollows
CHECK_DEADLOCK FALSE
