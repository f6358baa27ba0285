CONSTANTS
    NumVfs = 1
    MaxFaults = 1
    MaxRestarts = 1
    MaxCrashes = 1
    MaxRaces = 1
    MaxTotal = 2
    MaxStored = 2
SPECIFICATION Spec
INVARIANTS
    Steered
PROPERTIES
    BootEnds
    FailsForCause
CHECK_DEADLOCK FALSE
