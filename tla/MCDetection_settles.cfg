CONSTANTS
    Plugins <- McPlugins
    Compiled <- McCompiled
    Claims <- McClaims
    Cards <- McCards
    Ports <- McPorts
    Port <- McPort
    Space <- McSpace
    Products <- McProducts
    MaxFaults = 1
    MaxPlugs = 1
    MaxCalls = 2
SPECIFICATION Spec
INVARIANTS IndexExact
PROPERTIES DetectionSettles
