CONSTANTS
    fw = fw
    Functions = {fw}
    Images = {1, 2}
    Resources = {0, 1}
    NodeMatches = TRUE
    MaxEdits = 4
    MaxFaults = 1
    MaxTotal = 4
SPECIFICATION Spec
PROPERTY ChainConverges
CHECK_DEADLOCK FALSE
