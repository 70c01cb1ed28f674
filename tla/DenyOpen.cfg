\* Deny of a node that is not isolated; no call fails.
CONSTANTS
    MediumTop = 2
    NoDecay = 4
    HighTop = 5
    Decay = 1
    Threats <- Freezing
    MaxQueue = 2
    MaxThreats = 1
    MaxCommands = 1
    MaxResets = 0
    MaxFaults = 0
    MaxCrashes = 0
SPECIFICATION Spec
CHECK_DEADLOCK FALSE
PROPERTY
    DenyBlocks
