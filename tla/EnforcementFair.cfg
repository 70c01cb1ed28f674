\* An attack event, a command, a reset, and one failed call and one engine crash.
CONSTANTS
    MediumTop = 2
    NoDecay = 4
    HighTop = 5
    Decay = 1
    Threats <- Recovering
    MaxQueue = 1
    MaxThreats = 1
    MaxCommands = 1
    MaxResets = 1
    MaxFaults = 1
    MaxCrashes = 1
SPECIFICATION FairSpec
CHECK_DEADLOCK FALSE
PROPERTIES
    HighIsFrozen
    
