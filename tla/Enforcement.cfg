\* Two events other than telemetry, a command and a reset, without failures.
CONSTANTS
    MediumTop = 2
    NoDecay = 4
    HighTop = 5
    Decay = 1
    Threats <- MCThreats
    MaxQueue = 1
    MaxThreats = 2
    MaxCommands = 1
    MaxResets = 1
    MaxFaults = 0
    MaxCrashes = 0
SPECIFICATION Spec
CHECK_DEADLOCK FALSE
INVARIANTS
    TypeOK
    ScoreIsEnforced
    RulesAreBounded
    HeardIsNotSilenced
PROPERTY
    FallsAreExplained
