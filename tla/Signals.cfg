\* Three events or edits of rules.yaml over four moments around midnight, one reset, failure or restart.
CONSTANTS
    Nodes = {"node1", "node2", "security-monitor"}
    RuleIds = {"IMAGE", "DRIFT"}
    Files <- MCFiles
    Events <- MCEvents
    SignalRules <- MCSignalRules
    Window = 1
    Threshold = 2
    Factor = 15
    Plain = 10
    Start = 1
    Day = 3
    MaxTime = 4
    MaxInputs = 3
    MaxQueue = 1
    MaxChanges = 1
SPECIFICATION FairSpec
CHECK_DEADLOCK FALSE
INVARIANTS
    TypeOK
    CrossNodeMatchesHistory
    MultiSignalMatchesHistory
PROPERTIES
    RulesFollowWrites
