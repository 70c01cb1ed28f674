\* Three messages with every verdict, one crash of the engine and one reset (which restarts
\* the controller, so that process dies at any point too).
CONSTANTS
    RejectKinds = {"REPLAY_ATTACK"}
    RemarkSets = {{}, {"FLOOD_ATTACK", "NODE_IMPERSONATION"}}
    MaxRx = 3
    MaxCtlCrash = 0
    MaxEngCrash = 1
    MaxReset = 1
SPECIFICATION Spec
CHECK_DEADLOCK FALSE
INVARIANTS
    TypeOK
    SkipsAreExplained
    CommittedInOrder
