\* No reset: three messages, one crash of each process.
CONSTANTS
    RejectKinds = {"REPLAY_ATTACK"}
    RemarkSets = {{}, {"FLOOD_ATTACK", "NODE_IMPERSONATION"}}
    MaxRx = 3
    MaxCtlCrash = 1
    MaxEngCrash = 1
    MaxReset = 0
SPECIFICATION FairSpec
CHECK_DEADLOCK FALSE
INVARIANT SkipsOnlyCommitted
PROPERTIES
    SentIsSettled
    RefinesLink
