\* Three time units; two operations or lines, and a failed call or an exit.
CONSTANTS
    Tenants <- MCTenants
    Addresses <- MCAddresses
    Policies <- MCPolicies
    Lines <- MCLines
    Kinds = {"stop", "restart", "exec", "connect", "rename"}
    Window = 1
    LoopMax = 2
    LoopWindow = 1
    RateMax = 1
    RateWindow = 1
    MapAge = 1
    MaxTime = 2
    MaxInputs = 2
    MaxFaults = 1
SPECIFICATION FairSpec
CHECK_DEADLOCK FALSE
INVARIANTS
    TypeOK
    RateRespected
PROPERTIES
    JoinedIffRecent
    LoopIsCounted
    CriticalIsStopped
    AlertsAreSettled
