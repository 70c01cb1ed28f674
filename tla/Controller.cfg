\* Four messages received out of eight, in any order and with copies, one restart, two clock
\* ticks: the replay age (1), the dedupe capacity (2) and the flood window (2, limit 1) are
\* all crossed.
CONSTANTS
    tenant = tenant
    infra = infra
    rogue = rogue
    m1 = m1
    m2 = m2
    i1 = i1
    i2 = i2
    i3 = i3
    i4 = i4
    i5 = i5
    i6 = i6
    NoMid = NoMid
    Nodes = {tenant, infra, rogue}
    Allowed = {tenant, infra}
    Exempt = {infra}
    MsgIds = {i1, i2, i3, i4, i5, i6}
    MachineIds = {m1, m2}
    Messages <- MCMessages
    MaxAge = 1
    ReplayWindow = 2
    FloodMax = 1
    FloodWindow = 2
    MaxTime = 2
    MaxRx = 4
    MaxBoot = 1
SPECIFICATION Spec
CHECK_DEADLOCK FALSE
INVARIANTS
    TypeOK
    OffsetsNeverReused
    TenantSeqIncreases
    CopyOnlyAfterFullWindow
    OneFloodAlertPerWindow
    FloodIsReported
    RogueReportedOnce
    MachineChangeIsReported
