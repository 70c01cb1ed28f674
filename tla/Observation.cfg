\* Two edits, restarts, deployments or failures; the manifest is sealed under the services' path
\* or the project's.
CONSTANTS
    Files = {"allow", "images", "runtime"}
    Checked = {"allow"}
    Tenants <- MCTenants
    Original <- MCOriginal
    Images = {"v1", "v2"}
    SealForms = {"path", "relative"}
    Grace = 1
    Interval = 2
    Timeout = 2
    MaxChanges = 2
    MaxWire = 1
SPECIFICATION FairSpec
CHECK_DEADLOCK FALSE
INVARIANTS
    TypeOK
PROPERTIES
    PreflightDecides
    TamperIsReported
    DriftIsContained
    MismatchIsReported
    WatchedIsNotSilenced
