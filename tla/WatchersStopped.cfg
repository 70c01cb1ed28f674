\* A tampered config file, and what the engine does with the observer that reports it.
CONSTANTS
    Files = {"allow", "images", "runtime"}
    Checked = {"allow"}
    Tenants <- MCTenants
    Original <- MCOriginal
    Images = {"v1", "v2"}
    SealForms = {"path"}
    Grace = 1
    Interval = 2
    Timeout = 2
    MaxChanges = 1
    MaxWire = 1
SPECIFICATION Spec
CHECK_DEADLOCK FALSE
INVARIANT InfraIsNotQuarantined
