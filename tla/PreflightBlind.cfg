\* The manifest sealed as build_and_start.sh does it.
CONSTANTS
    Files = {"allow", "images", "runtime"}
    Checked = {"allow"}
    Tenants <- MCTenants
    Original <- MCOriginal
    Images = {"v1", "v2"}
    SealForms = {"relative"}
    Grace = 1
    Interval = 2
    Timeout = 2
    MaxChanges = 2
    MaxWire = 1
SPECIFICATION Spec
CHECK_DEADLOCK FALSE
PROPERTY PreflightVerifies
