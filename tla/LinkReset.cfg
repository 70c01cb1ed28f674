\* Two plain messages, a reset that overlaps the first and a second reset.
CONSTANTS
    RejectKinds = {}
    RemarkSets = {{}}
    MaxRx = 2
    MaxCtlCrash = 0
    MaxEngCrash = 0
    MaxReset = 2
SPECIFICATION Spec
CHECK_DEADLOCK FALSE
INVARIANT SkipsOnlyCommitted
