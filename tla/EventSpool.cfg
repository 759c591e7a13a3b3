SPECIFICATION Spec
CONSTANTS
    NumSources = 2
    NeedHuman = {1}
    MaxIds = 2
    MaxEvents = 2
    MaxMishaps = 2
    MaxFaults = 1
INVARIANTS
    SpoolIsExact
    RefusalsAreKnown
PROPERTIES
    RecoveryIsComplete
CHECK_DEADLOCK FALSE
