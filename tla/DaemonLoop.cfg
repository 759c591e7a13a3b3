SPECIFICATION FairSpec
CONSTANTS
    Sessions = {s1}
    None = None
    MaxChanges = 1
    MaxCursor = 2
    MaxMishaps = 2
INVARIANTS
    WorkIsKept
    HealthTellsTheTruth
PROPERTIES
    WritesAreOwned
    CatchesUp
