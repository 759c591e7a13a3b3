\* Locks: three processes that may end anywhere, and one operation that fails; a process
\* leaves at most one mutex behind, so three generations lose nothing.
\* Files: two processes, two writes, two calls that fail or processes that end.
SPECIFICATION MCSpec
CONSTANTS
    Procs = {p1, p2, p3}
    Writers = {w1, w2}
    NoProc = NoProc
    MaxGeneration = 3
    MaxFaults = 1
    MaxWrites = 2
    MaxFailures = 2
INVARIANTS
    OneCoordinator
    OneOwnerUnlessOrphaned
    FilesSurvive
PROPERTIES
    OnlyStaleIsRemoved
    LockIsRecovered
    StaleLockIsRecovered
CHECK_DEADLOCK FALSE
