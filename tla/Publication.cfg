SPECIFICATION Spec
CONSTANTS
    NumSessions = 2
    Contents = {0, 1, 2}
    Unfit = {2}
    MaxRevs = 9
    Scenarios <- MCScenarios
    RelayAhead = {2}
INVARIANTS
    EvidenceIsKept
    ManifestsAreSound
    EventsAreStoredOnce
PROPERTIES
    Converges
CHECK_DEADLOCK FALSE
