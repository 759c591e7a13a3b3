SPECIFICATION OnboardingSpec
CONSTANTS
    Paths = {a, b}
    None = None
    Foreign = Foreign
    Cli = {p1, p2}
    Latest = 2
    MaxEvents = 6
SYMMETRY Interchangeable
INVARIANTS
    RecordDescribesDefinition
PROPERTIES
    ReportsAreTrue
CHECK_DEADLOCK FALSE
