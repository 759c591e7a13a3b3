SPECIFICATION AdapterSpec
CONSTANTS
    Commands = {c1, c2}
    Agents = {a1, a2}
    Events = {e1, e2}
    LongPolls = TRUE
    OwnerLeaseTtl = 0
    MaxLeases = 2
    MaxRestarts = 1
    NoAgent = NoAgent
    NoCommand = NoCommand
    NoEvent = NoEvent
SYMMETRY CommandSymmetry
INVARIANTS
    WaitingIsBound
    DelayedIsGated
PROPERTIES
    AnswersComeFromTheOwner
    ImplementsHandover
CHECK_DEADLOCK FALSE
