SPECIFICATION Spec
CONSTANTS
  None = None
  Leaves = {l1, l2}
  Outcomes = {"absent", "aborted", "answer"}
  MaxRuns = 2
  MaxEvents = 3
INVARIANTS
    ReportsAreBacked
    ClosedIsReleased
PROPERTIES
    DeliveriesAreInOrder
    AlertsAreDelivered
CHECK_DEADLOCK FALSE
