CONSTANTS
  Watches = {w1}
  None = None
  MaxGeneration = 2
  MaxEpoch = 2
  MaxFaults = 1
SPECIFICATION Spec
INVARIANTS
    KeyringIsSound
PROPERTIES
    RevokedStaysRevoked
    RefusalIsExplained
CHECK_DEADLOCK FALSE
