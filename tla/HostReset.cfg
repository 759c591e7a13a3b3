CONSTANTS
  Hosts = {h1, h2, h3}
  None = None
  MaxRev = 2
  MaxOps = 2
  MaxCrashes = 2
SPECIFICATION Spec
INVARIANTS
    OldHostIsRetired
    RunningDomainIsOneHost
PROPERTIES
    ResetIsNeverWedged
    RuntimeIsCarriedOver
