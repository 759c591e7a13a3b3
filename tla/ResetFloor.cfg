CONSTANTS
  Hosts = {h1, h2, h3}
  None = None
  MaxRev = 2
  MaxOps = 1
  MaxCrashes = 0
SPECIFICATION Spec
INVARIANT ReplacementHostStarts
