SPECIFICATION FairSpec
CONSTANTS
  Slots = {s1}
  Http = {}
  Bridged = {}
  Closers = {k1}
  MaxRuns = 1
PROPERTIES
  CloseTerminates
  SilentPathNoticed
