SPECIFICATION Spec
CONSTANTS
  Slots = {s1}
  Http = {}
  Bridged = {}
  Closers = {}
  MaxRuns = 6
INVARIANTS
  TypeOK
  BackoffTracksFailures
