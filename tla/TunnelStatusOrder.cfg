SPECIFICATION Spec
CONSTANTS
  Slots = {s1}
  Http = {}
  Bridged = {}
  Closers = {k1}
  MaxRuns = 1
INVARIANTS
  HandleSettles
