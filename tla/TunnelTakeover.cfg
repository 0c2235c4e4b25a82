SPECIFICATION Spec
CONSTANTS
  Slots = {s1}
  Http = {}
  Bridged = {}
  Closers = {}
  MaxRuns = 2
INVARIANTS
  TakeoverNeverRedials
