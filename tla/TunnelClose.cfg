SPECIFICATION Spec
CONSTANTS
  Slots = {s1}
  Http = {}
  Bridged = {b1}
  Closers = {k1, k2}
  MaxRuns = 1
SYMMETRY Interchangeable
INVARIANTS
  DispatchOwned
  TerminalStatus
