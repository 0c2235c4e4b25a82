SPECIFICATION Spec
CONSTANTS
  Procs = {p1}
  Keys = {k1, k2}
  MaxTrouble = 1
INVARIANTS
  PrivateWritesAtomic
