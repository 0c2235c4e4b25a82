SPECIFICATION ConnectSpec
CONSTANTS
  Procs = {p1, p2}
  Keys = {k1, k2, k3}
  MaxTrouble = 2
  MaxConns = 3
INVARIANTS
  ConnectTypeOK
  AloneServesPair
  ActiveServes
  NothingLeftOpen
  CallbackKnows
PROPERTIES
  TakeoverEndsDialing
  BootstrapServes
  AcloseReturns
