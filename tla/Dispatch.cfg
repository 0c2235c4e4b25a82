SPECIFICATION DispatchSpec
CONSTANTS
  MaxIn = 2
  MaxOut = 2
  MaxControl = 1
  Room = 1
  EarlyLimit = 1
  InCap = 2
  OutCap = 3
  MaxHops = 2
INVARIANTS
  DispatchTypeOK
  StreamsInOrder
  NothingHeldBack
  CleanIsComplete
  ForwardedWhole
PROPERTIES
  NoResetAfterClose
  DispatchEnds
