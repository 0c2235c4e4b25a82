SPECIFICATION Spec
CONSTANTS
  Slots = {s1}
  Http = {h1}
  Bridged = {}
  Closers = {k1}
  MaxRuns = 2
INVARIANTS
  NoDispatchSurvivesRun
  HelloTakeoverStops
  OneConnection
PROPERTIES
  ImplementsLifecycle
  ReplyFence
