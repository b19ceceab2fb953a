SPECIFICATION Spec
CONSTANTS
  Capacity = 2
  MaxGeneration = 5
  Operations <- Everything
  Needs = {0, 1, 2}
  Chains = {0, 3}
  NativeErrors = {"OutOfMemory", "NativeFailure"}
  MayDie = TRUE
  MaxLoads = 1
  Threads = 1
  Budget = 2
  MaxCalls = 5
  MaxEvents = 3
INVARIANTS
  FrameSamplesRequired
  LedgersExact
  EventProtocol
PROPERTIES
  FramesUndisturbed
