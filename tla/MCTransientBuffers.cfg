SPECIFICATION Spec
CONSTANTS
  Slots = 2
  Sizes = {1, 2}
  PoolBudget = 2
  Aggregate = 3
  Failures = {"alloc", "stage", "draw", "submit", "idle"}
  MaxBuffers = 3
  MaxCopies = 2
  MaxSerial = 2
CHECK_DEADLOCK FALSE
INVARIANTS
  FramesSeeUploads
  DisposedSafely
