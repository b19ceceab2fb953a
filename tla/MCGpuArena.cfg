SPECIFICATION Spec
CONSTANTS
  Slots = 2
  Contents = {0, 1}
  MaxGeneration = 2
  Limit = 4
  MaxNative = 2
  MaxValue = 2
  MaxChanges = 2
INVARIANTS
  CleanSlotsUploaded
  FramesSeeBound
  HandlesFresh
CHECK_DEADLOCK FALSE
