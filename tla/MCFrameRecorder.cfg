SPECIFICATION Spec
CONSTANTS
  Programs <- AllPrograms
  CacheEntries = 1
  MaxNodes = 3
  MaxTotal = 3
  MaxEdges = 2
  MaxFrames = 2
CHECK_DEADLOCK FALSE
INVARIANTS
  ConflictsOrdered
  
  PassesSound
  CacheTransparent
