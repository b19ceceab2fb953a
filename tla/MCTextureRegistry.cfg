SPECIFICATION Spec
CONSTANTS
  Capacity = 2
  MaxGeneration = 4
  MaxMips = 2
  MaxTokens = 3
INVARIANTS
  FreshIds
  WithheldHeld
  ResidentMipsComplete
