SPECIFICATION Spec
CONSTANTS
  Slots = 2
  Items = {a, b}
  MaxValue = 5
SYMMETRY ItemSymmetry
INVARIANTS
  DestroyedUnused
  CompletedIsPrefix
  
