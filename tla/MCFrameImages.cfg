SPECIFICATION Spec
CONSTANTS
  Textures = {x, y}
  Single = {s, d}
  Multi = {m}
  None = None
  Worlds <- SmallWorlds
  MaxNodes = 2
  MaxTotal = 3
  MaxFrames = 2
SYMMETRY Renaming
CHECK_DEADLOCK FALSE
INVARIANTS
  BarriersTrue
  ContentsKept
