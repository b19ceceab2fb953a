SPECIFICATION Spec
CONSTANTS
    s1 = s1
    s2 = s2
    Surfaces = {s1, s2}
    NoSurface = NoSurface
    Slots = 2
    Images = 2
    Sizes = {1, 2}
    MaxFrames = 3
    MaxMoves = 1
    MaxFaults = 2
SYMMETRY MCSurfaces
INVARIANTS
    SemaphoresReady
    ObjectsOutlive
    CallsReturn
CHECK_DEADLOCK FALSE
