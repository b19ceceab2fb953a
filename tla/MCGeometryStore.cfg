SPECIFICATION Spec
CONSTANTS
  v = v
  i = i
  Names <- MCNames
  Index = i
  Stride <- MCStride
  Slots = 2
  Capacity = 3
  Counts <- MCCounts
  MaxHandle = 2
  MaxNative = 3
  MaxCopies = 3
  MaxValue = 2
  MaxSerial = 2
INVARIANTS
  HeapsExact
  RangeKeptWhileRead
  NativesOutlive
  RetiredWillReturn
  EarlierUploadsAwaited
