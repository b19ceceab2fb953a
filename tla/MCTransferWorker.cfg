SPECIFICATION LiveSpec
CONSTANTS
  c1 = c1
  c2 = c2
  NoCaller = NoCaller
  Callers = {c1, c2}
  Job <- MCJob
  BatchCopies = 2
  BatchBytes = 3
  MaxJobs = 2
  MaxBundle = 2
  MaxCalls = 3
INVARIANTS
  FifoOrder
  FlushThroughCovers
PROPERTIES
  ImplementsLog
  CallsReturn
