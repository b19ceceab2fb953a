SPECIFICATION FairSpec
CONSTANTS
  Capacity = 2
  MaxGeneration = 5
  Operations <- Polite
  Needs = {0, 1}
  Chains = {2}
  NativeErrors = {}
  MayDie = FALSE
  MaxLoads = 2
  Threads = 1
  Budget = 1
  MaxCalls = 4
  MaxEvents = 3
 
PROPERTIES
  LoadsEnd
  CallsReturn
