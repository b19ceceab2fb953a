SPECIFICATION FairSpec
CONSTANTS
  Backends = {"vulkan", "vulkanOneFamily", "vulkanOneQueue", "dx12", "metal"}
  Idlers = {"vulkan", "vulkanOneFamily", "vulkanOneQueue", "dx12"}
  Updaters = {"vulkan", "vulkanOneQueue", "dx12", "metal"}
  ImageCount = 2
  Levels = 2
  Slots = 2
  Blocks = 2
  MaxJobs = 3
  MaxFrames = 1
  FineUploads = FALSE
  MayFail = TRUE
INVARIANTS HandoffsMatch SamplesExact MemoryIdle
CHECK_DEADLOCK FALSE
PROPERTY WorkEnds
