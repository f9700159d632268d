SPECIFICATION Spec
CHECK_DEADLOCK FALSE
CONSTANTS
  k1 = k1
  NoJob = NoJob
  NoSession = NoSession
  Controllers = {k1}
  Intervals = {1, 2}
  BaseInterval = 1
  BaseMemory = TRUE
  Configs <- MixedConfigs
  SnapshotInterval = 1
  MaxJobs = 2
INVARIANTS
  MemoryReported
