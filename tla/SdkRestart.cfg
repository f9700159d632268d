SPECIFICATION SdkSpec
CHECK_DEADLOCK FALSE
CONSTANTS
  k1 = k1  k2 = k2  k3 = k3
  NoJob = NoJob  NoSession = NoSession  NoController = NoController  Nowhere = Nowhere
  Controllers = {k1, k2, k3}
  Intervals = {1, 2}
  BaseInterval = 1
  BaseMemory = TRUE
  Configs <- OnOrOff
  SnapshotInterval = 1
  MaxJobs = 5
  StartOptions <- MCStartOptions
INVARIANTS
  SdkTypeOK
  StoppedIsOff
  SessionsCorrelate
  FreshStateHonest
PROPERTIES
  StopTurnsOff
