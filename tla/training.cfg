CONSTANTS
  WindowSize = 2  MaxBytes = 4  Bytes <- Alternating
  TotalSteps = 3  Accumulation = 2  ValidationEvery = 2  CheckpointEvery = 2
  KeepLast = 1
  MaxFaults = 3  MaxRestarts = 2
SPECIFICATION FairSpec
INVARIANTS TypeOK BytesAreExact PipelineIsInOrder UpdatesAreWhole LearntOnce
PROPERTIES StreamSpec LatestStaysOnDisk ProcessEnds
CHECK_DEADLOCK FALSE
