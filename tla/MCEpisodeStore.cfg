SPECIFICATION StoreSpec
CONSTANTS
  actions = actions
  camera = camera
  Key = {actions, camera}
  Image = {camera}
  Value = {1, 2}
  Frames <- SomeFrames
  ChunkTimesteps = 2
  MaxFrames = 3
  MaxBatch = 2
  MaxOpens = 2
  MaxFaults = 1
  Horizon <- Horizons
  Spans <- SomeSpans
  MaxJobs = 1
INVARIANTS ArraysAligned BlankExplained AnnotationsExplained WindowsStayInside CutoffMatchesText
PROPERTIES Promise PlainJobsSkip SamplingEnds
CHECK_DEADLOCK FALSE
