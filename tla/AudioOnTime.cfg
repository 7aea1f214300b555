SPECIFICATION FairSpec
CONSTANTS
  RingFrames = 4
  BlockFrames = 2
  MaxFrames = 2
  FrameIds = 1
  Volumes = {8192}
  FramesPerMs = 2
  Latencies = {1, 1000}
  CounterMod = 1
  RefillOnTime = TRUE
PROPERTIES EachBlockHeardOnce SubmitCompletes
CHECK_DEADLOCK FALSE
