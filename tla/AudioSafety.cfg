SPECIFICATION Spec
CONSTANTS
  RingFrames = 4
  BlockFrames = 2
  MaxFrames = 2
  FrameIds = 2
  Volumes = {16384}
  FramesPerMs = 2
  Latencies = {1, 1000, 1001}
  CounterMod = 1
  RefillOnTime = FALSE
INVARIANTS TypeOK RingConsistent PlaybackCoherent
PROPERTIES ImplementsStream StreamedHalfUntouched HeldQueueKept
CHECK_DEADLOCK FALSE
