\* One datagram lost where the sequence number wraps around.
CONSTANTS
  SeqMod = 8
  HalfRange = 4
  GapWindow = 3
  JitterBufferMs = 15
  MinFrameMs = 5
  CounterMod = 32
  Codec = "Pcm"
  FrameMs = 5
  StreamLength = 12
  Incarnations = 1
  RestartWithin = 6
  MaxInFlight = 3
  MaxReorder = 0
  Reordered = 1
  MaxLoss = 1
  MaxDup = 0
  None = None
SPECIFICATION Spec
PROPERTY ReleasesEarliest
CHECK_DEADLOCK FALSE
