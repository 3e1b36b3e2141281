\* The sender is restarted and its numbering with it.
CONSTANTS
  SeqMod = 16
  HalfRange = 8
  GapWindow = 2
  JitterBufferMs = 15
  MinFrameMs = 5
  CounterMod = 32
  Codec = "Pcm"
  FrameMs = 5
  StreamLength = 6
  Incarnations = 2
  RestartWithin = 6
  MaxInFlight = 3
  MaxReorder = 0
  Reordered = 1
  MaxLoss = 0
  MaxDup = 0
  None = None
SPECIFICATION Spec
INVARIANT RestartResynchronizes
CHECK_DEADLOCK FALSE
