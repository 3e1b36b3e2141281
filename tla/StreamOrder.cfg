\* One process, fewer frames than half the sequence space; the network loses,
\* duplicates and reorders beyond what the target delay covers.
CONSTANTS
  SeqMod = 16
  HalfRange = 8
  GapWindow = 2
  JitterBufferMs = 10
  MinFrameMs = 5
  CounterMod = 16
  Codec = "Pcm"
  FrameMs = 5
  StreamLength = 7
  Incarnations = 1
  RestartWithin = 6
  MaxInFlight = 3
  MaxReorder = 3
  Reordered = 1
  MaxLoss = 3
  MaxDup = 1
  None = None
SPECIFICATION FairSpec
INVARIANTS PlayedInOrder LossIsExact EveryFrameAccountedFor DepthHeld
PROPERTIES ImplementsOrderedPlayout EveryFrameHeard
CHECK_DEADLOCK FALSE
