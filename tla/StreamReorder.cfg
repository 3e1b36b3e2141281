\* A stream that wraps around the sequence space, reordering that the target
\* delay covers, nothing lost; or three processes, one after another, that are
\* restarted before they have used all the numbers.
CONSTANTS
  SeqMod = 8
  HalfRange = 4
  GapWindow = 3
  JitterBufferMs = 15
  MinFrameMs = 5
  CounterMod = 32
  Codec = "Pcm"
  FrameMs = 5
  StreamLength = 18
  Incarnations = 3
  RestartWithin = 6
  MaxInFlight = 3
  MaxReorder = 2
  Reordered = 1
  MaxLoss = 0
  MaxDup = 0
  None = None
SPECIFICATION FairSpec
INVARIANTS TypeOK ReorderAbsorbed PlayedInOrder
PROPERTY EveryFrameHeard
CHECK_DEADLOCK FALSE
