CONSTANTS
  SeqMod = 8
  HalfRange = 4
  GapWindow = 3
  JitterBufferMs = 15
  MinFrameMs = 5
  CounterMod = 2
  Packets <- MCPackets
  None = None
SPECIFICATION Spec
INVARIANTS TypeOK DepthBound
PROPERTY SteadySupply
