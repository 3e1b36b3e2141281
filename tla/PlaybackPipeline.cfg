\* Channels of two chunks, frames of two pieces, callbacks of one and three.
CONSTANTS
  JbCapacity = 2
  PlaybackCapacity = 2
  SamplesPerFrame = 2
  CallbackSizes = {1, 3}
  MaxFrames = 6
SPECIFICATION FairSpec
INVARIANTS TypeOK SoundIsContinuous
PROPERTIES EverySampleHeard ReceptionNeverBlocked
CHECK_DEADLOCK FALSE
