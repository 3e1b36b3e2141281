\* Frames that fit (one exactly), one that the receiver truncates, one that UDP
\* cannot carry and whose length overflows the header field; numbers that wrap.
CONSTANTS
  Base = 8
  SeqBytes = 1
  LenBytes = 1
  WordBytes = 1
  FloatBytes = 1
  Format = "F32"
  Sound <- MCSound
  FullScale = 31
  Fine = 2
  NaN = NaN
  Codecs = {"Pcm", "Opus"}
  FrameSizes = {2, 4, 6, 8}
  ChunkSizes = {2, 6}
  Capacity = 2
  RecvBufLen = 8
  MaxDatagram = 11
  MaxSamples = 18
  MaxInFlight = 1
  MaxFailures = 1
SPECIFICATION FairSpec
INVARIANTS TypeOK SamplesConserved StereoAligned NeverMisread UnderstoodIfItFits
PROPERTIES CaptureNeverBlocked LoopCatchesUp
CHECK_DEADLOCK FALSE
