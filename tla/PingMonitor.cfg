\* The periods of the code in seconds; one stray arrives, one datagram is doubled.
CONSTANTS
  PingPeriod = 2
  RecvTimeout = 3
  MissLimit = 3
  MaxDelay = 2
  MaxStrays = 1
  MaxDups = 1
  MaxTime = 11
SPECIFICATION Spec
INVARIANTS TypeOK SilenceReported AverageWithinSamples StopsInTime
PROPERTY NoFalseAlarm
CHECK_DEADLOCK FALSE
