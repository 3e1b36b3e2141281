\* A network that loses datagrams, no stray.
CONSTANTS
  PingPeriod = 2
  RecvTimeout = 3
  MissLimit = 3
  MaxDelay = 1
  MaxStrays = 0
  MaxDups = 0
  MaxTime = 10
SPECIFICATION Spec
INVARIANT MissedPingsReported
CHECK_DEADLOCK FALSE
