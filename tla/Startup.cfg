\* A receiver started twice, a standalone dashboard beside it, on one port or two;
\* a search whose last poll outlasts the deadline.
CONSTANTS
  Absent = Absent
  Partial = Partial
  HttpPorts = {h1, h2}
  MaxPairs = 2
  MaxFaults = 1
  IPv4 = {"v4"}
  IPv6 = {}
  Poll = 2
  Deadline = 3
  None = None
  MaxEvents = 1
  Ports = {40000}
  ControlPort = 40001
  MaxStarts = 2
  MaxAlone = 1
SPECIFICATION Spec
INVARIANTS TypeOK AdvertisedListens RejectedOnlyIfDamaged CertificateIsStable ReturnsInTime
SYMMETRY PortSymmetry
CHECK_DEADLOCK FALSE
