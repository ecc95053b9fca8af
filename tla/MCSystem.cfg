\* A client that sends readings and one that asks for the statistics.
CONSTANTS
  Conn = {d1, s1}
  Fragile = {}
  MaxFaults = 0
  Uuid <- MCUuid
  CStr <- MCCStr
  NaN = NaN
  Packet <- MCPacket
  Mode <- MCMode
  UuidOf <- MCUuidOf
  Interval1 = 1
  Interval2 = 3
  Time = {4}
  Buffer = 0
  MaxSent = 2
  MaxRuns = 1
  d1 = d1
  s1 = s1
SPECIFICATION ViewSpec
INVARIANTS
  StatisticsSeeExited
  FailureHasCause
  ViewInv
PROPERTY
  ImplementsService
