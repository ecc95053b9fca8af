\* Progress, with fair threads and no peer silent for ever.
CONSTANTS
  Conn = {c1, c2}
  Uuid <- MCUuid
  CStr <- MCCStr
  NaN = NaN
  Packet <- LivePackets
  Interval1 = 1
  Interval2 = 3
  Time = {0}
  Buffer = 0
  MaxSent = 1
  MaxFaults = 0
  MaxRuns = 1
SPECIFICATION FairSpec
PROPERTIES
  StopTerminates
  PacketsHandled
  ConnectionServed
  StopDescends
