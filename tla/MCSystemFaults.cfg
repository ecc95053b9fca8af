\* The same two clients; a link and one call of the server may fail.
CONSTANTS
  Conn = {d1, s1}
  Fragile = {d1}
  MaxFaults = 1
  Uuid <- MCUuid
  CStr <- MCCStr
  NaN = NaN
  Packet <- MCPacket
  Mode <- MCMode
  UuidOf <- MCUuidOf
  Interval1 = 1
  Interval2 = 3
  Time = {4}
  Buffer = 0
  MaxSent = 1
  MaxRuns = 1
  d1 = d1
  s1 = s1
SPECIFICATION UnkilledSpec
INVARIANTS
  RightAnswer
  ExitedIsStored
  SystemInv
