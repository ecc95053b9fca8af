\* Progress of the server with its own clients, which nobody kills.
CONSTANTS
  Conn = {d1, s1}
  Fragile = {}
  MaxFaults = 0
  Uuid <- MCUuid
  CStr <- MCCStr
  NaN = NaN
  Packet <- MCPacket
  Mode <- MCMode
  UuidOf <- MCUuidOf
  Interval1 = 1
  Interval2 = 3
  Time = {4}
  Buffer = 0
  MaxSent = 1
  MaxRuns = 1
  d1 = d1
  s1 = s1
SPECIFICATION FairUnkilledSpec
PROPERTIES
  ClientsLetServerStop
  AnswersCome
  ClientEnds
