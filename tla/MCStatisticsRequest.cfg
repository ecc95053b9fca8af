\* Statistics are collected while another connection stores readings.
CONSTANTS
  Conn = {c1, c2}
  Uuid <- MCUuid
  CStr <- MCCStr
  NaN = NaN
  Packet <- StatisticsPackets
  Interval1 = 1
  Interval2 = 3
  Time = {4}
  Buffer = 0
  MaxSent = 2
  MaxFaults = 1
  MaxRuns = 1
SPECIFICATION SteadySpec
SYMMETRY ConnSymmetry
INVARIANTS
  OneEntryPerClient
  StatisticsCoverRequest
  Requests
PROPERTY
  ImplementsSurvey
