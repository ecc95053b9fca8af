\* The process dies anywhere and is started again on the same database.
CONSTANTS
  Conn = {c1, c2}
  Uuid <- MCUuid
  CStr <- MCCStr
  NaN = NaN
  Packet <- RestartPackets
  Interval1 = 1
  Interval2 = 3
  Time = {0}
  Buffer = 0
  MaxSent = 1
  MaxFaults = 1
  MaxRuns = 2
SPECIFICATION Spec
SYMMETRY ConnSymmetry
INVARIANTS
  Attribution
  SchemaReady
  Inv

  
