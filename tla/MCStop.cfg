\* stop() is called at any moment of two connections' lives.
CONSTANTS
  Conn = {c1, c2}
  Uuid <- MCUuid
  CStr <- MCCStr
  NaN = NaN
  Packet <- StopPackets
  Interval1 = 1
  Interval2 = 3
  Time = {0}
  Buffer = 0
  MaxSent = 2
  MaxFaults = 0
  MaxRuns = 1
SPECIFICATION Spec
SYMMETRY ConnSymmetry
INVARIANTS
  LastCall
  OnlyPeersPreventStop
PROPERTY
  NoThreadOutlivesStart
