\* Two connections race to register clients and store readings; one call may fail.
CONSTANTS
  Conn = {c1, c2}
  Uuid <- MCUuid
  CStr <- MCCStr
  NaN = NaN
  Packet <- IngestPackets
  Interval1 = 1
  Interval2 = 3
  Time = {0}
  Buffer = 0
  MaxSent = 2
  MaxFaults = 1
  MaxRuns = 1
SPECIFICATION Spec
SYMMETRY ConnSymmetry
INVARIANTS
  TypeOK
  UniqueClients
  NoSilentDrop
  StoredOnceInOrder
PROPERTY
  ImplementsTelemetry
