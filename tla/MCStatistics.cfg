\* Every sequence of up to three rows, on both sides of both windows' bounds.
CONSTANTS
  Interval1 = 1
  Interval2 = 3
  Stamp <- MCStamp
  Value <- MCValue
  Clock <- MCClock
  MaxRows = 3
SPECIFICATION Spec
CHECK_DEADLOCK FALSE
INVARIANTS
  EntryIsExact
  ReportedIffRecent
