\* The SELECT in the comment above collectStatistics against its loop.
CONSTANTS
  Interval1 = 1
  Interval2 = 3
  Stamp <- MCStamp
  Value <- MCValue
  Clock <- MCClock
  MaxRows = 2
SPECIFICATION Spec
CHECK_DEADLOCK FALSE
INVARIANT
  MatchesCommentQuery
