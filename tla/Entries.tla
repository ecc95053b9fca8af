------------------------------ MODULE Entries -------------------------------
(***************************************************************************)
(* collectStatistics's arithmetic against definitions that do not loop, on *)
(* every sequence of rows, which grows one row at a time.                  *)
(***************************************************************************)
EXTENDS Statistics, FiniteSetsExt

CONSTANTS
  Stamp,     \* the timestamps of the rows
  Value,     \* what x and y of a row may be
  Clock,     \* the readings of the server's clock
  MaxRows    \* bound: rows selected for one client

ASSUME EntriesAssumption == Stamp \subseteq Int /\ Value \subseteq Int /\ Clock \subseteq Int

VARIABLES rows, now

vars == <<rows, now>>

Row == [timestamp : Stamp, x : Value, y : Value]

Init == rows = <<>> /\ now \in Clock

Next ==
  /\ Len(rows) < MaxRows
  /\ \E r \in Row : rows' = Append(rows, r)
  /\ UNCHANGED now

Spec == Init /\ [][Next]_vars

\* The sum of v[i] for i in S.
Total(v, S) == MapThenSumSet(LAMBDA i : v[i], S)

InWindow(interval) == {i \in DOMAIN rows : rows[i].timestamp >= now - interval}
SumX(S) == Total([i \in DOMAIN rows |-> rows[i].x], S)
SumAbsY(S) == Total([i \in DOMAIN rows |-> Max({rows[i].y, -rows[i].y})], S)
-----------------------------------------------------------------------------
\* x1 and x5 are the means of x, y1 and y5 the sums of |y|, each over exactly
\* the rows of its own window; a window without rows counts as 0.
EntryIsExact ==
  LET e == Entry("u", rows, now)
      Mean(S) == IF S = {} THEN <<0, 1>> ELSE <<SumX(S), Cardinality(S)>>
  IN  /\ e.x1 = Mean(InWindow(Interval1)) /\ e.y1 = SumAbsY(InWindow(Interval1))
      /\ e.x5 = Mean(InWindow(Interval2)) /\ e.y5 = SumAbsY(InWindow(Interval2))

\* A client is in the reply exactly when the longer window has a row of it; no
\* average divides by zero, and the shorter window never has what it lacks.
ReportedIffRecent ==
  /\ Reported(rows, now) <=> InWindow(Interval2) # {}
  /\ LET e == Entry("u", rows, now)
     IN  e.x1[2] > 0 /\ e.x5[2] >= e.x1[2] /\ e.y5 >= e.y1

\* What the comment above collectStatistics writes as one SELECT, for the one
\* minute window: AVG and SUM over all rows of the group, kept when the
\* timestamp of whichever row of the group SQLite looks at is in the window
\* (whose bound is taken as the loop has it, >=, where the comment has >).
CommentQuery(pick) ==
  IF rows # <<>> /\ rows[pick].timestamp >= now - Interval1
  THEN {<<SumX(DOMAIN rows), Len(rows), SumAbsY(DOMAIN rows)>>}
  ELSE {}

\* The comment's claim: the loop computes x1 and y1 as that query would.
MatchesCommentQuery ==
  LET w == Window(rows, now - Interval1)
  IN  rows # <<>> => \E pick \in DOMAIN rows : CommentQuery(pick) =
        IF w.countX > 0 THEN {<<w.sumX, w.countX, w.y>>} ELSE {}
=============================================================================
