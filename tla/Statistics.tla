----------------------------- MODULE Statistics -----------------------------
(***************************************************************************)
(* The arithmetic of Server::collectStatistics for one client: the rows    *)
(* selected for it are folded into two windows, and an average is a sum    *)
(* with its count (the code's double division, kept exact).                *)
(***************************************************************************)
EXTENDS Integers, Sequences

CONSTANTS Interval1, Interval2   \* STATS_INTERVAL_MINUTES_1 and _2, in clock ticks

ASSUME IntervalAssumption ==
  Interval1 \in Nat /\ Interval2 \in Nat /\ Interval1 <= Interval2

Abs(v) == IF v < 0 THEN -v ELSE v

\* sumX, countX and y before the loop; countX > 0 is also needToAdd.
EmptyWindow == [sumX |-> 0, countX |-> 0, y |-> 0]

\* Faulty: y is summed without its absolute value.
AccumulateSigned(w, r) ==
  [sumX |-> w.sumX + r.x, countX |-> w.countX + 1, y |-> w.y + r.y]

Accumulate(w, r) ==
  [sumX |-> w.sumX + r.x, countX |-> w.countX + 1, y |-> w.y + Abs(r.y)]

\* The loop over the selected rows, for the window that starts at `from`.
Turns(rows, from) ==
  LET w[n \in 0..Len(rows)] ==
        IF n = 0 THEN EmptyWindow
        ELSE IF rows[n].timestamp >= from THEN Accumulate(w[n - 1], rows[n])
        ELSE w[n - 1]
  IN  w

Window(rows, from) == Turns(rows, from)[Len(rows)]

Average(w) == IF w.countX > 0 THEN <<w.sumX, w.countX>> ELSE <<0, 1>>

\* Faulty: && for ||.
ReportedBoth(rows, now) ==
  /\ Window(rows, now - Interval1).countX > 0
  /\ Window(rows, now - Interval2).countX > 0

\* needToAdd1 || needToAdd5
Reported(rows, now) ==
  \/ Window(rows, now - Interval1).countX > 0
  \/ Window(rows, now - Interval2).countX > 0

Entry(uuid, rows, now) ==
  LET w1 == Window(rows, now - Interval1)
      w5 == Window(rows, now - Interval2)
  IN  [uuid |-> uuid, x1 |-> Average(w1), y1 |-> w1.y, x5 |-> Average(w5), y5 |-> w5.y]
=============================================================================
