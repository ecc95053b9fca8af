---------------------------- MODULE MCStatistics ----------------------------
(* An instance of Entries for TLC. *)
EXTENDS Entries

\* Timestamps on both sides of both windows' bounds, also in the future.
MCStamp == 0..5
MCValue == {-2, 0, 1}
MCClock == {3, 4}
=============================================================================
