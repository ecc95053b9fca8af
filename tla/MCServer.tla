------------------------------ MODULE MCServer ------------------------------
(* Instances of Server for TLC. *)
EXTENDS ServerInvariant, TLC

\* "v0" stands for a uuid with an embedded NUL: SQLite keeps its prefix "v".
MCUuid == {"u", "v", "v0"}
MCCStr == [x \in MCUuid |-> IF x = "v0" THEN "v" ELSE x]

Reading(u, t, x, y) ==
  [type |-> "DATA", has_data |-> TRUE, uuid |-> u, timestamp |-> t, x |-> x, y |-> y]
NoData(type) ==
  [type |-> type, has_data |-> FALSE, uuid |-> "u", timestamp |-> 0, x |-> 0, y |-> 0]

IngestPackets == {Reading("u", 0, 1, -1), Reading("v0", 0, 1, NaN)}
RestartPackets ==
  {Reading("u", 0, 1, -1), Reading("v", 0, 1, -1), Reading("v0", 0, 1, -1),
   NoData("DATA")}
LivePackets == {Reading("u", 0, 1, -1), NoData("STATISTICS"), NoData("DATA")}
StatisticsPackets == {Reading("u", 4, 1, -2), Reading("v", 2, 2, -1), NoData("STATISTICS")}
StopPackets == {Reading("u", 0, 1, -1), NoData("UNKNOWN"), NoData("STATISTICS")}

\* The behaviours in which nobody stops the server, no link breaks and no call
\* fails but a sqlite3_step that selectMany takes for the end of the rows.
SteadyNext ==
  \/ Boot \/ MainStep
  \/ \E c \in Conn :
       \/ ThreadStep(c) \/ PeerConnect(c) \/ PeerUpgrade(c) \/ PeerLeave(c, "closed")
       \/ \E p \in Packet : PeerSend(c, p)
SteadySpec == Init /\ [][SteadyNext]_vars

ConnSymmetry == Permutations(Conn)
=============================================================================
