-------------------------------- MODULE MCTZ --------------------------------
(* Instances of TZ for TLC: d1 sends readings, s1 asks for statistics. *)
EXTENDS SystemInvariant, TLC

CONSTANTS d1, s1

MCUuid == {"u", "v"}
MCCStr == [x \in MCUuid |-> x]
MCMode == [c \in Conn |-> IF c = s1 THEN "statistics" ELSE "data"]
MCUuidOf == [c \in Conn |-> IF c = d1 THEN "u" ELSE "v"]

Reading(u, t) ==
  [type |-> "DATA", has_data |-> TRUE, uuid |-> u, timestamp |-> t, x |-> 1, y |-> -1]
Request ==
  [type |-> "STATISTICS", has_data |-> FALSE, uuid |-> "v", timestamp |-> 0, x |-> 0, y |-> 0]
MCPacket == {Reading("u", 2), Request}

\* The behaviours in which no client is killed.
UnkilledNext ==
  \/ MainServes \/ MainMishap \/ AllOver
  \/ \E c \in Conn :
       \/ ThreadServes(c) \/ ThreadMishap(c)
       \/ ClientStep(c) \/ ResetArrives(c) \/ LinkBreaks(c)
UnkilledSpec == SystemInit /\ [][UnkilledNext]_systemVars
FairUnkilledSpec == UnkilledSpec /\ SystemFairness
=============================================================================
