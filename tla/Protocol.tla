------------------------------ MODULE Protocol ------------------------------
(***************************************************************************)
(* The messages of protobuf/tz.proto as the server sees them after         *)
(* ParseFromString.  The server ignores the result of the parse, so a      *)
(* message that was cut short is one more packet: the fields read so far,  *)
(* proto3 defaults for the rest.                                           *)
(***************************************************************************)
EXTENDS Integers

CONSTANTS
  Uuid,     \* the texts a packet may carry as uuid
  NaN,      \* a double that is not a number
  Packet    \* the packets the peers send

\* proto3 enums are open: a type may hold a number tz.proto does not name.
PacketType == {"DATA", "STATISTICS", "UNKNOWN"}

\* A double is an integer here, or NaN: no property tells other doubles apart.
Double == Int \cup {NaN}

ClientPacket ==
  [type : PacketType, has_data : BOOLEAN,
   uuid : Uuid, timestamp : Int, x : Double, y : Double]

ASSUME NaNAssumption == NaN \notin Int
ASSUME PacketAssumption == Packet \subseteq ClientPacket

\* A packet that saveClientPacket must store.
IsReading(p) == p.type = "DATA" /\ p.has_data
=============================================================================
