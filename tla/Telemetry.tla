----------------------------- MODULE Telemetry ------------------------------
(***************************************************************************)
(* What the server promises about the readings it is sent: each connection *)
(* is a channel that stores its readings once, in the order they were      *)
(* sent, without a gap, until the connection ends; what was not stored by  *)
(* then is lost, what was stored stays.                                    *)
(***************************************************************************)
EXTENDS Protocol, Sequences

CONSTANT Conn

VARIABLES
  sent,     \* sent[c] = the packets sent on connection c
  stored,   \* the stored readings <<c, k>>, k-th packet of c, in order of storage
  ended     \* the connections that are over

vars == <<sent, stored, ended>>

Stored(c) == {k \in DOMAIN sent[c] : \E i \in DOMAIN stored : stored[i] = <<c, k>>}

Init == sent = [c \in Conn |-> <<>>] /\ stored = <<>> /\ ended = {}

Send(c, p) ==
  /\ c \notin ended
  /\ sent' = [sent EXCEPT ![c] = Append(@, p)]
  /\ UNCHANGED <<stored, ended>>

Store(c, k) ==
  /\ c \notin ended
  /\ IsReading(sent[c][k]) /\ k \notin Stored(c)
  /\ \A j \in 1..(k-1) : IsReading(sent[c][j]) => j \in Stored(c)
  /\ stored' = Append(stored, <<c, k>>)
  /\ UNCHANGED <<sent, ended>>

\* One connection ends, or several at once when the server goes down.
End(S) ==
  /\ S \cap ended = {}
  /\ ended' = ended \cup S
  /\ UNCHANGED <<sent, stored>>

Next ==
  \/ \E c \in Conn, p \in Packet : Send(c, p)
  \/ \E c \in Conn : \E k \in DOMAIN sent[c] : Store(c, k)
  \/ \E S \in SUBSET Conn : End(S)

Spec == Init /\ [][Next]_vars
=============================================================================
