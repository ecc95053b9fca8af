------------------------------- MODULE Survey -------------------------------
(***************************************************************************)
(* What the server promises about statistics: a reply is made of one scan  *)
(* per client, each of the packets stored up to some moment between the    *)
(* request and the reply.  Only a reply that a failing step cut short may  *)
(* miss packets that were stored before its request.  Packets are kept for *)
(* ever, also when all requests are abandoned because the server ends.     *)
(***************************************************************************)
EXTENDS Integers, Sequences

CONSTANT Conn

VARIABLES
  packets,   \* the stored packets
  asked,     \* asked[c] = how many were stored when the request was made, -1: none is open
  answer     \* the last answer

vars == <<packets, asked, answer>>

\* r may answer, now, a request that was made when `base` packets were stored.
Faithful(r, base) ==
  /\ r.base = base
  /\ \A s, t \in r.scans : s.id = t.id => s = t
  /\ \A s \in r.scans : s.upTo <= Len(packets)
  /\ ~r.cut =>
       /\ \A s \in r.scans : base <= s.upTo
       /\ \A i \in 1..base : \E s \in r.scans : s.id = packets[i].client_id

Init ==
  /\ packets = <<>>
  /\ asked = [c \in Conn |-> -1]
  /\ \A c \in Conn : Faithful(answer[c], 0)

Insert ==
  /\ Len(packets') = Len(packets) + 1
  /\ \A i \in DOMAIN packets : packets'[i] = packets[i]
  /\ UNCHANGED <<asked, answer>>

Ask(c) ==
  /\ asked[c] = -1
  /\ asked' = [asked EXCEPT ![c] = Len(packets)]
  /\ UNCHANGED <<packets, answer>>

Answer(c) ==
  /\ asked[c] >= 0 /\ Faithful(answer'[c], asked[c])
  /\ answer' = [answer EXCEPT ![c] = answer'[c]]
  /\ asked' = [asked EXCEPT ![c] = -1]
  /\ UNCHANGED packets

\* Connections end before their answer: one, or all of them when the server ends.
Abandon(S) ==
  /\ asked' = [c \in Conn |-> IF c \in S THEN -1 ELSE asked[c]]
  /\ UNCHANGED <<packets, answer>>

Next ==
  \/ Insert
  \/ \E c \in Conn : Ask(c) \/ Answer(c)
  \/ \E S \in SUBSET Conn : Abandon(S)

Spec == Init /\ [][Next]_vars
=============================================================================
