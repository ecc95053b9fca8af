--------------------------- MODULE SystemInvariant ---------------------------
(***************************************************************************)
(* The inductive invariants behind the safety properties of TZ: what the   *)
(* state of a client, of its connection and of its thread say about each   *)
(* other, while neither side ever looks at the other's.                    *)
(***************************************************************************)
EXTENDS TZ

\* Why a completed close handshake is an acknowledgement: a client closes only
\* after its last write, a write is lost only when no thread reads any more, and
\* the thread answers the close frame when it has stored all readings before it.
Acknowledges(c) ==
  /\ at[c] \in C!Writing \cup DOMAIN C!Await => peer[c] # "none"
  /\ peer[c] # "deaf"
  /\ peer[c] = "closed" => at[c] \in {"closing"} \cup C!Over
  /\ lost[c] => pc[c] = "done" \/ peer[c] = "reset"
  /\ inbox[c] = "close" => at[c] \in {"closing"} \cup C!Over
  /\ inbox[c] = "close" \/ at[c] = "exited" => pc[c] = "done" /\ ~lost[c] /\ AllStored(c)

\* The inductive invariant of this argument.
Acknowledged == \A c \in Conn : Acknowledges(c)
-----------------------------------------------------------------------------
\* The messages by which c asked for the statistics, and those of them that its
\* thread has still to read or to answer.
Requested(c) == {k \in DOMAIN sent[c] : sent[c][k].type = "STATISTICS"}

Unserved(c) == {k \in Requested(c) : k > rd[c] \/ (k = rd[c] /\ pc[c] \in StatPc)}

\* Why client and server stay in step without a sequence number or a request
\* id: the thread gets beyond ws.accept only for a client that awaits the
\* upgrade, and a client asks once and then waits until it was answered.
StaysInStep(c) ==
  /\ at[c] = "off" => peer[c] = "none"
  /\ at[c] = "body" => Mode[c] = "data"
  /\ at[c] \in {"request", "reply"} => Mode[c] = "statistics"
  /\ pc[c] \in StatPc => rd[c] \in Requested(c)
  /\ \A k, l \in Requested(c) : k = l
  /\ at[c] \notin C!Over =>
       /\ inbox[c] # "none" => at[c] \in DOMAIN C!Await /\ inbox[c] = C!Await[at[c]]
       /\ pc[c] \in {"none", "handshake"} =>
            at[c] \in {"off", "upgrade", "handshake"} /\ inbox[c] = "none"
       /\ peer[c] = "open" => at[c] \notin {"off", "upgrade"}
       /\ at[c] \in {"off", "upgrade", "handshake", "body", "request"} => Requested(c) = {}
       /\ Unserved(c) # {} => at[c] = "reply" /\ inbox[c] = "none"

InStep == \A c \in Conn : StaysInStep(c)
-----------------------------------------------------------------------------
\* What may make the server fail a client, or not be there.
Cause == needExit \/ main \in Ended \/ runs > 1 \/ faults > 0

\* Clients send their own readings, without NaN; the others ask.
OwnPackets(c) ==
  \A k \in DOMAIN sent[c] :
    IF Mode[c] = "data" THEN sent[c][k] \in OwnReadings(c) ELSE sent[c][k].type = "STATISTICS"

\* Without a cause no lookup fails, and no other client registers c's uuid.
LooksUp(c) ==
  /\ pc[c] = "insertClient" => ClientIds(UuidOf[c]) = {}
  /\ pc[c] = "reselect" => ClientIds(UuidOf[c]) # {}

\* Without a cause a thread ends after the client's close frame, or its death.
EndsWell(c) ==
  /\ at[c] \in {"failed", "aborted"} => peer[c] = "none"
  /\ peer[c] = "reset" => at[c] = "killed"
  /\ pc[c] = "done" \/ eof[c] # "none" =>
       \/ at[c] \in {"exited", "killed"}
       \/ /\ at[c] = "closing" /\ inbox[c] = "close"
          /\ eof[c] = "fin" /\ pc[c] = "done" /\ peer[c] = "closed" /\ rd[c] = Len(sent[c])

\* Only a restart takes back a stop, and it counts as a second run.
Started == (main = "off" => ~needExit) /\ (main # "off" => runs >= 1)

\* Why a client fails only for a cause, which, once there, stays.
Lawful ==
  /\ Started
  /\ \A c \in Conn : OwnPackets(c)
  /\ Cause \/ \A c \in Conn : LooksUp(c) /\ (c \notin Fragile => EndsWell(c))
-----------------------------------------------------------------------------
\* A row has the fields of the packet it was made from.
StoredExactly ==
  \A i \in DOMAIN packets :
    LET p == sent[origin[i][1]][origin[i][2]]
    IN  packets[i].timestamp = p.timestamp /\ packets[i].x = p.x /\ packets[i].y = p.y

\* The first n rows have all readings of the clients that had exited when c asked.
Holds(c, n) ==
  \A d \in before[c] : \A k \in DOMAIN sent[d] : \E i \in 1..n : origin[i] = <<d, k>>

\* Why the statistics count them: they were stored before c asked, its thread
\* started the scans after that, and c prints the reply to that request.
SeesBefore(c) ==
  /\ \A d \in before[c] : Mode[d] = "data" /\ at[d] = "exited"
  /\ Mode[c] = "data" => before[c] = {}
  /\ pc[c] \in StatPc => Holds(c, job[c].base)
  /\ inbox[c] = "statistics" \/ at[c] \in {"close", "closing", "exited"} => Holds(c, reply[c].base)

Sees == StoredExactly /\ \A c \in Conn : SeesBefore(c)

\* The inductive invariant of the whole system, with that of the server.
SystemInv == Acknowledged /\ InStep /\ Lawful /\ Sees
=============================================================================
