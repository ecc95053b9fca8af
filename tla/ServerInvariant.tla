-------------------------- MODULE ServerInvariant ---------------------------
(***************************************************************************)
(* The inductive invariant behind the safety properties of Server.  Each   *)
(* part says what the threads rely on without checking it: where a thread  *)
(* is tells what it has read, what it has stored and which row it holds.   *)
(***************************************************************************)
EXTENDS Server

\* The packets of c that its thread is done with: all it read, but for the one
\* in the hands of saveClientPacket.
Settled == [c \in Conn |-> IF pc[c] \in SavePc THEN rd[c] - 1 ELSE rd[c]]

\* A thread has read only what was sent, and saves only readings.
Cursor ==
  \A c \in Conn :
    /\ rd[c] <= Len(sent[c])
    /\ pc[c] \in SavePc => rd[c] >= 1 /\ IsReading(Msg(c))

\* A thread exists only for a peer that connected, and reads only after ws.accept.
Connected ==
  \A c \in Conn :
    /\ peer[c] = "none" => pc[c] = "none"
    /\ pc[c] \in {"none", "handshake"} => rd[c] = 0

\* The row that a packet is about to be inserted for is its client's.
RowIsClient ==
  \A c \in Conn : pc[c] = "insertPacket" =>
    row[c] \in DOMAIN clients /\ clients[row[c]] = CStr[Msg(c).uuid]

\* What is stored was settled before, and all that a live thread settled is stored.
StoredAreSettled ==
  \A i \in DOMAIN origin : origin[i][2] \in 1..Settled[origin[i][1]]

SettledAreStored ==
  \A c \in Conn : pc[c] # "done" =>
    \A k \in 1..Settled[c] : IsReading(sent[c][k]) =>
      \E i \in DOMAIN origin : origin[i] = <<c, k>>

\* What a lookup found, or did not find, is still so when the thread acts on it,
\* unless it failed or another connection registers the same client.
LookupsHold ==
  \A c \in Conn :
    /\ pc[c] = "insertClient" => ClientIds(Msg(c).uuid) = {} \/ faults > 0 \/ Rivalled(c)
    /\ pc[c] = "reselect" => ClientIds(Msg(c).uuid) # {}

\* A createTable call that returned left its table behind.
TablesCreated ==
  /\ main = "createPackets" => "clients" \in tables
  /\ main \in {"listen"} \cup Listening => tables = Schema

\* Whoever may still receive or accept once has not done so since stop().
LastCallPending ==
  needExit /\ main \in Running =>
    /\ \A c \in Conn :
         rd[c] <= atStop.rd[c] + IF pc[c] \in {"none", "handshake", "read"} THEN 0 ELSE 1
    /\ Len(threads) <= atStop.threads + IF main = "accept" THEN 0 ELSE 1

\* The handler of SIGINT is installed when the constructor is done.
StopServes == needExit /\ main \in Running => main \in {"listen"} \cup Listening

\* Every running thread is in m_threads, and a joined one has ended.
ThreadsTracked ==
  /\ main \notin Running => \A c \in Conn : pc[c] \in {"none", "done"}
  /\ \A c \in Conn : pc[c] \notin {"none", "done"} =>
       \E j \in DOMAIN threads : threads[j] = c
  /\ joined <= Len(threads)
  /\ \A j \in 1..joined : pc[threads[j]] = "done"

\* What is true of the rows and of the readings they were made from.
Readings ==
  /\ UniqueClients /\ RowIsClient /\ Attribution
  /\ StoredAreSettled /\ SettledAreStored /\ StoredOnceInOrder

\* Scans of distinct clients, over rows that are there.
SoundScans(scans) ==
  /\ \A s \in scans : s.id \in DOMAIN clients /\ s.upTo <= Len(packets)
  /\ \A s, t \in scans : s.id = t.id => s = t

\* A reply still covers the rows of its own request, unless a step failed.
ReplyOK(r) ==
  /\ SoundScans(r.scans) /\ r.base <= Len(packets)
  /\ ~r.cut =>
       /\ \A s \in r.scans : r.base <= s.upTo
       /\ \A i \in 1..r.base : \E s \in r.scans : s.id = packets[i].client_id

\* A thread that collects no statistics holds nothing of an earlier request.
\* One that lists the clients knows that all of the request's rows are of
\* clients the list must have; one that scans packets has scanned each of
\* these or is still to do so, and misses none of the request's rows unless a
\* step failed.
RequestOK(c) ==
  /\ pc[c] \notin StatPc => job[c] = NoJob
  /\ pc[c] = "clients" =>
       /\ job[c].scans = {} /\ ~job[c].cut
       /\ job[c].base <= Len(packets) /\ job[c].from <= Len(clients)
       /\ \A i \in 1..job[c].base : packets[i].client_id <= job[c].from
  /\ pc[c] = "packets" =>
       /\ SoundScans(job[c].scans)
       /\ job[c].todo \subseteq DOMAIN clients /\ \A s \in job[c].scans : s.id \notin job[c].todo
       /\ job[c].base <= job[c].from /\ job[c].from <= Len(packets)
       /\ ~job[c].cut =>
            /\ \A s \in job[c].scans : job[c].base <= s.upTo
            /\ \A i \in 1..job[c].base :
                 \/ packets[i].client_id \in job[c].todo
                 \/ \E s \in job[c].scans : s.id = packets[i].client_id
  /\ ReplyOK(reply[c])

\* The inductive invariant of statistics requests: while other threads register
\* clients and store readings, no scan loses what its request must cover.
Requests == \A c \in Conn : RequestOK(c)

\* The whole inductive invariant: no step of any thread, of the main thread or
\* of a peer, no failing call and no restart leaves it.
Inv ==
  /\ TypeOK /\ Cursor /\ Connected /\ Readings /\ LookupsHold
  /\ TablesCreated /\ LastCallPending /\ StopServes /\ ThreadsTracked
=============================================================================
