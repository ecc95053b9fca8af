------------------------------- MODULE Server -------------------------------
(***************************************************************************)
(* The server process (Server/Server.cpp, Server/main.cpp): the accept     *)
(* loop of Server::start in the main thread, one Server::clientThread per  *)
(* connection, SIGINT, process death and restart on the same database.     *)
(* The peers are the environment: they connect, send packets, and leave.   *)
(*                                                                         *)
(* A step is one call that another thread can observe: a socket call, a    *)
(* load or store of m_needExit, one SQL statement.                         *)
(***************************************************************************)
EXTENDS Database, Statistics, FiniteSets

CONSTANTS
  Conn,        \* connections, each used once
  Time,        \* the readings of the server's (adjustable) system clock
  Buffer,      \* the entries of a reply that fit in the socket buffers
  MaxSent,     \* bound: packets a peer sends
  MaxFaults,   \* bound: failing calls (SQLite, socket, thread creation)
  MaxRuns      \* bound: times the server is started

ASSUME TimeAssumption == Time \subseteq Int

VARIABLES
  main,       \* where the process's main thread is
  needExit,   \* m_needExit
  threads,    \* m_threads, as the connections they serve
  joined,     \* how many of them start() has joined
  pc,         \* where the thread of a connection is
  rd,         \* packets read from the connection; the last one is being handled
  row,        \* client.at(0), 0 when the vector is empty
  job,        \* the locals of collectStatistics
  reply,      \* the last statistics written to the peer; reply.cut: a failing step hid rows
  peer,       \* the peer's end of the connection
  sent,       \* packets the peer wrote
  faults, runs,   \* counters for MaxFaults and MaxRuns
  origin,     \* history: origin[i] = <<c, k>>: row i of packets is the k-th packet of c
  atStop      \* history: packets read and threads started when stop() was called

procVars == <<main, needExit, threads, joined, runs, atStop>>
threadVars == <<pc, rd, row, job, reply>>
netVars == <<peer, sent>>
vars == <<procVars, threadVars, netVars, dbVars, faults, origin>>

Running == {"createClients", "createPackets", "listen", "check", "accept", "join"}
Ended == {"stopped", "failed", "aborted", "crashed"}
Listening == {"check", "accept", "join"}
SavePc == {"select", "insertClient", "reselect", "insertPacket"}
StatPc == {"clients", "packets"}
ThreadPc == {"none", "handshake", "check", "read", "done"} \cup SavePc \cup StatPc

Scan == [id : Nat, upTo : Nat]
Job == [base : Nat, from : Nat, at : Int, todo : SUBSET Nat, scans : SUBSET Scan, cut : BOOLEAN]
Reply == [base : Nat, at : Int, scans : SUBSET Scan, cut : BOOLEAN]
NoJob == [base |-> 0, from |-> 0, at |-> 0, todo |-> {}, scans |-> {}, cut |-> FALSE]
NoReply == [base |-> 0, at |-> 0, scans |-> {}, cut |-> FALSE]

ProcTypeOK ==
  /\ main \in {"off"} \cup Running \cup Ended
  /\ needExit \in BOOLEAN
  /\ threads \in Seq(Conn) /\ joined \in Nat
  /\ runs \in Nat
  /\ atStop \in [rd : [Conn -> Nat], threads : Nat]

ThreadTypeOK ==
  /\ pc \in [Conn -> ThreadPc] /\ rd \in [Conn -> Nat] /\ row \in [Conn -> Nat]
  /\ job \in [Conn -> Job]
  /\ reply \in [Conn -> Reply]

NetTypeOK ==
  /\ peer \in [Conn -> {"none", "dialed", "open", "deaf", "closed", "reset"}]
  /\ sent \in [Conn -> Seq(Packet)]

TypeOK ==
  /\ DatabaseTypeOK /\ ProcTypeOK /\ ThreadTypeOK /\ NetTypeOK
  /\ faults \in Nat /\ origin \in Seq(Conn \X Nat)

Init ==
  /\ DatabaseInit
  /\ main = "off" /\ needExit = FALSE /\ threads = <<>> /\ joined = 0
  /\ pc = [c \in Conn |-> "none"] /\ rd = [c \in Conn |-> 0] /\ row = [c \in Conn |-> 0]
  /\ job = [c \in Conn |-> NoJob] /\ reply = [c \in Conn |-> NoReply]
  /\ peer = [c \in Conn |-> "none"] /\ sent = [c \in Conn |-> <<>>]
  /\ faults = 0 /\ runs = 0 /\ origin = <<>>
  /\ atStop = [rd |-> rd, threads |-> 0]

Fault == faults < MaxFaults /\ faults' = faults + 1
-----------------------------------------------------------------------------
(* The main thread. *)

\* The process is over: its threads are gone, its sockets closed, and so are
\* the connections still waiting in the backlog.
Down(how) ==
  /\ main' = how /\ threads' = <<>> /\ joined' = 0
  /\ pc' = [c \in Conn |-> IF peer[c] = "none" THEN "none" ELSE "done"]
  /\ row' = [c \in Conn |-> 0] /\ job' = [c \in Conn |-> NoJob]
  /\ peer' = [c \in Conn |-> IF peer[c] \in {"dialed", "open", "deaf"} THEN "reset" ELSE peer[c]]
  /\ UNCHANGED <<needExit, runs, atStop, rd, reply, sent, dbVars, origin>>

Boot ==
  /\ main \notin Running /\ runs < MaxRuns
  /\ main' = "createClients" /\ needExit' = FALSE /\ runs' = runs + 1
  /\ UNCHANGED <<threads, joined, atStop, threadVars, netVars, dbVars, faults, origin>>

\* Faulty: a database that has a table is taken for complete.
CreateTablesUnlessAny ==
  /\ \/ /\ main = "createClients"
        /\ IF tables = {}
           THEN CreateTable("clients") /\ main' = "createPackets"
           ELSE main' = "listen" /\ UNCHANGED dbVars
     \/ main = "createPackets" /\ CreateTable("packets") /\ main' = "listen"
  /\ UNCHANGED <<needExit, threads, joined, runs, atStop, threadVars, netVars, faults, origin>>

\* The constructor's two createTable calls.
CreateTables ==
  /\ \/ main = "createClients" /\ CreateTable("clients") /\ main' = "createPackets"
     \/ main = "createPackets" /\ CreateTable("packets") /\ main' = "listen"
  /\ UNCHANGED <<needExit, threads, joined, runs, atStop, threadVars, netVars, faults, origin>>

\* Opening the database, a createTable or the acceptor throws: main returns.
StartupFails ==
  /\ main \in {"createClients", "createPackets", "listen"}
  /\ Fault /\ Down("failed")

\* The acceptor's constructor binds and listens; then `while (!m_needExit)`.
Listen ==
  /\ main = "listen" /\ main' = "check"
  /\ UNCHANGED <<needExit, threads, joined, runs, atStop, threadVars, netVars, dbVars, faults, origin>>

\* Faulty: the accept loop does not look at m_needExit.
LoopCheckNever ==
  /\ main = "check" /\ main' = "accept"
  /\ UNCHANGED <<needExit, threads, joined, runs, atStop, threadVars, netVars, dbVars, faults, origin>>

LoopCheck ==
  /\ main = "check"
  /\ main' = IF needExit THEN "join" ELSE "accept"
  /\ UNCHANGED <<needExit, threads, joined, runs, atStop, threadVars, netVars, dbVars, faults, origin>>

Pending(c) == peer[c] # "none" /\ pc[c] = "none"

\* Faulty: a limit on m_threads, which never shrinks.
AcceptLimited(c) ==
  /\ main = "accept" /\ Pending(c) /\ threads = <<>>
  /\ main' = "check"
  /\ threads' = Append(threads, c)
  /\ pc' = [pc EXCEPT ![c] = "handshake"]
  /\ UNCHANGED <<needExit, joined, runs, atStop, rd, row, job, reply, netVars, dbVars, faults, origin>>

Accept(c) ==
  /\ main = "accept" /\ Pending(c)
  /\ main' = "check"
  /\ threads' = Append(threads, c)
  /\ pc' = [pc EXCEPT ![c] = "handshake"]
  /\ UNCHANGED <<needExit, joined, runs, atStop, rd, row, job, reply, netVars, dbVars, faults, origin>>

\* would_block: the system_error is swallowed.
AcceptNothing ==
  /\ main = "accept" /\ ~ \E c \in Conn : Pending(c)
  /\ main' = "check"
  /\ UNCHANGED <<needExit, threads, joined, runs, atStop, threadVars, netVars, dbVars, faults, origin>>

\* accept or local_endpoint throws for a pending connection, which is dropped.
AcceptFails(c) ==
  /\ main = "accept" /\ Pending(c) /\ Fault
  /\ main' = "check"
  /\ pc' = [pc EXCEPT ![c] = "done"]
  /\ UNCHANGED <<needExit, threads, joined, runs, atStop, rd, row, job, reply, netVars, dbVars, origin>>

\* std::thread throws a std::system_error, which start() does not catch: main
\* returns, and destroying a joinable thread of m_threads calls std::terminate.
ThreadFails(c) ==
  /\ main = "accept" /\ Pending(c) /\ Fault
  /\ Down(IF threads = <<>> THEN "failed" ELSE "aborted")

\* Faulty: the threads are detached, not joined.
JoinDetached ==
  /\ main = "join" /\ joined < Len(threads)
  /\ joined' = joined + 1
  /\ UNCHANGED <<main, needExit, threads, runs, atStop, threadVars, netVars, dbVars, faults, origin>>

Join ==
  /\ main = "join" /\ joined < Len(threads) /\ pc[threads[joined + 1]] = "done"
  /\ joined' = joined + 1
  /\ UNCHANGED <<main, needExit, threads, runs, atStop, threadVars, netVars, dbVars, faults, origin>>

\* Faulty: the join loop misses the last thread.
ReturnEarly ==
  /\ main = "join" /\ joined + 1 >= Len(threads)
  /\ Down("stopped") /\ UNCHANGED faults

\* start() returns: the acceptor, then the Server and its SQLite are destroyed.
Return ==
  /\ main = "join" /\ joined = Len(threads)
  /\ Down("stopped") /\ UNCHANGED faults

\* The first SIGINT once the handler is installed: stop().
Interrupt ==
  /\ main \in {"listen"} \cup Listening /\ ~needExit
  /\ needExit' = TRUE
  /\ atStop' = [rd |-> rd, threads |-> Len(threads)]
  /\ UNCHANGED <<main, threads, joined, runs, threadVars, netVars, dbVars, faults, origin>>

\* A SIGINT before that, a second one (the Windows runtime resets a handler to
\* SIG_DFL when it runs), or any other end of the process at an arbitrary point.
Crash == main \in Running /\ Down("crashed") /\ UNCHANGED faults
-----------------------------------------------------------------------------
(* The thread of connection c: clientThread. *)

\* The thread's share of a step that does not end in the database.
At(c, here, next) == pc[c] = here /\ pc' = [pc EXCEPT ![c] = next]

\* The exception leaves the try block, which closes the socket, or the loop ends.
EndThread(c) ==
  /\ pc' = [pc EXCEPT ![c] = "done"]
  /\ row' = [row EXCEPT ![c] = 0] /\ job' = [job EXCEPT ![c] = NoJob]
  /\ UNCHANGED <<rd, reply>>

Msg(c) == sent[c][rd[c]]

\* ws.accept answers the peer's upgrade request, or throws.
Handshake(c) ==
  /\ pc[c] = "handshake"
  /\ \/ peer[c] = "open" /\ At(c, "handshake", "check") /\ UNCHANGED <<rd, row, job, reply>>
     \/ peer[c] \in {"closed", "reset"} /\ EndThread(c)
  /\ UNCHANGED <<procVars, netVars, dbVars, faults, origin>>

\* Faulty: the thread does not look at m_needExit.
ThreadCheckNever(c) ==
  /\ At(c, "check", "read")
  /\ UNCHANGED <<procVars, rd, row, job, reply, netVars, dbVars, faults, origin>>

ThreadCheck(c) ==
  /\ At(c, "check", IF needExit THEN "done" ELSE "read")
  /\ UNCHANGED <<procVars, rd, row, job, reply, netVars, dbVars, faults, origin>>

\* Faulty: what arrived before the peer's close is not read.
ReceiveOpenOnly(c, next) ==
  /\ At(c, "read", next)
  /\ peer[c] = "open" /\ rd[c] < Len(sent[c])
  /\ rd' = [rd EXCEPT ![c] = @ + 1]
  /\ UNCHANGED <<procVars, row, reply, netVars, dbVars, faults, origin>>

\* ws.read returns the next message, then the switch on packet.type().
Receive(c, next) ==
  /\ At(c, "read", next)
  /\ peer[c] \in {"open", "deaf", "closed"} /\ rd[c] < Len(sent[c])
  /\ rd' = [rd EXCEPT ![c] = @ + 1]
  /\ UNCHANGED <<procVars, row, reply, netVars, dbVars, faults, origin>>

ReceiveReading(c) ==
  /\ Receive(c, "select") /\ IsReading(sent[c][rd[c] + 1])
  /\ UNCHANGED job

\* collectStatistics starts: the scan of clients sees every row of this moment.
ReceiveRequest(c) ==
  /\ Receive(c, "clients") /\ sent[c][rd[c] + 1].type = "STATISTICS"
  /\ job' = [job EXCEPT ![c].base = Len(packets), ![c].from = Len(clients)]

\* A DATA packet without data, or an unknown type: nothing is done.
ReceiveIgnored(c) ==
  /\ Receive(c, "check")
  /\ LET p == sent[c][rd[c] + 1] IN ~IsReading(p) /\ p.type # "STATISTICS"
  /\ UNCHANGED job

\* Faulty: ws.read does not return when the peer closes.
ReadFailsOnReset(c) ==
  /\ pc[c] = "read" /\ peer[c] = "reset"
  /\ EndThread(c)
  /\ UNCHANGED <<procVars, netVars, dbVars, faults, origin>>

\* Faulty: the peer's close overtakes what it sent before.
ReadFailsEarly(c) ==
  /\ pc[c] = "read" /\ peer[c] \in {"reset", "closed"}
  /\ EndThread(c)
  /\ UNCHANGED <<procVars, netVars, dbVars, faults, origin>>

\* ws.read throws: the peer closed after its last message, or the link broke.
ReadFails(c) ==
  /\ pc[c] = "read"
  /\ peer[c] = "reset" \/ (peer[c] = "closed" /\ rd[c] = Len(sent[c]))
  /\ EndThread(c)
  /\ UNCHANGED <<procVars, netVars, dbVars, faults, origin>>
-----------------------------------------------------------------------------
(* saveClientPacket *)

SelectFound(c) ==
  /\ \E id \in ClientIds(Msg(c).uuid) : row' = [row EXCEPT ![c] = id]
  /\ UNCHANGED <<procVars, rd, job, reply, netVars, dbVars, faults, origin>>

\* selectMany takes any result of sqlite3_step but SQLITE_ROW for the end of
\* the rows, so a failing step also yields the empty vector.
SelectEmpty(c) ==
  /\ (ClientIds(Msg(c).uuid) = {} /\ UNCHANGED faults) \/ Fault
  /\ UNCHANGED <<procVars, rd, reply, netVars, dbVars, origin>>

\* Faulty: the client is registered without being looked up.
SelectNone(c) ==
  /\ At(c, "select", "insertClient")
  /\ UNCHANGED <<procVars, rd, row, job, reply, netVars, dbVars, faults, origin>>

Select(c) ==
  \/ At(c, "select", "insertPacket") /\ SelectFound(c)
  \/ At(c, "select", "insertClient") /\ SelectEmpty(c) /\ UNCHANGED <<row, job>>

\* Faulty: the UNIQUE error is swallowed and the loop goes on.
InsertClientSwallow(c) ==
  /\ pc[c] = "insertClient"
  /\ IF UniqueViolated(Msg(c).uuid)
     THEN At(c, "insertClient", "check") /\ UNCHANGED dbVars
     ELSE InsertClientRow(Msg(c).uuid) /\ At(c, "insertClient", "reselect")
  /\ UNCHANGED <<procVars, rd, row, job, reply, netVars, faults, origin>>

InsertClient(c) ==
  /\ pc[c] = "insertClient"
  /\ IF UniqueViolated(Msg(c).uuid)
     THEN EndThread(c) /\ UNCHANGED dbVars
     ELSE /\ InsertClientRow(Msg(c).uuid)
          /\ At(c, "insertClient", "reselect")
          /\ UNCHANGED <<rd, row, job, reply>>
  /\ UNCHANGED <<procVars, netVars, faults, origin>>

\* Faulty: the id of the new client is taken to be the last one inserted.
ReselectLast(c) ==
  /\ At(c, "reselect", "insertPacket")
  /\ row' = [row EXCEPT ![c] = Len(clients)]
  /\ UNCHANGED <<procVars, rd, job, reply, netVars, dbVars, faults, origin>>

\* client.at(0) throws out_of_range when the second select is empty too.
Reselect(c) ==
  \/ At(c, "reselect", "insertPacket") /\ SelectFound(c)
  \/ pc[c] = "reselect" /\ SelectEmpty(c) /\ EndThread(c)

\* Faulty: a refused packet is skipped and the loop goes on.
InsertPacketSkip(c) ==
  /\ At(c, "insertPacket", "check")
  /\ IF NotNullViolated(Msg(c))
     THEN UNCHANGED <<dbVars, origin>>
     ELSE InsertPacketRow(row[c], Msg(c)) /\ origin' = Append(origin, <<c, rd[c]>>)
  /\ row' = [row EXCEPT ![c] = 0]
  /\ UNCHANGED <<procVars, rd, job, reply, netVars, faults>>

\* Faulty: the packet is saved again after it was saved.
InsertPacketAgain(c) ==
  /\ At(c, "insertPacket", "select")
  /\ InsertPacketRow(row[c], Msg(c)) /\ origin' = Append(origin, <<c, rd[c]>>)
  /\ row' = [row EXCEPT ![c] = 0]
  /\ UNCHANGED <<procVars, rd, job, reply, netVars, faults>>

\* Faulty: a task of its own saves the packet, and a later one may overtake it.
InsertPacketAsync(c) ==
  /\ pc[c] = "insertPacket"
  /\ \/ At(c, "insertPacket", "check") /\ UNCHANGED <<dbVars, origin>>
     \/ \E k \in 1..rd[c] :
          /\ \A i \in DOMAIN origin : origin[i] # <<c, k>>
          /\ InsertPacketRow(row[c], sent[c][k]) /\ origin' = Append(origin, <<c, k>>)
          /\ UNCHANGED pc
  /\ UNCHANGED <<procVars, rd, row, job, reply, netVars, faults>>

InsertPacket(c) ==
  /\ pc[c] = "insertPacket"
  /\ IF NotNullViolated(Msg(c))
     THEN EndThread(c) /\ UNCHANGED <<dbVars, origin>>
     ELSE /\ InsertPacketRow(row[c], Msg(c))
          /\ origin' = Append(origin, <<c, rd[c]>>)
          /\ At(c, "insertPacket", "check")
          /\ row' = [row EXCEPT ![c] = 0]
          /\ UNCHANGED <<rd, job, reply>>
  /\ UNCHANGED <<procVars, netVars, faults>>

\* An SQL call of either operation throws.
SqlError(c) ==
  /\ pc[c] \in SavePc \/ pc[c] = "clients" \/ (pc[c] = "packets" /\ job[c].todo # {})
  /\ Fault /\ EndThread(c)
  /\ UNCHANGED <<procVars, netVars, dbVars, origin>>
-----------------------------------------------------------------------------
(* collectStatistics: statements of other threads run between its steps, and *)
(* SQLite does not say whether a scan sees rows inserted after it began.      *)

\* Faulty: the client list is read with selectOne.
ListOneClient(c) ==
  /\ At(c, "clients", "packets")
  /\ \E ids \in SUBSET (DOMAIN clients), now \in Time :
       /\ \A i, j \in ids : i = j
       /\ clients # <<>> => ids # {}
       /\ job' = [job EXCEPT ![c].at = now, ![c].todo = ids, ![c].from = Len(packets)]
  /\ UNCHANGED <<procVars, rd, row, reply, netVars, dbVars, faults, origin>>

\* The scan of clients ends and the clock is read.  A failing sqlite3_step
\* silently cuts the scan short.
ListClients(c) ==
  /\ At(c, "clients", "packets")
  /\ \E ids \in SUBSET (DOMAIN clients), now \in Time, cut \in BOOLEAN :
       /\ IF cut THEN Fault ELSE 1..job[c].from \subseteq ids /\ UNCHANGED faults
       /\ job' = [job EXCEPT ![c].at = now, ![c].todo = ids, ![c].from = Len(packets),
                             ![c].cut = cut]
  /\ UNCHANGED <<procVars, rd, row, reply, netVars, dbVars, origin>>

\* The scan of packets for one client ends: it saw the first n rows.
ScanPackets(c) ==
  /\ pc[c] = "packets"
  /\ \E id \in job[c].todo, n \in 0..Len(packets), cut \in BOOLEAN :
       /\ IF cut THEN Fault ELSE job[c].from <= n /\ UNCHANGED faults
       /\ job' = [job EXCEPT ![c].todo = @ \ {id}, ![c].from = Len(packets),
                             ![c].scans = @ \cup {[id |-> id, upTo |-> n]},
                             ![c].cut = @ \/ cut]
  /\ UNCHANGED <<procVars, pc, rd, row, reply, netVars, dbVars, origin>>

\* What a job or a reply r says: one entry for each scanned client it has rows of.
Statistics(r) ==
  {Entry(clients[s.id], ClientRows(s.id, s.upTo), r.at) :
     s \in {t \in r.scans : Reported(ClientRows(t.id, t.upTo), r.at)}}

\* Faulty: the collected statistics are kept for the next request.
WriteReplyKeep(c) ==
  /\ pc[c] = "packets" /\ job[c].todo = {}
  /\ reply' = [reply EXCEPT ![c] = [base |-> job[c].base, at |-> job[c].at,
                                    scans |-> job[c].scans, cut |-> job[c].cut]]
  /\ At(c, "packets", "check")
  /\ UNCHANGED <<procVars, netVars, rd, row, job, dbVars, faults, origin>>

\* ws.write of the statistics.  It waits while the peer does not read what the
\* socket buffers cannot take, and throws when the link is broken.
WriteReply(c) ==
  /\ pc[c] = "packets" /\ job[c].todo = {}
  /\ peer[c] = "deaf" => Cardinality(Statistics(job[c])) <= Buffer
  /\ IF peer[c] = "reset"
     THEN EndThread(c)
     ELSE /\ reply' = [reply EXCEPT ![c] = [base |-> job[c].base, at |-> job[c].at,
                                            scans |-> job[c].scans, cut |-> job[c].cut]]
          /\ At(c, "packets", "check")
          /\ job' = [job EXCEPT ![c] = NoJob]
          /\ UNCHANGED <<rd, row>>
  /\ UNCHANGED <<procVars, netVars, dbVars, faults, origin>>
-----------------------------------------------------------------------------
(* The peer of connection c.  Nothing it does matters once pc[c] = "done". *)

\* The TCP connection waits in the backlog; the upgrade request comes later.
PeerConnect(c) ==
  /\ main \in Listening /\ peer[c] = "none"
  /\ peer' = [peer EXCEPT ![c] = "dialed"]
  /\ UNCHANGED <<procVars, threadVars, sent, dbVars, faults, origin>>

PeerUpgrade(c) ==
  /\ peer[c] = "dialed" /\ pc[c] # "done"
  /\ peer' = [peer EXCEPT ![c] = "open"]
  /\ UNCHANGED <<procVars, threadVars, sent, dbVars, faults, origin>>

PeerSend(c, p) ==
  /\ peer[c] \in {"open", "deaf"} /\ pc[c] \notin {"none", "handshake", "done"}
  /\ Len(sent[c]) < MaxSent
  /\ sent' = [sent EXCEPT ![c] = Append(@, p)]
  /\ UNCHANGED <<procVars, threadVars, peer, dbVars, faults, origin>>

\* The peer reads nothing more of what the server writes, until it leaves.
PeerDeafens(c) ==
  /\ peer[c] = "open" /\ pc[c] \notin {"none", "handshake", "done"}
  /\ peer' = [peer EXCEPT ![c] = "deaf"]
  /\ UNCHANGED <<procVars, threadVars, sent, dbVars, faults, origin>>

\* A close frame or FIN follows what was sent; a reset overtakes it.
PeerLeave(c, how) ==
  /\ peer[c] \in {"dialed", "open", "deaf"} \/ (peer[c] = "closed" /\ how = "reset")
  /\ pc[c] # "done"
  /\ peer' = [peer EXCEPT ![c] = how]
  /\ UNCHANGED <<procVars, threadVars, sent, dbVars, faults, origin>>
-----------------------------------------------------------------------------
MainStep ==
  \/ CreateTables \/ Listen \/ LoopCheck \/ AcceptNothing \/ Join \/ Return
  \/ \E c \in Conn : Accept(c)

MainFails == StartupFails \/ \E c \in Conn : AcceptFails(c) \/ ThreadFails(c)

ThreadStep(c) ==
  \/ Handshake(c) \/ ThreadCheck(c)
  \/ ReceiveReading(c) \/ ReceiveRequest(c) \/ ReceiveIgnored(c) \/ ReadFails(c)
  \/ Select(c) \/ InsertClient(c) \/ Reselect(c) \/ InsertPacket(c)
  \/ ListClients(c) \/ ScanPackets(c) \/ WriteReply(c)

PeerStep(c) ==
  \/ PeerUpgrade(c) \/ PeerDeafens(c)
  \/ \E p \in Packet : PeerSend(c, p)
  \/ \E how \in {"closed", "reset"} : PeerLeave(c, how)

\* Nothing is left to happen within the bounds.
Finished == main \notin Running /\ runs = MaxRuns /\ UNCHANGED vars

Next ==
  \/ Boot \/ MainStep \/ MainFails \/ Interrupt \/ Crash \/ Finished
  \/ \E c \in Conn : ThreadStep(c) \/ SqlError(c) \/ PeerConnect(c) \/ PeerStep(c)

Spec == Init /\ [][Next]_vars

\* The operating system schedules every thread that can run.
ThreadFairness == WF_vars(MainStep) /\ \A c \in Conn : WF_vars(ThreadStep(c))

\* No peer is silent or deaf for ever: it sends, or it leaves.  One that closed
\* the connection need do nothing more.
PeerFairness == \A c \in Conn : WF_vars(PeerStep(c) /\ peer[c] # "closed")

FairSpec == Spec /\ ThreadFairness /\ PeerFairness
-----------------------------------------------------------------------------
(* Safety *)

\* No two client rows have one uuid, although saveClientPacket looks the uuid
\* up and inserts it in separate statements that other threads interleave.
UniqueClients ==
  \A i, j \in DOMAIN clients : clients[i] = clients[j] => i = j

\* Every packet row, of this run or an earlier one, belongs to the client whose
\* uuid the packet carried, also when threads register clients concurrently
\* between the lookup and the insertion of the packet.
Attribution ==
  /\ Len(origin) = Len(packets)
  /\ \A i \in DOMAIN packets :
       /\ packets[i].client_id \in DOMAIN clients
       /\ clients[packets[i].client_id] = CStr[sent[origin[i][1]][origin[i][2]].uuid]

\* No packet of a connection is stored twice or before an earlier one.
StoredOnceInOrder ==
  \A i, j \in DOMAIN origin :
    i < j /\ origin[i][1] = origin[j][1] => origin[i][2] < origin[j][2]

\* A reading is never passed over: while the thread goes on serving its
\* connection, all readings it has read are stored.  Whatever fails in
\* saveClientPacket therefore ends the connection.
NoSilentDrop ==
  \A c \in Conn : pc[c] \in {"check", "read"} =>
    \A k \in 1..rd[c] : IsReading(sent[c][k]) =>
      \E i \in DOMAIN origin : origin[i] = <<c, k>>

\* Another connection names the client of c's packet, too, and may register it
\* between the lookup and the insertion.
Rivalled(c) ==
  \E d \in Conn \ {c} : \E k \in 1..rd[d] :
    IsReading(sent[d][k]) /\ CStr[sent[d][k].uuid] = CStr[Msg(c).uuid]

\* saveClientPacket refuses a reading, and so ends its connection, only when a
\* call failed, for a NaN, or when another connection named the same client:
\* a client that is there is found, under whatever name it was registered, and
\* one that was registered is found again.
RefusedForCause ==
  [][\A c \in Conn : pc[c] \in SavePc /\ pc'[c] = "done" /\ main' \in Running =>
       faults' > 0 \/ NaN \in {Msg(c).x, Msg(c).y} \/ Rivalled(c)]_vars

\* No thread runs before both tables exist, also when an earlier run died
\* between the two createTable calls of the constructor.
SchemaReady == main \in {"listen"} \cup Listening => tables = Schema

\* A reply has at most one entry per uuid: its scans are of different clients.
OneEntryPerClient ==
  \A c \in Conn : \A s, t \in reply[c].scans : clients[s.id] = clients[t.id] => s = t

\* A reply whose scans no failing step cut short covers all that was stored
\* when its request was read: each client with a reading in the five minutes
\* has an entry, exact for the table as it was at some moment since.
StatisticsCoverRequest ==
  \A c \in Conn : ~reply[c].cut =>
    \A i \in 1..reply[c].base :
      packets[i].timestamp >= reply[c].at - Interval2 =>
        LET id == packets[i].client_id
        IN  \E n \in reply[c].base..Len(packets) :
              Entry(clients[id], ClientRows(id, n), reply[c].at) \in Statistics(reply[c])

\* After stop() each thread handles at most one more message and the accept
\* loop starts at most one more thread.
LastCall ==
  needExit /\ main \in Running =>
    /\ \A c \in Conn : rd[c] <= atStop.rd[c] + 1
    /\ Len(threads) <= atStop.threads + 1

\* start() returns, and the database closes, only when no thread runs.
NoThreadOutlivesStart ==
  [][main' = "stopped" => \A c \in Conn : pc[c] \in {"none", "done"}]_vars

\* How far a thread is from its end once m_needExit is set, and start() from its
\* last loop.
Left == [none |-> 8, handshake |-> 7, read |-> 6, select |-> 5, insertClient |-> 4,
         reselect |-> 3, insertPacket |-> 2, clients |-> 3, packets |-> 2, check |-> 1, done |-> 0]
MainLeft == [listen |-> 3, accept |-> 2, check |-> 1, join |-> 0]

Nearer(c) ==
  \/ Left[pc'[c]] < Left[pc[c]]
  \/ /\ pc[c] = "packets" /\ pc'[c] = "packets" /\ rd'[c] = rd[c]
     /\ job'[c].todo \subseteq job[c].todo /\ job'[c].todo # job[c].todo

MainNearer ==
  \/ MainLeft[main'] < MainLeft[main]
  \/ main = "join" /\ main' = "join" /\ joined < joined' /\ joined' <= Len(threads)

Descends ==
  /\ \A c \in Conn : UNCHANGED <<pc[c], rd[c], job[c]>> \/ Nearer(c)
  /\ UNCHANGED <<main, joined>> \/ MainNearer

\* After stop() no thread ever goes back: whatever peers send and other threads
\* insert, each step that a thread or start() takes brings it nearer to its end,
\* so that only a blocked call can keep the server from stopping.
StopDescends ==
  [][needExit /\ main \in Running /\ main' \in Running => Descends]_vars

\* If no thread of a stopping server can move, a peer keeps it: one that has
\* not sent its upgrade request, one whose next message is awaited, or one
\* that does not read its reply.
OnlyPeersPreventStop ==
  main = "join" /\ ~ENABLED MainStep /\ (\A c \in Conn : ~ENABLED ThreadStep(c)) =>
    \E c \in Conn :
      \/ pc[c] = "handshake" /\ peer[c] = "dialed"
      \/ pc[c] = "read" /\ peer[c] \in {"open", "deaf"} /\ rd[c] = Len(sent[c])
      \/ pc[c] = "packets" /\ peer[c] = "deaf"

\* The server implements the promise of Telemetry.
Promise == INSTANCE Telemetry WITH
  stored <- origin, ended <- {c \in Conn : pc[c] = "done"}

ImplementsTelemetry == Promise!Spec

\* A reply keeps the promise of Survey, for the request it answers.
Answers == INSTANCE Survey WITH
  asked <- [c \in Conn |-> IF pc[c] \in StatPc THEN job[c].base ELSE -1],
  answer <- reply

ImplementsSurvey == Answers!Spec
-----------------------------------------------------------------------------
(* Liveness, under FairSpec *)

\* stop() ends the server: every blocked thread is let go and joined.
StopTerminates == needExit ~> main \in Ended

\* A packet that was sent is handled, unless its connection ends first.
PacketsHandled ==
  \A c \in Conn : \A k \in 1..MaxSent :
    Len(sent[c]) >= k ~> (rd[c] >= k \/ pc[c] = "done")

\* A connection in the backlog is served, or closed with the server.
ConnectionServed == \A c \in Conn : Pending(c) ~> ~Pending(c)
=============================================================================
