---------------------------- MODULE ServerProofs ----------------------------
(***************************************************************************)
(* Proofs that Spec keeps the safety properties of Server, for every set   *)
(* of connections, packets and clock readings and for all bounds.          *)
(***************************************************************************)
EXTENDS ServerInvariant, TLAPS

USE NaNAssumption, PacketAssumption, CStrAssumption, TimeAssumption

-----------------------------------------------------------------------------
(* Types, and the cursors that keep Msg(c) a packet. *)

LEMMA EndThreadType ==
  ASSUME ThreadTypeOK, NEW c \in Conn, EndThread(c)
  PROVE  ThreadTypeOK'
BY DEF ThreadTypeOK, EndThread, ThreadPc, Job, NoJob

LEMMA MovedType ==
  ASSUME ThreadTypeOK, NEW c \in Conn, NEW here, NEW next \in ThreadPc, At(c, here, next)
  PROVE  pc' \in [Conn -> ThreadPc]
BY DEF ThreadTypeOK, At

LEMMA UnchangedType ==
  ASSUME TypeOK
  PROVE  /\ UNCHANGED procVars => ProcTypeOK'
         /\ UNCHANGED threadVars => ThreadTypeOK'
         /\ UNCHANGED netVars => NetTypeOK'
         /\ UNCHANGED dbVars => DatabaseTypeOK'
         /\ UNCHANGED faults => faults' \in Nat
         /\ UNCHANGED origin => origin' \in Seq(Conn \X Nat)
<1>1. UNCHANGED procVars => ProcTypeOK'
  BY DEF TypeOK, ProcTypeOK, procVars
<1>2. UNCHANGED threadVars => ThreadTypeOK'
  BY DEF TypeOK, ThreadTypeOK, threadVars
<1>3. UNCHANGED netVars => NetTypeOK'
  BY DEF TypeOK, NetTypeOK, netVars
<1>4. UNCHANGED dbVars => DatabaseTypeOK'
  BY DEF TypeOK, DatabaseTypeOK, dbVars
<1>5. QED
  BY <1>1, <1>2, <1>3, <1>4 DEF TypeOK

LEMMA FaultType == TypeOK /\ Fault => faults' \in Nat
BY DEF TypeOK, Fault

LEMMA MsgType ==
  ASSUME TypeOK, Cursor, NEW c \in Conn, pc[c] \in SavePc
  PROVE  /\ rd[c] \in 1..Len(sent[c])
         /\ Msg(c) \in ClientPacket
BY DEF TypeOK, ThreadTypeOK, NetTypeOK, Cursor, Msg


LEMMA DownType ==
  ASSUME TypeOK, NEW how \in Ended, Down(how), faults' \in Nat
  PROVE  TypeOK'
<1>1. DatabaseTypeOK' /\ origin' \in Seq(Conn \X Nat)
  BY UnchangedType DEF Down
<1>2. ProcTypeOK'
  BY DEF TypeOK, ProcTypeOK, Down
<1>3. ThreadTypeOK'
  BY DEF TypeOK, ThreadTypeOK, Down, ThreadPc, Job, NoJob
<1>4. NetTypeOK'
  BY DEF TypeOK, NetTypeOK, Down
<1>5. QED
  BY <1>1, <1>2, <1>3, <1>4 DEF TypeOK

LEMMA MainType ==
  ASSUME TypeOK, Boot \/ MainStep \/ MainFails \/ Interrupt \/ Crash
  PROVE  TypeOK'
<1> USE UnchangedType
<1>1. CASE Boot
  <2>1. /\ main' \in Running /\ needExit' \in BOOLEAN /\ runs' = runs + 1
        /\ UNCHANGED <<threads, joined, atStop>>
    BY <1>1 DEF Boot, Running
  <2>2. ProcTypeOK'
    BY <2>1 DEF TypeOK, ProcTypeOK
  <2>3. QED
    BY <1>1, <2>2 DEF TypeOK, Boot
<1>2. CASE CreateTables
  BY <1>2 DEF TypeOK, ProcTypeOK, DatabaseTypeOK, CreateTables, CreateTable, Running, Schema
<1>3. CASE Listen
  BY <1>3 DEF TypeOK, ProcTypeOK, Listen, Running
<1>4. CASE LoopCheck
  BY <1>4 DEF TypeOK, ProcTypeOK, LoopCheck, Running
<1>5. CASE AcceptNothing
  BY <1>5 DEF TypeOK, ProcTypeOK, AcceptNothing, Running
<1>6. CASE Join
  BY <1>6 DEF TypeOK, ProcTypeOK, Join
<1>7. CASE Return
  BY <1>7, DownType DEF Return, Ended
<1>8. ASSUME NEW c \in Conn, Accept(c)
      PROVE  TypeOK'
  BY <1>8 DEF TypeOK, ProcTypeOK, ThreadTypeOK, Accept, Running, ThreadPc
<1>9. CASE StartupFails
  BY <1>9, DownType, FaultType DEF StartupFails, Ended
<1>10. ASSUME NEW c \in Conn, AcceptFails(c)
       PROVE  TypeOK'
  BY <1>10, FaultType DEF TypeOK, ProcTypeOK, ThreadTypeOK, AcceptFails, Running, ThreadPc
<1>11. ASSUME NEW c \in Conn, ThreadFails(c)
       PROVE  TypeOK'
  BY <1>11, DownType, FaultType DEF ThreadFails, Ended
<1>12. CASE Interrupt
  BY <1>12 DEF TypeOK, ProcTypeOK, ThreadTypeOK, Interrupt
<1>13. CASE Crash
  BY <1>13, DownType DEF TypeOK, Crash, Ended
<1>14. QED
  BY <1>1, <1>2, <1>3, <1>4, <1>5, <1>6, <1>7, <1>8, <1>9, <1>10, <1>11, <1>12, <1>13
  DEF MainStep, MainFails

LEMMA SelectType ==
  ASSUME TypeOK, NEW c \in Conn
  PROVE  /\ SelectFound(c) => row' \in [Conn -> Nat] /\ rd' \in [Conn -> Nat]
         /\ SelectEmpty(c) => faults' \in Nat /\ rd' \in [Conn -> Nat]
<1>1. SelectFound(c) => row' \in [Conn -> Nat]
  BY DEF TypeOK, ThreadTypeOK, DatabaseTypeOK, SelectFound, ClientIds
<1>2. QED
  BY <1>1, FaultType DEF TypeOK, ThreadTypeOK, SelectFound, SelectEmpty

LEMMA ThreadType ==
  ASSUME TypeOK, Cursor, NEW c \in Conn, ThreadStep(c) \/ SqlError(c)
  PROVE  TypeOK'
<1> USE UnchangedType
<1> TypeOK
  OBVIOUS
<1>1. CASE Handshake(c)
  BY <1>1, EndThreadType DEF TypeOK, ThreadTypeOK, Handshake, At, ThreadPc
<1>2. CASE ThreadCheck(c)
  BY <1>2 DEF TypeOK, ThreadTypeOK, ThreadCheck, At, ThreadPc
<1>3. CASE ReceiveReading(c)
  BY <1>3 DEF TypeOK, ThreadTypeOK, ReceiveReading, Receive, At, ThreadPc, SavePc
<1>4. CASE ReceiveRequest(c)
  <2>1. Len(packets) \in Nat /\ Len(clients) \in Nat
    BY DEF TypeOK, DatabaseTypeOK
  <2>2. job' \in [Conn -> Job]
    <3>1. job' = [job EXCEPT ![c] = [job[c] EXCEPT !.base = Len(packets), !.from = Len(clients)]]
      BY <1>4 DEF TypeOK, ThreadTypeOK, ReceiveRequest
    <3> job[c] \in Job
      BY DEF TypeOK, ThreadTypeOK
    <3>2. [job[c] EXCEPT !.base = Len(packets), !.from = Len(clients)] \in Job
      BY <2>1 DEF Job
    <3>3. QED
      BY <3>1, <3>2 DEF TypeOK, ThreadTypeOK
  <2>3. ThreadTypeOK'
    BY <1>4, <2>2 DEF TypeOK, ThreadTypeOK, ReceiveRequest, Receive, At, ThreadPc, StatPc
  <2>4. QED
    BY <1>4, <2>3 DEF TypeOK, ReceiveRequest, Receive
<1>5. CASE ReceiveIgnored(c)
  BY <1>5 DEF TypeOK, ThreadTypeOK, ReceiveIgnored, Receive, At, ThreadPc
<1>6. CASE ReadFails(c)
  BY <1>6, EndThreadType DEF TypeOK, ReadFails
<1>7. CASE Select(c)
  BY <1>7, SelectType DEF TypeOK, ThreadTypeOK, Select, SelectFound, SelectEmpty, At, ThreadPc, SavePc
<1>8. CASE InsertClient(c)
  <2>1. CASE UniqueViolated(Msg(c).uuid)
    BY <1>8, <2>1, EndThreadType DEF TypeOK, InsertClient
  <2>2. CASE ~UniqueViolated(Msg(c).uuid)
    <3>1. Msg(c).uuid \in Uuid
      BY <1>8, MsgType DEF InsertClient, SavePc, ClientPacket
    <3>2. CStr[Msg(c).uuid] \in Uuid
      BY <3>1
    <3>3. clients' = Append(clients, CStr[Msg(c).uuid]) /\ UNCHANGED <<tables, packets>>
      BY <1>8, <2>2 DEF InsertClient, InsertClientRow
    <3>4. DatabaseTypeOK'
      BY <3>2, <3>3 DEF TypeOK, DatabaseTypeOK
    <3>5. ThreadTypeOK'
      BY <1>8, <2>2 DEF TypeOK, ThreadTypeOK, InsertClient, At, ThreadPc, SavePc
    <3>6. QED
      BY <1>8, <3>4, <3>5 DEF TypeOK, InsertClient
  <2>3. QED
    BY <2>1, <2>2
<1>9. CASE Reselect(c)
  BY <1>9, SelectType, EndThreadType DEF TypeOK, ThreadTypeOK, Reselect, SelectFound, SelectEmpty, At, ThreadPc, SavePc
<1>10. CASE InsertPacket(c)
  <2>1. CASE NotNullViolated(Msg(c))
    BY <1>10, <2>1, EndThreadType DEF TypeOK, InsertPacket
  <2>2. CASE ~NotNullViolated(Msg(c))
    <3>1. Msg(c) \in ClientPacket
      BY <1>10, MsgType DEF InsertPacket, SavePc
    <3> DEFINE r == [client_id |-> row[c], timestamp |-> Msg(c).timestamp,
                     x |-> Msg(c).x, y |-> Msg(c).y]
    <3>2. r \in Row
      BY <2>2, <3>1 DEF TypeOK, ThreadTypeOK, NotNullViolated, ClientPacket, Double, Row
    <3>3. /\ packets' = Append(packets, r) /\ UNCHANGED <<tables, clients>>
          /\ origin' = Append(origin, <<c, rd[c]>>)
          /\ pc' = [pc EXCEPT ![c] = "check"] /\ row' = [row EXCEPT ![c] = 0]
          /\ UNCHANGED <<rd, job, reply>>
      BY <1>10, <2>2 DEF InsertPacket, InsertPacketRow, At
    <3>4. DatabaseTypeOK'
      BY <3>2, <3>3 DEF TypeOK, DatabaseTypeOK
    <3>5. ThreadTypeOK'
      BY <3>3 DEF TypeOK, ThreadTypeOK, ThreadPc
    <3>6. <<c, rd[c]>> \in Conn \X Nat
      BY DEF TypeOK, ThreadTypeOK
    <3>7. origin' \in Seq(Conn \X Nat)
      BY <3>3, <3>6 DEF TypeOK
    <3>8. QED
      BY <1>10, <3>4, <3>5, <3>7 DEF TypeOK, InsertPacket
  <2>3. QED
    BY <2>1, <2>2
<1>11. CASE ListClients(c)
  <2>1. PICK ids \in SUBSET (DOMAIN clients), now \in Time, cut \in BOOLEAN :
          /\ IF cut THEN Fault ELSE 1..job[c].from \subseteq ids /\ UNCHANGED faults
          /\ job' = [job EXCEPT ![c].at = now, ![c].todo = ids, ![c].from = Len(packets),
                                ![c].cut = cut]
    BY <1>11 DEF ListClients
  <2>2. Len(packets) \in Nat /\ ids \in SUBSET Nat /\ now \in Int
    BY DEF TypeOK, DatabaseTypeOK
  <2>3. job' \in [Conn -> Job]
    <3> DEFINE j == [job[c] EXCEPT !.at = now, !.todo = ids, !.from = Len(packets), !.cut = cut]
    <3>1. job' = [job EXCEPT ![c] = j]
      BY <2>1 DEF TypeOK, ThreadTypeOK
    <3> job[c] \in Job
      BY DEF TypeOK, ThreadTypeOK
    <3>2. j \in Job
      BY <2>2 DEF Job
    <3>3. QED
      BY <3>1, <3>2 DEF TypeOK, ThreadTypeOK
  <2>4. ThreadTypeOK'
    BY <1>11, <2>3 DEF TypeOK, ThreadTypeOK, ListClients, At, ThreadPc, StatPc
  <2>5. faults' \in Nat
    BY <2>1, FaultType DEF TypeOK
  <2>6. QED
    BY <1>11, <2>4, <2>5 DEF TypeOK, ListClients
<1>12. CASE ScanPackets(c)
  <2>1. PICK id \in job[c].todo, n \in 0..Len(packets), cut \in BOOLEAN :
          /\ IF cut THEN Fault ELSE job[c].from <= n /\ UNCHANGED faults
          /\ job' = [job EXCEPT ![c].todo = @ \ {id}, ![c].from = Len(packets),
                                ![c].scans = @ \cup {[id |-> id, upTo |-> n]},
                                ![c].cut = @ \/ cut]
    BY <1>12 DEF ScanPackets
  <2>2. Len(packets) \in Nat
    BY DEF TypeOK, DatabaseTypeOK
  <2>3. job[c] \in Job
    BY DEF TypeOK, ThreadTypeOK
  <2>4. [id |-> id, upTo |-> n] \in Scan
    BY <2>2, <2>3 DEF Job, Scan
  <2>5. job' \in [Conn -> Job]
    <3> DEFINE j == [job[c] EXCEPT !.todo = @ \ {id}, !.from = Len(packets),
                                   !.scans = @ \cup {[id |-> id, upTo |-> n]},
                                   !.cut = @ \/ cut]
    <3>1. job' = [job EXCEPT ![c] = j]
      BY <2>1 DEF TypeOK, ThreadTypeOK
    <3>2. /\ job[c].todo \ {id} \in SUBSET Nat
          /\ job[c].scans \cup {[id |-> id, upTo |-> n]} \in SUBSET Scan
      BY <2>3, <2>4 DEF Job
    <3>3. (job[c].cut \/ cut) \in BOOLEAN
      OBVIOUS
    <3>4. j \in Job
      BY <2>2, <2>3, <3>2, <3>3 DEF Job
    <3>5. QED
      BY <3>1, <3>4 DEF TypeOK, ThreadTypeOK
  <2>6. ThreadTypeOK'
    BY <1>12, <2>5 DEF TypeOK, ThreadTypeOK, ScanPackets
  <2>7. faults' \in Nat
    BY <2>1, FaultType DEF TypeOK
  <2>8. QED
    BY <1>12, <2>6, <2>7 DEF TypeOK, ScanPackets
<1>13. CASE WriteReply(c)
  <2>1. CASE peer[c] = "reset"
    BY <1>13, <2>1, EndThreadType DEF TypeOK, WriteReply
  <2>2. CASE peer[c] # "reset"
    <3>1. job[c] \in Job
      BY DEF TypeOK, ThreadTypeOK
    <3> DEFINE r == [base |-> job[c].base, at |-> job[c].at,
                     scans |-> job[c].scans, cut |-> job[c].cut]
    <3>2. /\ reply' = [reply EXCEPT ![c] = r]
          /\ pc' = [pc EXCEPT ![c] = "check"] /\ job' = [job EXCEPT ![c] = NoJob]
          /\ UNCHANGED <<rd, row>>
      BY <1>13, <2>2 DEF WriteReply, At
    <3>3. r \in Reply /\ NoJob \in Job
      BY <3>1 DEF Job, Reply, NoJob
    <3>4. ThreadTypeOK'
      BY <3>2, <3>3 DEF TypeOK, ThreadTypeOK, ThreadPc
    <3>5. QED
      BY <1>13, <3>4 DEF TypeOK, WriteReply
  <2>3. QED
    BY <2>1, <2>2
<1>14. CASE SqlError(c)
  BY <1>14, EndThreadType, FaultType DEF TypeOK, SqlError
<1>15. QED
  BY <1>1, <1>2, <1>3, <1>4, <1>5, <1>6, <1>7, <1>8, <1>9, <1>10, <1>11, <1>12, <1>13, <1>14
  DEF ThreadStep

LEMMA PeerType ==
  ASSUME TypeOK, NEW c \in Conn, PeerConnect(c) \/ PeerStep(c)
  PROVE  TypeOK'
<1> USE UnchangedType
<1>1. CASE PeerConnect(c)
  BY <1>1 DEF TypeOK, NetTypeOK, PeerConnect
<1>2. CASE PeerUpgrade(c)
  BY <1>2 DEF TypeOK, NetTypeOK, PeerUpgrade
<1>3. ASSUME NEW p \in Packet, PeerSend(c, p)
      PROVE  TypeOK'
  BY <1>3 DEF TypeOK, NetTypeOK, PeerSend
<1>4. ASSUME NEW how \in {"closed", "reset"}, PeerLeave(c, how)
      PROVE  TypeOK'
  BY <1>4 DEF TypeOK, NetTypeOK, PeerLeave
<1>5. CASE PeerDeafens(c)
  BY <1>5 DEF TypeOK, NetTypeOK, PeerDeafens
<1>6. QED
  BY <1>1, <1>2, <1>3, <1>4, <1>5 DEF PeerStep

-----------------------------------------------------------------------------
(* What a step does to the readings.  Six kinds of steps are told apart; the   *)
(* rest of the proof is about these, not about the thirty actions.             *)

\* A step that neither reads, looks up, registers, stores nor sends: threads
\* and the main thread move on, or connections end.
Keeps ==
  /\ UNCHANGED <<rd, sent, clients, packets, origin>>
  /\ \A d \in Conn :
       /\ peer'[d] = "none" => peer[d] = "none"
       /\ pc[d] = "none" /\ pc'[d] # "none" => peer[d] # "none"
       /\ pc[d] = "done" => pc'[d] = "done"
       /\ pc'[d] # "done" =>
            /\ pc'[d] \in {"none", "handshake"} => pc[d] \in {"none", "handshake"}
            /\ pc'[d] \in SavePc <=> pc[d] \in SavePc
            /\ pc'[d] = "insertPacket" => pc[d] = "insertPacket" /\ row'[d] = row[d]

Moves(c, next) == pc' = [pc EXCEPT ![c] = next] /\ UNCHANGED peer

Reads(c) ==
  /\ pc[c] = "read" /\ rd[c] < Len(sent[c])
  /\ rd' = [rd EXCEPT ![c] = @ + 1]
  /\ \/ Moves(c, "select") /\ IsReading(sent[c][rd[c] + 1])
     \/ \E next \in {"check", "clients"} :
          Moves(c, next) /\ ~IsReading(sent[c][rd[c] + 1])
  /\ UNCHANGED <<row, sent, clients, packets, origin>>

Finds(c) ==
  /\ pc[c] \in {"select", "reselect"} /\ Moves(c, "insertPacket")
  /\ \E id \in ClientIds(Msg(c).uuid) : row' = [row EXCEPT ![c] = id]
  /\ UNCHANGED <<rd, sent, clients, packets, origin>>

Registers(c) ==
  /\ pc[c] = "insertClient" /\ Moves(c, "reselect")
  /\ ClientIds(Msg(c).uuid) = {}
  /\ clients' = Append(clients, CStr[Msg(c).uuid])
  /\ UNCHANGED <<rd, row, sent, packets, origin>>

Stores(c) ==
  /\ pc[c] = "insertPacket" /\ Moves(c, "check")
  /\ packets' = Append(packets, [client_id |-> row[c], timestamp |-> Msg(c).timestamp,
                                 x |-> Msg(c).x, y |-> Msg(c).y])
  /\ origin' = Append(origin, <<c, rd[c]>>)
  /\ row' = [row EXCEPT ![c] = 0]
  /\ UNCHANGED <<rd, sent, clients>>

Sends(c) ==
  /\ \E p \in Packet : sent' = [sent EXCEPT ![c] = Append(@, p)]
  /\ pc[c] \notin {"none", "handshake", "done"}
  /\ UNCHANGED <<pc, peer, rd, row, clients, packets, origin>>

LEMMA DownKeeps ==
  ASSUME TypeOK, Connected, NEW how, Down(how)
  PROVE  Keeps
BY DEF TypeOK, ThreadTypeOK, NetTypeOK, Connected, Down, Keeps, dbVars, SavePc

LEMMA EndThreadKeeps ==
  ASSUME TypeOK, NEW c \in Conn, EndThread(c), pc[c] # "none",
         UNCHANGED <<netVars, dbVars, origin>>
  PROVE  Keeps
BY DEF TypeOK, ThreadTypeOK, EndThread, Keeps, netVars, dbVars, SavePc

LEMMA MainKeeps ==
  ASSUME TypeOK, Connected, Boot \/ MainStep \/ MainFails \/ Interrupt \/ Crash
  PROVE  Keeps
<1>1. CASE Boot \/ CreateTables \/ Listen \/ LoopCheck \/ AcceptNothing \/ Join \/ Interrupt
  <2>1. UNCHANGED <<threadVars, netVars, clients, packets, origin>>
    BY <1>1 DEF Boot, CreateTables, CreateTable, Listen, LoopCheck, AcceptNothing, Join,
                Interrupt, dbVars
  <2>2. QED
    BY <2>1 DEF Keeps, threadVars, netVars
<1>2. CASE Return \/ StartupFails \/ Crash \/ \E c \in Conn : ThreadFails(c)
  BY <1>2, DownKeeps DEF Return, StartupFails, Crash, ThreadFails
<1>3. ASSUME NEW c \in Conn, Accept(c) \/ AcceptFails(c)
      PROVE  Keeps
  BY <1>3 DEF TypeOK, ThreadTypeOK, Accept, AcceptFails, Pending, Keeps, netVars, dbVars, SavePc
<1>4. QED
  BY <1>1, <1>2, <1>3 DEF MainStep, MainFails

LEMMA ThreadEffect ==
  ASSUME TypeOK, NEW c \in Conn, ThreadStep(c) \/ SqlError(c)
  PROVE  Keeps \/ Reads(c) \/ Finds(c) \/ Registers(c) \/ Stores(c)
<1> USE DEF At, netVars, dbVars
<1>1. CASE Handshake(c)
  BY <1>1, EndThreadKeeps DEF TypeOK, ThreadTypeOK, Handshake, Keeps, SavePc
<1>2. CASE ThreadCheck(c)
  BY <1>2 DEF TypeOK, ThreadTypeOK, ThreadCheck, Keeps, SavePc
<1>3. CASE ReceiveReading(c)
  BY <1>3 DEF ReceiveReading, Receive, Reads, Moves
<1>4. CASE ReceiveRequest(c)
  BY <1>4 DEF ReceiveRequest, Receive, Reads, Moves, IsReading
<1>5. CASE ReceiveIgnored(c)
  BY <1>5 DEF ReceiveIgnored, Receive, Reads, Moves
<1>6. CASE ReadFails(c)
  BY <1>6, EndThreadKeeps DEF ReadFails
<1>7. CASE Select(c)
  <2>1. CASE At(c, "select", "insertPacket") /\ SelectFound(c)
    BY <2>1 DEF SelectFound, Finds, Moves
  <2>2. CASE At(c, "select", "insertClient") /\ SelectEmpty(c) /\ UNCHANGED <<row, job>>
    BY <2>2 DEF TypeOK, ThreadTypeOK, SelectEmpty, Keeps, SavePc
  <2>3. QED
    BY <1>7, <2>1, <2>2 DEF Select
<1>8. CASE InsertClient(c)
  <2>1. CASE UniqueViolated(Msg(c).uuid)
    BY <1>8, <2>1, EndThreadKeeps DEF InsertClient
  <2>2. CASE ~UniqueViolated(Msg(c).uuid)
    BY <1>8, <2>2 DEF InsertClient, InsertClientRow, UniqueViolated, Registers, Moves
  <2>3. QED
    BY <2>1, <2>2
<1>9. CASE Reselect(c)
  <2>1. CASE At(c, "reselect", "insertPacket") /\ SelectFound(c)
    BY <2>1 DEF SelectFound, Finds, Moves
  <2>2. CASE pc[c] = "reselect" /\ SelectEmpty(c) /\ EndThread(c)
    BY <2>2, EndThreadKeeps DEF SelectEmpty
  <2>3. QED
    BY <1>9, <2>1, <2>2 DEF Reselect
<1>10. CASE InsertPacket(c)
  <2>1. CASE NotNullViolated(Msg(c))
    BY <1>10, <2>1, EndThreadKeeps DEF InsertPacket
  <2>2. CASE ~NotNullViolated(Msg(c))
    BY <1>10, <2>2 DEF InsertPacket, InsertPacketRow, Stores, Moves
  <2>3. QED
    BY <2>1, <2>2
<1>11. CASE ListClients(c)
  BY <1>11 DEF TypeOK, ThreadTypeOK, ListClients, Keeps, SavePc
<1>12. CASE ScanPackets(c)
  BY <1>12 DEF TypeOK, ThreadTypeOK, ScanPackets, Keeps, SavePc
<1>13. CASE WriteReply(c)
  <2>1. CASE peer[c] = "reset"
    BY <1>13, <2>1, EndThreadKeeps DEF WriteReply
  <2>2. CASE peer[c] # "reset"
    BY <1>13, <2>2 DEF TypeOK, ThreadTypeOK, WriteReply, Keeps, SavePc
  <2>3. QED
    BY <2>1, <2>2
<1>14. CASE SqlError(c)
  BY <1>14, EndThreadKeeps DEF SqlError, SavePc
<1>15. QED
  BY <1>1, <1>2, <1>3, <1>4, <1>5, <1>6, <1>7, <1>8, <1>9, <1>10, <1>11, <1>12, <1>13, <1>14
  DEF ThreadStep

LEMMA PeerEffect ==
  ASSUME TypeOK, NEW c \in Conn, PeerConnect(c) \/ PeerStep(c)
  PROVE  Keeps \/ Sends(c)
<1> USE DEF TypeOK, NetTypeOK, threadVars, dbVars
<1>1. CASE PeerConnect(c)
  BY <1>1 DEF PeerConnect, Keeps
<1>2. CASE PeerUpgrade(c)
  BY <1>2 DEF PeerUpgrade, Keeps
<1>3. CASE \E p \in Packet : PeerSend(c, p)
  BY <1>3 DEF PeerSend, Sends
<1>4. CASE \E how \in {"closed", "reset"} : PeerLeave(c, how)
  BY <1>4 DEF PeerLeave, Keeps
<1>5. CASE PeerDeafens(c)
  BY <1>5 DEF PeerDeafens, Keeps
<1>6. QED
  BY <1>1, <1>2, <1>3, <1>4, <1>5 DEF PeerStep

LEMMA Effect ==
  ASSUME TypeOK, Connected, [Next]_vars
  PROVE  \/ Keeps
         \/ \E c \in Conn : Reads(c) \/ Finds(c) \/ Registers(c) \/ Stores(c) \/ Sends(c)
<1>1. CASE UNCHANGED vars
  BY <1>1 DEF vars, threadVars, netVars, dbVars, Keeps
<1>2. CASE Finished
  BY <1>2 DEF Finished, vars, threadVars, netVars, dbVars, Keeps
<1>3. QED
  BY <1>1, <1>2, MainKeeps, ThreadEffect, PeerEffect DEF Next

-----------------------------------------------------------------------------
(* The invariants of the readings. *)

LEMMA SendsExtends ==
  ASSUME TypeOK, NEW c \in Conn, Sends(c), NEW d \in Conn
  PROVE  /\ Len(sent'[d]) \in Nat /\ Len(sent'[d]) >= Len(sent[d])
         /\ \A k \in 1..Len(sent[d]) : sent'[d][k] = sent[d][k]
BY DEF TypeOK, NetTypeOK, Sends

LEMMA CursorStep ==
  ASSUME TypeOK, Cursor, Connected, [Next]_vars
  PROVE  Cursor' /\ Connected'
<1> USE DEF TypeOK, ThreadTypeOK, NetTypeOK, Cursor, Connected, SavePc
<1>1. CASE Keeps
  BY <1>1 DEF Keeps, Msg
<1>2. ASSUME NEW c \in Conn, Reads(c)
      PROVE  Cursor' /\ Connected'
  BY <1>2 DEF Reads, Moves, Msg
<1>3. ASSUME NEW c \in Conn, Finds(c)
      PROVE  Cursor' /\ Connected'
  BY <1>3 DEF Finds, Moves, Msg
<1>4. ASSUME NEW c \in Conn, Registers(c)
      PROVE  Cursor' /\ Connected'
  BY <1>4 DEF Registers, Moves, Msg
<1>5. ASSUME NEW c \in Conn, Stores(c)
      PROVE  Cursor' /\ Connected'
  BY <1>5 DEF Stores, Moves, Msg
<1>6. ASSUME NEW c \in Conn, Sends(c)
      PROVE  Cursor' /\ Connected'
  <2>1. \A d \in Conn : rd[d] \in Nat /\ rd[d] <= Len(sent'[d])
    BY <1>6, SendsExtends
  <2>2. \A d \in Conn : pc[d] \in SavePc => sent'[d][rd[d]] = sent[d][rd[d]]
    BY <1>6, SendsExtends
  <2>3. QED
    BY <1>6, <2>1, <2>2 DEF Sends, Msg
<1>7. QED
  BY <1>1, <1>2, <1>3, <1>4, <1>5, <1>6, Effect

LEMMA InitBase == Init => TypeOK /\ Cursor /\ Connected
<1> SUFFICES ASSUME Init PROVE TypeOK /\ Cursor /\ Connected
  OBVIOUS
<1>1. DatabaseTypeOK
  BY DEF Init, DatabaseInit, DatabaseTypeOK
<1>2. ThreadTypeOK /\ NetTypeOK
  BY DEF Init, ThreadTypeOK, NetTypeOK, ThreadPc, Job, NoJob, Reply, NoReply
<1>3. ProcTypeOK
  <2>1. rd \in [Conn -> Nat]
    BY DEF Init
  <2>2. atStop \in [rd : [Conn -> Nat], threads : Nat]
    BY <2>1 DEF Init
  <2>3. needExit \in BOOLEAN
    BY DEF Init
  <2>4. main = "off" /\ threads \in Seq(Conn) /\ joined = 0 /\ runs = 0
    BY DEF Init
  <2>5. QED
    BY <2>2, <2>3, <2>4 DEF ProcTypeOK
<1>4. Cursor /\ Connected
  BY DEF Init, Cursor, Connected, SavePc
<1>5. QED
  BY <1>1, <1>2, <1>3, <1>4 DEF Init, TypeOK

LEMMA BaseStep ==
  ASSUME TypeOK, Cursor, Connected, [Next]_vars
  PROVE  TypeOK' /\ Cursor' /\ Connected'
<1>1. TypeOK'
  <2>1. CASE UNCHANGED vars \/ Finished
    BY <2>1, UnchangedType DEF TypeOK, Finished, vars
  <2>2. CASE Boot \/ MainStep \/ MainFails \/ Interrupt \/ Crash
    BY <2>2, MainType
  <2>3. ASSUME NEW c \in Conn, ThreadStep(c) \/ SqlError(c)
        PROVE  TypeOK'
    BY <2>3, ThreadType
  <2>4. ASSUME NEW c \in Conn, PeerConnect(c) \/ PeerStep(c)
        PROVE  TypeOK'
    BY <2>4, PeerType
  <2>5. QED
    BY <2>1, <2>2, <2>3, <2>4 DEF Next
<1>2. QED
  BY <1>1, CursorStep

\* Types are kept, a thread reads only what was sent and saves only readings,
\* and it exists only for a peer that connected.
THEOREM TypeCorrect == Spec => [](TypeOK /\ Cursor /\ Connected)
<1>1. QED
  BY InitBase, BaseStep, PTL DEF Spec

\* The constructor's UNIQUE column, and the lookup before the insertion.
LEMMA ClientsStep ==
  ASSUME TypeOK, Cursor, Connected, UniqueClients, RowIsClient, [Next]_vars
  PROVE  UniqueClients' /\ RowIsClient'
<1> USE DEF TypeOK, ThreadTypeOK, NetTypeOK, DatabaseTypeOK
<1>1. CASE Keeps
  BY <1>1 DEF UniqueClients, RowIsClient, Keeps, Msg
<1>2. ASSUME NEW c \in Conn, Reads(c)
      PROVE  UniqueClients' /\ RowIsClient'
  BY <1>2 DEF UniqueClients, RowIsClient, Reads, Moves, Msg
<1>3. ASSUME NEW c \in Conn, Finds(c)
      PROVE  UniqueClients' /\ RowIsClient'
  BY <1>3 DEF UniqueClients, RowIsClient, Finds, Moves, Msg, ClientIds
<1>4. ASSUME NEW c \in Conn, Registers(c)
      PROVE  UniqueClients' /\ RowIsClient'
  <2>1. /\ Len(clients') = Len(clients) + 1
        /\ \A i \in DOMAIN clients : clients'[i] = clients[i]
        /\ clients'[Len(clients) + 1] = CStr[Msg(c).uuid]
        /\ DOMAIN clients' = 1..(Len(clients) + 1)
    BY <1>4 DEF Registers
  <2>2. UniqueClients'
    BY <1>4, <2>1 DEF UniqueClients, Registers, ClientIds
  <2>3. RowIsClient'
    BY <1>4, <2>1 DEF RowIsClient, Registers, Moves, Msg
  <2>4. QED
    BY <2>2, <2>3
<1>5. ASSUME NEW c \in Conn, Stores(c)
      PROVE  UniqueClients' /\ RowIsClient'
  BY <1>5 DEF UniqueClients, RowIsClient, Stores, Moves, Msg
<1>6. ASSUME NEW c \in Conn, Sends(c)
      PROVE  UniqueClients' /\ RowIsClient'
  BY <1>6 DEF UniqueClients, RowIsClient, Sends, Msg, Cursor, SavePc
<1>7. QED
  BY <1>1, <1>2, <1>3, <1>4, <1>5, <1>6, Effect

LEMMA OriginType ==
  ASSUME TypeOK, Cursor, StoredAreSettled, NEW i \in DOMAIN origin
  PROVE  /\ origin[i] = <<origin[i][1], origin[i][2]>>
         /\ origin[i][1] \in Conn
         /\ origin[i][2] \in 1..rd[origin[i][1]]
         /\ origin[i][2] \in 1..Len(sent[origin[i][1]])
<1>1. origin[i] \in Conn \X Nat
  BY DEF TypeOK
<1>2. \A c \in Conn : rd[c] \in Nat /\ Len(sent[c]) \in Nat /\ rd[c] <= Len(sent[c])
  BY DEF TypeOK, ThreadTypeOK, NetTypeOK, Cursor
<1>3. \A c \in Conn : Settled[c] \in Int /\ Settled[c] <= rd[c]
  BY <1>2 DEF Settled
<1>4. origin[i][2] \in 1..Settled[origin[i][1]]
  BY DEF StoredAreSettled
<1>5. QED
  BY <1>1, <1>2, <1>3, <1>4

\* The rows appended for a packet, after which the older ones are as before.
LEMMA StoresAppends ==
  ASSUME TypeOK, NEW c \in Conn, Stores(c)
  PROVE  /\ Len(origin) \in Nat /\ Len(packets) \in Nat
         /\ DOMAIN origin = 1..Len(origin) /\ DOMAIN origin' = 1..(Len(origin) + 1)
         /\ DOMAIN packets = 1..Len(packets) /\ DOMAIN packets' = 1..(Len(packets) + 1)
         /\ Len(origin') = Len(origin) + 1 /\ Len(packets') = Len(packets) + 1
         /\ \A i \in DOMAIN origin : origin'[i] = origin[i]
         /\ origin'[Len(origin) + 1] = <<c, rd[c]>>
         /\ \A i \in DOMAIN packets : packets'[i] = packets[i]
         /\ packets'[Len(packets) + 1].client_id = row[c]
BY DEF TypeOK, DatabaseTypeOK, Stores

LEMMA AttributionStep ==
  ASSUME TypeOK, Cursor, Connected, Readings, [Next]_vars
  PROVE  Attribution'
<1> USE DEF TypeOK, DatabaseTypeOK, Readings
<1>1. CASE UNCHANGED <<sent, clients, packets, origin>>
  BY <1>1 DEF Attribution
<1>2. ASSUME NEW c \in Conn, Registers(c)
      PROVE  Attribution'
  <2>1. \A i \in DOMAIN clients : i \in DOMAIN clients' /\ clients'[i] = clients[i]
    BY <1>2 DEF Registers
  <2>2. QED
    BY <1>2, <2>1 DEF Attribution, Registers
<1>3. ASSUME NEW c \in Conn, Stores(c)
      PROVE  Attribution'
  <2>1. row[c] \in DOMAIN clients /\ clients[row[c]] = CStr[sent[c][rd[c]].uuid]
    BY <1>3 DEF RowIsClient, Stores, Msg
  <2>2. UNCHANGED <<sent, clients>>
    BY <1>3 DEF Stores
  <2> DEFINE new == Len(origin) + 1
  <2>3. /\ Len(origin') = new /\ Len(packets') = new
        /\ \A i \in DOMAIN packets' : i \in DOMAIN packets \/ i = new
        /\ \A i \in DOMAIN packets : packets'[i] = packets[i] /\ origin'[i] = origin[i]
        /\ origin'[new][1] = c /\ origin'[new][2] = rd[c]
        /\ packets'[new].client_id = row[c]
    BY <1>3, StoresAppends DEF Attribution
  <2>4. ASSUME NEW i \in DOMAIN packets'
        PROVE  /\ packets'[i].client_id \in DOMAIN clients
               /\ clients[packets'[i].client_id] = CStr[sent[origin'[i][1]][origin'[i][2]].uuid]
    <3>1. CASE i = new
      BY <2>1, <2>3, <3>1
    <3>2. CASE i \in DOMAIN packets
      BY <2>3, <3>2 DEF Attribution
    <3>3. QED
      BY <2>3, <3>1, <3>2
  <2>5. QED
    BY <2>2, <2>3, <2>4 DEF Attribution
<1>4. ASSUME NEW c \in Conn, Sends(c)
      PROVE  Attribution'
  <2>1. \A i \in DOMAIN origin :
          sent'[origin[i][1]][origin[i][2]] = sent[origin[i][1]][origin[i][2]]
    BY <1>4, OriginType, SendsExtends
  <2>2. DOMAIN packets = DOMAIN origin
    BY DEF Attribution
  <2>3. QED
    BY <1>4, <2>1, <2>2 DEF Attribution, Sends
<1>5. QED
  BY <1>1, <1>2, <1>3, <1>4, Effect DEF Keeps, Reads, Finds

LEMMA SettledStep ==
  ASSUME TypeOK, Cursor, Connected, Readings, [Next]_vars
  PROVE  StoredAreSettled' /\ StoredOnceInOrder'
<1>1. \A d \in Conn : pc[d] \in ThreadPc /\ rd[d] \in Nat /\ rd'[d] \in Nat
  BY BaseStep DEF TypeOK, ThreadTypeOK
<1>2. \A i \in DOMAIN origin :
        origin[i][1] \in Conn /\ origin[i][2] \in 1..Settled[origin[i][1]]
  BY OriginType DEF Readings, StoredAreSettled
<1>3. ASSUME UNCHANGED origin, \A d \in Conn : Settled[d] <= Settled'[d]
      PROVE  StoredAreSettled' /\ StoredOnceInOrder'
  <2>1. \A d \in Conn : Settled[d] \in Int /\ Settled'[d] \in Int
    BY <1>1 DEF Settled
  <2>2. QED
    BY <1>2, <1>3, <2>1 DEF Readings, StoredAreSettled, StoredOnceInOrder
<1>4. CASE Keeps
  <2>1. \A d \in Conn : Settled[d] <= Settled'[d]
    BY <1>1, <1>4 DEF Keeps, Settled, SavePc
  <2>2. QED
    BY <1>3, <1>4, <2>1 DEF Keeps
<1>5. ASSUME NEW c \in Conn, Reads(c) \/ Finds(c) \/ Registers(c) \/ Sends(c)
      PROVE  StoredAreSettled' /\ StoredOnceInOrder'
  <2>1. \A d \in Conn : Settled[d] <= Settled'[d]
    BY <1>5 DEF TypeOK, ThreadTypeOK, Reads, Finds, Registers, Sends, Moves, Settled, SavePc
  <2>2. QED
    BY <1>3, <1>5, <2>1 DEF Reads, Finds, Registers, Sends
<1>6. ASSUME NEW c \in Conn, Stores(c)
      PROVE  StoredAreSettled' /\ StoredOnceInOrder'
  <2>1. /\ rd[c] >= 1 /\ Settled[c] = rd[c] - 1 /\ Settled'[c] = rd[c]
        /\ \A d \in Conn : Settled[d] \in Int /\ Settled'[d] \in Int /\ Settled[d] <= Settled'[d]
    BY <1>6 DEF TypeOK, ThreadTypeOK, Stores, Moves, Settled, SavePc, Cursor
  <2> DEFINE new == Len(origin) + 1
  <2>2. /\ \A i \in DOMAIN origin' : i = new \/ i \in DOMAIN origin
        /\ new \in Nat /\ \A i \in DOMAIN origin : i < new /\ origin'[i] = origin[i]
        /\ origin'[new][1] = c /\ origin'[new][2] = rd[c]
    BY <1>6, StoresAppends
  <2>3. ASSUME NEW i \in DOMAIN origin'
        PROVE  origin'[i][2] \in 1..Settled'[origin'[i][1]]
    <3>1. CASE i = new
      <4>1. origin'[i][1] = c /\ origin'[i][2] = rd[c]
        BY <2>2, <3>1
      <4>2. QED
        BY <1>1, <2>1, <4>1 DEF Settled
    <3>2. CASE i \in DOMAIN origin
      BY <1>2, <2>1, <2>2, <3>2
    <3>3. QED
      BY <2>2, <3>1, <3>2
  <2>4. StoredAreSettled'
    BY <2>3 DEF StoredAreSettled
  <2>5. \A i \in DOMAIN origin : origin[i][1] = c => origin[i][2] < rd[c]
    BY <1>1, <1>2, <2>1
  <2>6. StoredOnceInOrder'
    <3> SUFFICES ASSUME NEW i \in DOMAIN origin', NEW j \in DOMAIN origin',
                        i < j, origin'[i][1] = origin'[j][1]
                 PROVE  origin'[i][2] < origin'[j][2]
      BY DEF StoredOnceInOrder
    <3>1. i \in Nat /\ j \in Nat /\ i # new
      BY <1>6, <2>2, StoresAppends
    <3>2. i \in DOMAIN origin /\ origin'[i] = origin[i]
      BY <2>2, <3>1
    <3>3. CASE j = new
      BY <2>2, <2>5, <3>2, <3>3
    <3>4. CASE j \in DOMAIN origin
      BY <2>2, <3>2, <3>4 DEF Readings, StoredOnceInOrder
    <3>5. QED
      BY <2>2, <3>3, <3>4
  <2>7. QED
    BY <2>4, <2>6
<1>7. QED
  BY <1>4, <1>5, <1>6, Effect

LEMMA StoredStep ==
  ASSUME TypeOK, Cursor, Connected, Readings, [Next]_vars
  PROVE  SettledAreStored'
<1> DEFINE IsStored(c, k) == \E i \in DOMAIN origin : origin[i] = <<c, k>>
<1>1. \A d \in Conn : rd[d] \in Nat /\ rd[d] <= Len(sent[d]) /\ Len(sent[d]) \in Nat
  BY DEF TypeOK, ThreadTypeOK, NetTypeOK, Cursor
<1>2. \A d \in Conn : pc[d] # "done" =>
        \A k \in 1..Settled[d] : IsReading(sent[d][k]) => IsStored(d, k)
  BY DEF Readings, SettledAreStored
<1>3. CASE Keeps
  <2>1. \A d \in Conn : pc'[d] # "done" => pc[d] # "done" /\ Settled'[d] = Settled[d]
    BY <1>3 DEF Keeps, Settled
  <2>2. UNCHANGED <<sent, origin>>
    BY <1>3 DEF Keeps
  <2>3. QED
    BY <1>2, <2>1, <2>2 DEF SettledAreStored
<1>4. ASSUME NEW c \in Conn, Reads(c)
      PROVE  SettledAreStored'
  <2>1. /\ \A d \in Conn : pc'[d] # "done" => pc[d] # "done"
        /\ \A d \in Conn \ {c} : Settled'[d] = Settled[d]
        /\ Settled[c] = rd[c]
        /\ \/ Settled'[c] = rd[c]
           \/ Settled'[c] = rd[c] + 1 /\ ~IsReading(sent[c][rd[c] + 1])
    BY <1>1, <1>4 DEF TypeOK, ThreadTypeOK, Reads, Moves, Settled, SavePc
  <2>2. UNCHANGED <<sent, origin>>
    BY <1>4 DEF Reads
  <2>3. ASSUME NEW d \in Conn, pc'[d] # "done", NEW k \in 1..Settled'[d], IsReading(sent[d][k])
        PROVE  k \in 1..Settled[d]
    BY <1>1, <2>1, <2>3
  <2>4. QED
    BY <1>2, <2>1, <2>2, <2>3 DEF SettledAreStored
<1>5. ASSUME NEW c \in Conn, Finds(c) \/ Registers(c)
      PROVE  SettledAreStored'
  <2>1. \A d \in Conn : pc'[d] # "done" => pc[d] # "done" /\ Settled'[d] = Settled[d]
    BY <1>5 DEF TypeOK, ThreadTypeOK, Finds, Registers, Moves, Settled, SavePc
  <2>2. UNCHANGED <<sent, origin>>
    BY <1>5 DEF Finds, Registers
  <2>3. QED
    BY <1>2, <2>1, <2>2 DEF SettledAreStored
<1>6. ASSUME NEW c \in Conn, Stores(c)
      PROVE  SettledAreStored'
  <2>1. /\ \A d \in Conn : pc'[d] # "done" => pc[d] # "done"
        /\ \A d \in Conn \ {c} : Settled'[d] = Settled[d]
        /\ Settled[c] = rd[c] - 1 /\ Settled'[c] = rd[c]
    BY <1>1, <1>6 DEF TypeOK, ThreadTypeOK, Stores, Moves, Settled, SavePc
  <2>2. \A d \in Conn, k \in Nat : IsStored(d, k) => IsStored(d, k)'
    BY <1>6, StoresAppends
  <2>3. IsStored(c, rd[c])'
    <3>1. /\ Len(origin) + 1 \in DOMAIN origin'
          /\ origin'[Len(origin) + 1] = <<c, rd[c]>> /\ UNCHANGED rd
      BY <1>6, StoresAppends DEF Stores
    <3>2. QED
      BY <3>1
  <2>4. UNCHANGED <<sent, rd>>
    BY <1>6 DEF Stores
  <2>5. ASSUME NEW d \in Conn, pc'[d] # "done", NEW k \in 1..Settled'[d], IsReading(sent'[d][k])
        PROVE  \E i \in DOMAIN origin' : origin'[i] = <<d, k>>
    <3>1. CASE d = c /\ k = rd[c]
      BY <2>3, <2>4, <3>1
    <3>2. CASE ~(d = c /\ k = rd[c])
      <4>1. k \in 1..Settled[d] /\ k \in Nat
        BY <1>1, <2>1, <3>2
      <4>2. IsStored(d, k)
        BY <1>2, <2>1, <2>4, <2>5, <4>1
      <4>3. QED
        BY <2>2, <4>1, <4>2
    <3>3. QED
      BY <3>1, <3>2
  <2>6. QED
    BY <2>5 DEF SettledAreStored
<1>7. ASSUME NEW c \in Conn, Sends(c)
      PROVE  SettledAreStored'
  <2>1. UNCHANGED <<pc, rd, origin>> /\ Settled' = Settled
    BY <1>7 DEF Sends, Settled
  <2>2. \A d \in Conn : Settled[d] \in Int /\ Settled[d] <= Len(sent[d])
    BY <1>1 DEF Settled
  <2>3. \A d \in Conn : \A k \in 1..Settled[d] : sent'[d][k] = sent[d][k]
    BY <1>1, <1>7, <2>2, SendsExtends
  <2>4. QED
    BY <1>2, <2>1, <2>3 DEF SettledAreStored
<1>8. QED
  BY <1>3, <1>4, <1>5, <1>6, <1>7, Effect

LEMMA InitReadings == Init => Readings
<1> SUFFICES ASSUME Init PROVE Readings
  OBVIOUS
<1>1. /\ \A c \in Conn : pc[c] = "none" /\ rd[c] = 0
      /\ clients = <<>> /\ packets = <<>> /\ origin = <<>>
  BY DEF Init, DatabaseInit
<1>2. UniqueClients /\ RowIsClient /\ Attribution /\ StoredOnceInOrder /\ StoredAreSettled
  BY <1>1 DEF UniqueClients, RowIsClient, Attribution, StoredOnceInOrder, StoredAreSettled
<1>3. SettledAreStored
  BY <1>1 DEF SettledAreStored, Settled, SavePc
<1>4. QED
  BY <1>2, <1>3 DEF Readings

\* The inductive invariant of the readings: threads that look up, register and
\* insert in separate statements never disturb one another's rows.
THEOREM ReadingsCorrect == Spec => []Readings
<1>1. TypeOK /\ Cursor /\ Connected /\ Readings /\ [Next]_vars => Readings'
  BY ClientsStep, AttributionStep, SettledStep, StoredStep DEF Readings
<1>2. QED
  BY <1>1, InitReadings, TypeCorrect, PTL DEF Spec

\* One row per uuid in every reachable state.
THEOREM UniqueClientsCorrect == Spec => []UniqueClients
<1>1. Readings => UniqueClients
  BY DEF Readings
<1>2. QED
  BY <1>1, ReadingsCorrect, PTL

\* Every packet row belongs to the client whose uuid the packet carried.
THEOREM AttributionCorrect == Spec => []Attribution
<1>1. Readings => Attribution
  BY DEF Readings
<1>2. QED
  BY <1>1, ReadingsCorrect, PTL

\* No packet is stored twice, or before an earlier one of its connection.
THEOREM StoredOnceInOrderCorrect == Spec => []StoredOnceInOrder
<1>1. Readings => StoredOnceInOrder
  BY DEF Readings
<1>2. QED
  BY <1>1, ReadingsCorrect, PTL

\* A thread that goes on serving its connection has stored all it has read.
THEOREM NoSilentDropCorrect == Spec => []NoSilentDrop
<1>1. Readings => NoSilentDrop
  BY DEF Readings, SettledAreStored, Settled, NoSilentDrop, SavePc
<1>2. QED
  BY <1>1, ReadingsCorrect, PTL

-----------------------------------------------------------------------------
(* Server implements Telemetry: its stored rows are `origin`, and a          *)
(* connection has ended when its thread is done.                             *)

EndedConns == {c \in Conn : pc[c] = "done"}

LEMMA KeepsEnds ==
  ASSUME TypeOK, Keeps
  PROVE  \E S \in SUBSET Conn : Promise!End(S)
<1>1. EndedConns \subseteq EndedConns'
  BY DEF EndedConns, Keeps
<1>2. EndedConns' = EndedConns \cup (EndedConns' \ EndedConns)
  BY <1>1
<1>3. UNCHANGED <<sent, origin>>
  BY DEF Keeps
<1>4. PICK S \in SUBSET Conn : S = EndedConns' \ EndedConns
  BY DEF EndedConns
<1>5. Promise!End(S)
  BY <1>2, <1>3, <1>4 DEF Promise!End, EndedConns
<1>6. QED
  BY <1>5

LEMMA QuietSteps ==
  ASSUME TypeOK, NEW c \in Conn, Reads(c) \/ Finds(c) \/ Registers(c)
  PROVE  UNCHANGED <<sent, origin, EndedConns>>
<1>1. EndedConns' = EndedConns
  BY DEF TypeOK, ThreadTypeOK, Reads, Finds, Registers, Moves, EndedConns
<1>2. QED
  BY <1>1 DEF Reads, Finds, Registers

LEMMA StoresStores ==
  ASSUME TypeOK, Cursor, Readings, NEW c \in Conn, Stores(c)
  PROVE  Promise!Store(c, rd[c]) /\ rd[c] \in DOMAIN sent[c]
<1>1. /\ pc[c] = "insertPacket" /\ Settled[c] = rd[c] - 1
      /\ rd[c] \in 1..Len(sent[c]) /\ IsReading(sent[c][rd[c]])
  BY DEF TypeOK, ThreadTypeOK, NetTypeOK, Stores, Settled, SavePc, Cursor, Msg
<1>2. rd[c] \in DOMAIN sent[c] /\ DOMAIN sent[c] = 1..Len(sent[c]) /\ Len(sent[c]) \in Nat
  BY <1>1 DEF TypeOK, NetTypeOK
<1>3. rd[c] \notin Promise!Stored(c)
  <2>1. ASSUME NEW i \in DOMAIN origin, origin[i] = <<c, rd[c]>>
        PROVE  FALSE
    <3>1. rd[c] \in 1..Settled[c]
      BY <2>1 DEF Readings, StoredAreSettled
    <3>2. QED
      BY <1>1, <3>1
  <2>2. QED
    BY <2>1 DEF Promise!Stored
<1>4. ASSUME NEW j \in 1..(rd[c] - 1), IsReading(sent[c][j])
      PROVE  j \in Promise!Stored(c)
  <2>1. j \in DOMAIN sent[c] /\ j \in 1..Settled[c]
    BY <1>1, <1>2
  <2>2. \E i \in DOMAIN origin : origin[i] = <<c, j>>
    BY <1>1, <1>4, <2>1 DEF Readings, SettledAreStored
  <2>3. QED
    BY <2>1, <2>2 DEF Promise!Stored
<1>5. EndedConns' = EndedConns /\ c \notin EndedConns
  BY DEF TypeOK, ThreadTypeOK, Stores, Moves, EndedConns
<1>6. origin' = Append(origin, <<c, rd[c]>>) /\ UNCHANGED sent
  BY DEF Stores
<1>7. QED
  BY <1>1, <1>2, <1>3, <1>4, <1>5, <1>6 DEF Promise!Store, EndedConns, IsReading, Promise!IsReading

LEMMA SendsSends ==
  ASSUME TypeOK, NEW c \in Conn, Sends(c)
  PROVE  \E p \in Packet : Promise!Send(c, p)
<1>1. EndedConns' = EndedConns /\ c \notin EndedConns /\ UNCHANGED origin
  BY DEF Sends, EndedConns
<1>2. QED
  BY <1>1 DEF Sends, Promise!Send, EndedConns

\* The server keeps the promise of Telemetry: a connection's readings are
\* stored once, in order and without a gap until it ends, whatever fails.
THEOREM Implements == Spec => ImplementsTelemetry
<1>1. Init => Promise!Init
  BY DEF Init, Promise!Init
<1>2. TypeOK /\ Cursor /\ Connected /\ Readings /\ [Next]_vars =>
        [Promise!Next]_Promise!vars
  <2> SUFFICES ASSUME TypeOK, Cursor, Connected, Readings, [Next]_vars
               PROVE  [Promise!Next]_Promise!vars
    OBVIOUS
  <2>1. CASE Keeps
    BY <2>1, KeepsEnds DEF Promise!Next
  <2>2. ASSUME NEW c \in Conn, Reads(c) \/ Finds(c) \/ Registers(c)
        PROVE  UNCHANGED Promise!vars
    BY <2>2, QuietSteps DEF Promise!vars, EndedConns
  <2>3. ASSUME NEW c \in Conn, Stores(c)
        PROVE  Promise!Next
    BY <2>3, StoresStores DEF Promise!Next
  <2>4. ASSUME NEW c \in Conn, Sends(c)
        PROVE  Promise!Next
    BY <2>4, SendsSends DEF Promise!Next
  <2>5. QED
    BY <2>1, <2>2, <2>3, <2>4, Effect
<1>3. QED
  BY <1>1, <1>2, TypeCorrect, ReadingsCorrect, PTL DEF Spec, ImplementsTelemetry, Promise!Spec

-----------------------------------------------------------------------------
(* The process: what its start guarantees to the threads, and what is left to *)
(* do once stop() was called.                                                 *)

\* A step of a thread or of a peer, as the main thread sees it.
ThreadMoves(c) ==
  /\ UNCHANGED <<main, needExit, threads, joined, atStop, tables>>
  /\ \/ UNCHANGED <<pc, rd>>
     \/ /\ pc[c] \notin {"none", "done"}
        /\ \E next \in ThreadPc \ {"none", "handshake"} :
             /\ pc' = [pc EXCEPT ![c] = next]
             /\ next = "read" => ~needExit
        /\ UNCHANGED rd
     \/ /\ pc[c] = "read" /\ rd' = [rd EXCEPT ![c] = @ + 1]
        /\ \E next \in {"select", "clients", "check"} : pc' = [pc EXCEPT ![c] = next]

LEMMA ThreadMovesStep ==
  ASSUME TypeOK, NEW c \in Conn,
         ThreadStep(c) \/ SqlError(c) \/ PeerConnect(c) \/ PeerStep(c)
  PROVE  ThreadMoves(c)
<1> USE DEF ThreadMoves, At, procVars, dbVars
<1>1. ASSUME EndThread(c), pc[c] \notin {"none", "done"}, UNCHANGED <<procVars, dbVars>>
      PROVE  ThreadMoves(c)
  <2>1. "done" \in ThreadPc \ {"none", "handshake"}
    BY DEF ThreadPc
  <2>2. QED
    BY <1>1, <2>1 DEF EndThread
<1>2. CASE Handshake(c)
  BY <1>1, <1>2 DEF Handshake, ThreadPc
<1>3. CASE ThreadCheck(c)
  <2>1. {"read", "done"} \subseteq ThreadPc \ {"none", "handshake"}
    BY DEF ThreadPc
  <2>2. CASE needExit
    BY <1>3, <2>1, <2>2 DEF ThreadCheck
  <2>3. CASE ~needExit
    BY <1>3, <2>1, <2>3 DEF ThreadCheck
  <2>4. QED
    BY <2>2, <2>3
<1>4. CASE ReceiveReading(c) \/ ReceiveRequest(c) \/ ReceiveIgnored(c)
  BY <1>4 DEF ReceiveReading, ReceiveRequest, ReceiveIgnored, Receive
<1>5. CASE ReadFails(c)
  BY <1>1, <1>5 DEF ReadFails
<1>6. CASE Select(c)
  BY <1>6 DEF Select, SelectFound, SelectEmpty, ThreadPc, SavePc
<1>7. CASE InsertClient(c)
  <2>1. CASE UniqueViolated(Msg(c).uuid)
    BY <1>1, <1>7, <2>1 DEF InsertClient
  <2>2. CASE ~UniqueViolated(Msg(c).uuid)
    BY <1>7, <2>2 DEF InsertClient, InsertClientRow, ThreadPc, SavePc
  <2>3. QED
    BY <2>1, <2>2
<1>8. CASE Reselect(c)
  BY <1>1, <1>8 DEF Reselect, SelectFound, SelectEmpty, ThreadPc, SavePc
<1>9. CASE InsertPacket(c)
  <2>1. CASE NotNullViolated(Msg(c))
    BY <1>1, <1>9, <2>1 DEF InsertPacket
  <2>2. CASE ~NotNullViolated(Msg(c))
    BY <1>9, <2>2 DEF InsertPacket, InsertPacketRow, ThreadPc
  <2>3. QED
    BY <2>1, <2>2
<1>10. CASE ListClients(c)
  <2>1. "packets" \in ThreadPc \ {"none", "handshake"}
    BY DEF ThreadPc, StatPc
  <2>2. /\ pc[c] = "clients" /\ pc' = [pc EXCEPT ![c] = "packets"]
        /\ UNCHANGED <<procVars, dbVars, rd>>
    BY <1>10 DEF ListClients
  <2>3. QED
    BY <2>1, <2>2
<1>11. CASE ScanPackets(c)
  BY <1>11 DEF ScanPackets
<1>12. CASE WriteReply(c)
  <2>1. CASE peer[c] = "reset"
    BY <1>1, <1>12, <2>1 DEF WriteReply
  <2>2. CASE peer[c] # "reset"
    BY <1>12, <2>2 DEF WriteReply, ThreadPc
  <2>3. QED
    BY <2>1, <2>2
<1>13. CASE SqlError(c)
  BY <1>1, <1>13 DEF SqlError, SavePc
<1>14. CASE PeerConnect(c) \/ PeerStep(c)
  BY <1>14 DEF PeerConnect, PeerStep, PeerUpgrade, PeerSend, PeerLeave, PeerDeafens, threadVars
<1>15. QED
  BY <1>2, <1>3, <1>4, <1>5, <1>6, <1>7, <1>8, <1>9, <1>10, <1>11, <1>12, <1>13, <1>14
  DEF ThreadStep

-----------------------------------------------------------------------------
(* Refusals. *)

LEMMA FaultCounts == TypeOK /\ Fault => faults' > faults /\ faults' > 0
BY DEF TypeOK, Fault

\* A failing call is never forgotten.
LEMMA FaultsStay ==
  ASSUME TypeOK, [Next]_vars, faults > 0
  PROVE  faults' > 0
<1>1. CASE UNCHANGED faults
  BY <1>1
<1>2. CASE Fault
  BY <1>2, FaultCounts
<1>3. CASE Boot \/ MainStep \/ Interrupt \/ Crash \/ Finished \/ UNCHANGED vars
  BY <1>1, <1>3 DEF Boot, MainStep, CreateTables, Listen, LoopCheck, AcceptNothing, Join, Return,
     Accept, Interrupt, Crash, Finished, vars
<1>4. CASE MainFails
  BY <1>1, <1>2, <1>4 DEF MainFails, StartupFails, AcceptFails, ThreadFails
<1>5. ASSUME NEW c \in Conn, ThreadStep(c) \/ SqlError(c)
      PROVE  UNCHANGED faults \/ Fault
  BY <1>5 DEF ThreadStep, Handshake, ThreadCheck, ReceiveReading, ReceiveRequest, ReceiveIgnored,
     Receive, ReadFails, Select, SelectFound, SelectEmpty, InsertClient, Reselect, InsertPacket,
     ListClients, ScanPackets, WriteReply, SqlError
<1>6. ASSUME NEW c \in Conn, PeerConnect(c) \/ PeerStep(c)
      PROVE  UNCHANGED faults
  BY <1>6 DEF PeerConnect, PeerStep, PeerUpgrade, PeerDeafens, PeerSend, PeerLeave
<1>7. QED
  BY <1>1, <1>2, <1>3, <1>4, <1>5, <1>6 DEF Next

\* Unless the process ends, only a thread's own step moves it on from a statement.
LEMMA OwnMove ==
  ASSUME TypeOK, [Next]_vars, NEW c \in Conn, pc'[c] # pc[c],
         \/ pc[c] \in SavePc /\ main' \in Running
         \/ pc'[c] \in SavePc
  PROVE  ThreadStep(c) \/ SqlError(c)
<1>1. ASSUME NEW how \in Ended, Down(how)
      PROVE  FALSE
  BY <1>1 DEF Down, Ended, Running, SavePc
<1>2. ~(Return \/ StartupFails \/ Crash \/ \E d \in Conn : ThreadFails(d))
  BY <1>1 DEF Return, StartupFails, Crash, ThreadFails, Ended
<1>3. ~(Boot \/ CreateTables \/ Listen \/ LoopCheck \/ AcceptNothing \/ Join \/ Interrupt)
  BY DEF Boot, CreateTables, Listen, LoopCheck, AcceptNothing, Join, Interrupt, threadVars
<1>4. ~ \E d \in Conn : Accept(d) \/ AcceptFails(d)
  BY DEF Accept, AcceptFails, Pending, TypeOK, ThreadTypeOK, SavePc
<1>5. ASSUME NEW d \in Conn, ThreadStep(d) \/ SqlError(d) \/ PeerConnect(d) \/ PeerStep(d)
      PROVE  d = c /\ (ThreadStep(d) \/ SqlError(d))
  <2>1. ~(PeerConnect(d) \/ PeerStep(d))
    BY DEF PeerConnect, PeerStep, PeerUpgrade, PeerDeafens, PeerSend, PeerLeave, threadVars
  <2>2. QED
    BY <1>5, <2>1, ThreadMovesStep DEF ThreadMoves, TypeOK, ThreadTypeOK
<1>6. ~(Finished \/ UNCHANGED vars)
  BY DEF Finished, vars, threadVars
<1>7. QED
  BY <1>2, <1>3, <1>4, <1>5, <1>6 DEF Next, MainStep, MainFails

\* How a thread gets to the insertion of its client, and beyond it.
LEMMA LookupOn ==
  ASSUME TypeOK, [Next]_vars, NEW c \in Conn,
         pc'[c] \in {"insertClient", "reselect"}, pc'[c] # pc[c]
  PROVE  \/ /\ pc[c] = "select" /\ pc'[c] = "insertClient" /\ UNCHANGED <<clients, sent, rd>>
            /\ ClientIds(Msg(c).uuid) = {} \/ faults' > 0
         \/ Registers(c)
<1>1. ThreadStep(c) \/ SqlError(c)
  BY OwnMove DEF SavePc
<1>2. Select(c) \/ InsertClient(c)
  BY <1>1 DEF ThreadStep, Handshake, ThreadCheck, ReceiveReading, ReceiveRequest, ReceiveIgnored,
     Receive, ReadFails, Reselect, InsertPacket, ListClients, ScanPackets, WriteReply, SqlError,
     EndThread, At, TypeOK, ThreadTypeOK
<1>3. CASE Select(c)
  BY <1>3, FaultCounts DEF Select, SelectFound, SelectEmpty, At, dbVars, netVars, TypeOK, ThreadTypeOK
<1>4. CASE InsertClient(c)
  <2>1. ~UniqueViolated(Msg(c).uuid)
    BY <1>4 DEF InsertClient, EndThread, TypeOK, ThreadTypeOK
  <2>2. QED
    BY <1>4, <2>1 DEF InsertClient, InsertClientRow, UniqueViolated, At, Registers, Moves, netVars
<1>5. QED
  BY <1>2, <1>3, <1>4

\* What was read stays read, so a packet in hand and its rivals stay.
LEMMA RivalsStay ==
  ASSUME TypeOK, Cursor, Connected, [Next]_vars, NEW c \in Conn,
         pc[c] \in SavePc, pc'[c] \in SavePc
  PROVE  /\ Msg(c)' = Msg(c)
         /\ Rivalled(c) => Rivalled(c)'
<1>1. \A d \in Conn : /\ rd[d] \in Nat /\ rd'[d] \in Nat /\ rd[d] <= rd'[d] /\ rd[d] <= Len(sent[d])
                      /\ \A k \in 1..rd[d] : sent'[d][k] = sent[d][k]
  <2>1. \A d \in Conn : rd[d] \in Nat /\ Len(sent[d]) \in Nat /\ rd[d] <= Len(sent[d])
    BY DEF TypeOK, ThreadTypeOK, NetTypeOK, Cursor
  <2>2. ASSUME NEW e \in Conn, Sends(e)
        PROVE  UNCHANGED rd /\ \A d \in Conn : \A k \in 1..rd[d] : sent'[d][k] = sent[d][k]
    BY <2>1, <2>2, SendsExtends DEF Sends
  <2>3. ASSUME NEW e \in Conn, Reads(e)
        PROVE  UNCHANGED sent /\ \A d \in Conn : rd'[d] \in Nat /\ rd[d] <= rd'[d]
    BY <2>1, <2>3 DEF Reads, TypeOK, ThreadTypeOK
  <2>4. \/ UNCHANGED <<rd, sent>>
        \/ \E e \in Conn : Sends(e) \/ Reads(e)
    BY Effect DEF Keeps, Finds, Registers, Stores
  <2>5. QED
    BY <2>1, <2>2, <2>3, <2>4
<1>2. rd'[c] = rd[c] /\ rd[c] >= 1
  <2>1. ASSUME NEW d \in Conn, Reads(d)
        PROVE  rd'[c] = rd[c]
    BY <2>1 DEF Reads, SavePc, TypeOK, ThreadTypeOK
  <2>2. QED
    BY <2>1, Effect DEF Keeps, Finds, Registers, Stores, Sends, Cursor
<1>3. Msg(c)' = Msg(c)
  BY <1>1, <1>2 DEF Msg
<1>4. ASSUME Rivalled(c)
      PROVE  Rivalled(c)'
  <2>1. PICK d \in Conn \ {c} :
          \E k \in 1..rd[d] : IsReading(sent[d][k]) /\ CStr[sent[d][k].uuid] = CStr[Msg(c).uuid]
    BY <1>4 DEF Rivalled
  <2>2. PICK k \in 1..rd[d] : IsReading(sent[d][k]) /\ CStr[sent[d][k].uuid] = CStr[Msg(c).uuid]
    BY <2>1
  <2>3. k \in 1..rd'[d] /\ sent'[d][k] = sent[d][k]
    BY <1>1, <2>2
  <2>4. QED
    BY <1>3, <2>2, <2>3 DEF Rivalled
<1>5. QED
  BY <1>3, <1>4

LEMMA LookupsStep ==
  ASSUME TypeOK, Cursor, Connected, LookupsHold, [Next]_vars
  PROVE  LookupsHold'
<1>1. SUFFICES ASSUME NEW c \in Conn
      PROVE  /\ pc'[c] = "insertClient" =>
                  ClientIds(Msg(c).uuid)' = {} \/ faults' > 0 \/ Rivalled(c)'
             /\ pc'[c] = "reselect" => ClientIds(Msg(c).uuid)' # {}
  BY DEF LookupsHold
<1>2. clients \in Seq(Uuid)
  BY DEF TypeOK, DatabaseTypeOK
<1>3. clients' = clients \/ \E d \in Conn : Registers(d)
  BY Effect DEF Keeps, Reads, Finds, Stores, Sends
<1>4. \A i \in DOMAIN clients : i \in DOMAIN clients' /\ clients'[i] = clients[i]
  BY <1>2, <1>3 DEF Registers
<1>5. ASSUME pc[c] = "insertClient", pc'[c] = "insertClient"
      PROVE  ClientIds(Msg(c).uuid)' = {} \/ faults' > 0 \/ Rivalled(c)'
  <2>1. Msg(c)' = Msg(c) /\ (Rivalled(c) => Rivalled(c)')
    BY <1>5, RivalsStay DEF SavePc
  <2>2. CASE faults > 0 \/ Rivalled(c)
    BY <2>1, <2>2, FaultsStay
  <2>3. CASE ClientIds(Msg(c).uuid) = {}
    <3>1. CASE clients' = clients
      BY <2>1, <2>3, <3>1 DEF ClientIds
    <3>2. ASSUME NEW d \in Conn, Registers(d)
          PROVE  ClientIds(Msg(c).uuid)' = {} \/ Rivalled(c)'
      <4>1. /\ d # c /\ UNCHANGED <<rd, sent>>
            /\ rd[d] \in Nat /\ rd[d] >= 1 /\ IsReading(Msg(d))
        BY <1>5, <3>2 DEF Registers, Moves, TypeOK, ThreadTypeOK, Cursor, SavePc
      <4>2. CASE CStr[Msg(d).uuid] = CStr[Msg(c).uuid]
        <5>1. rd'[d] \in 1..rd'[d] /\ sent'[d][rd'[d]] = Msg(d)
          BY <4>1 DEF Msg
        <5>2. QED
          BY <2>1, <4>1, <4>2, <5>1 DEF Rivalled
      <4>3. CASE CStr[Msg(d).uuid] # CStr[Msg(c).uuid]
        <5>1. \A i \in DOMAIN clients' :
                clients'[i] = CStr[Msg(d).uuid] \/ (i \in DOMAIN clients /\ clients'[i] = clients[i])
          BY <1>2, <3>2 DEF Registers
        <5>2. QED
          BY <2>1, <2>3, <4>3, <5>1 DEF ClientIds
      <4>4. QED
        BY <4>2, <4>3
    <3>3. QED
      BY <1>3, <3>1, <3>2
  <2>4. QED
    BY <1>5, <2>2, <2>3 DEF LookupsHold
<1>6. ASSUME pc[c] # "insertClient", pc'[c] = "insertClient"
      PROVE  ClientIds(Msg(c).uuid)' = {} \/ faults' > 0
  <2>1. /\ UNCHANGED <<clients, sent, rd>>
        /\ ClientIds(Msg(c).uuid) = {} \/ faults' > 0
    BY <1>6, LookupOn DEF Registers
  <2>2. QED
    BY <2>1 DEF ClientIds, Msg
<1>7. ASSUME pc'[c] = "reselect"
      PROVE  ClientIds(Msg(c).uuid)' # {}
  <2>1. CASE pc[c] = "reselect"
    <3>1. PICK i \in DOMAIN clients : clients[i] = CStr[Msg(c).uuid]
      BY <2>1 DEF LookupsHold, ClientIds
    <3>2. Msg(c)' = Msg(c)
      BY <1>7, <2>1, RivalsStay DEF SavePc
    <3>3. QED
      BY <1>4, <3>1, <3>2 DEF ClientIds
  <2>2. CASE pc[c] # "reselect"
    <3>1. Registers(c)
      BY <1>7, <2>2, LookupOn
    <3>2. Msg(c)' = Msg(c)
      BY <3>1 DEF Registers, Msg
    <3>3. Len(clients) + 1 \in DOMAIN clients' /\ clients'[Len(clients) + 1] = CStr[Msg(c).uuid]
      BY <1>2, <3>1 DEF Registers
    <3>4. QED
      BY <3>2, <3>3 DEF ClientIds
  <2>3. QED
    BY <2>1, <2>2
<1>8. QED
  BY <1>5, <1>6, <1>7

LEMMA LookupsCorrect == Spec => []LookupsHold
<1>1. Init => LookupsHold
  BY DEF Init, LookupsHold
<1>2. QED
  BY <1>1, LookupsStep, TypeCorrect, PTL DEF Spec

LEMMA RefusedStep ==
  ASSUME TypeOK, LookupsHold, [Next]_vars, NEW c \in Conn,
         pc[c] \in SavePc, pc'[c] = "done", main' \in Running
  PROVE  faults' > 0 \/ NaN \in {Msg(c).x, Msg(c).y} \/ Rivalled(c)
<1>1. CASE InsertClient(c)
  <2>1. pc[c] = "insertClient" /\ ClientIds(Msg(c).uuid) # {} /\ UNCHANGED faults
    BY <1>1 DEF InsertClient, UniqueViolated, At, TypeOK, ThreadTypeOK
  <2>2. QED
    BY <2>1 DEF LookupsHold
<1>2. CASE Reselect(c)
  <2>1. pc[c] = "reselect" /\ SelectEmpty(c)
    BY <1>2 DEF Reselect, At, TypeOK, ThreadTypeOK
  <2>2. QED
    BY <2>1, FaultCounts DEF LookupsHold, SelectEmpty
<1>3. CASE InsertPacket(c)
  BY <1>3 DEF InsertPacket, NotNullViolated, At, TypeOK, ThreadTypeOK
<1>4. CASE SqlError(c)
  BY <1>4, FaultCounts DEF SqlError
<1>5. ThreadStep(c) \/ SqlError(c)
  BY OwnMove DEF SavePc
<1>6. ThreadStep(c) => InsertClient(c) \/ Reselect(c) \/ InsertPacket(c)
  BY DEF ThreadStep, Handshake, ThreadCheck, ReceiveReading, ReceiveRequest, ReceiveIgnored,
     Receive, ReadFails, Select, ListClients, ScanPackets, WriteReply, At, SavePc, TypeOK, ThreadTypeOK
<1>7. QED
  BY <1>1, <1>2, <1>3, <1>4, <1>5, <1>6

\* saveClientPacket refuses no reading without a cause.
THEOREM RefusedForCauseCorrect == Spec => RefusedForCause
<1>1. TypeOK /\ LookupsHold /\ [Next]_vars =>
        [\A c \in Conn : pc[c] \in SavePc /\ pc'[c] = "done" /\ main' \in Running =>
           faults' > 0 \/ NaN \in {Msg(c).x, Msg(c).y} \/ Rivalled(c)]_vars
  BY RefusedStep
<1>2. QED
  BY <1>1, TypeCorrect, LookupsCorrect, PTL DEF Spec, RefusedForCause

-----------------------------------------------------------------------------
(* The schema. *)

LEMMA TablesStep ==
  ASSUME TypeOK, TablesCreated, [Next]_vars
  PROVE  TablesCreated'
<1> USE DEF TablesCreated, Listening
<1>1. CASE UNCHANGED vars \/ Finished
  BY <1>1 DEF Finished, vars, procVars, dbVars
<1>2. CASE Boot
  BY <1>2 DEF Boot
<1>3. CASE CreateTables
  BY <1>3 DEF TypeOK, DatabaseTypeOK, CreateTables, CreateTable, Schema
<1>4. CASE Listen \/ LoopCheck \/ AcceptNothing \/ Join \/ Interrupt
  BY <1>4 DEF Listen, LoopCheck, AcceptNothing, Join, Interrupt, dbVars
<1>5. ASSUME NEW c \in Conn, Accept(c) \/ AcceptFails(c)
      PROVE  TablesCreated'
  BY <1>5 DEF Accept, AcceptFails, dbVars
<1>6. ASSUME NEW how \in Ended, Down(how)
      PROVE  TablesCreated'
  BY <1>6 DEF Down, Ended
<1>7. CASE Return \/ StartupFails \/ Crash \/ \E c \in Conn : ThreadFails(c)
  BY <1>6, <1>7 DEF Return, StartupFails, Crash, ThreadFails, Ended
<1>8. ASSUME NEW c \in Conn, ThreadMoves(c)
      PROVE  TablesCreated'
  BY <1>8 DEF ThreadMoves
<1>9. QED
  BY <1>1, <1>2, <1>3, <1>4, <1>5, <1>7, <1>8, ThreadMovesStep
  DEF Next, MainStep, MainFails

\* No connection is accepted before both tables exist, whatever earlier runs
\* left behind.
THEOREM SchemaReadyCorrect == Spec => []SchemaReady
<1>1. Init => TablesCreated
  BY DEF Init, TablesCreated, Listening
<1>2. TypeOK /\ TablesCreated /\ [Next]_vars => TablesCreated'
  BY TablesStep
<1>3. TablesCreated => SchemaReady
  BY DEF TablesCreated, SchemaReady
<1>4. QED
  BY <1>1, <1>2, <1>3, TypeCorrect, PTL DEF Spec

-----------------------------------------------------------------------------
(* stop() *)

LEMMA LastCallStep ==
  ASSUME TypeOK, LastCallPending, [Next]_vars
  PROVE  LastCallPending'
<1>1. /\ pc \in [Conn -> ThreadPc] /\ rd \in [Conn -> Nat] /\ threads \in Seq(Conn)
      /\ atStop.rd \in [Conn -> Nat] /\ atStop.threads \in Nat
  BY DEF TypeOK, ProcTypeOK, ThreadTypeOK
<1>2. CASE UNCHANGED vars \/ Finished
  BY <1>2 DEF LastCallPending, Finished, vars, procVars, threadVars
<1>3. CASE Boot
  BY <1>3 DEF LastCallPending, Boot
<1>4. CASE CreateTables \/ Listen \/ LoopCheck \/ AcceptNothing \/ Join
  <2>1. /\ main \in Running /\ UNCHANGED <<needExit, threads, atStop, pc, rd>>
        /\ main' = "accept" => ~needExit
        /\ main = "accept" => main' = "check"
    BY <1>4 DEF CreateTables, Listen, LoopCheck, AcceptNothing, Join, threadVars, Running
  <2>2. QED
    BY <1>1, <2>1 DEF LastCallPending
<1>5. CASE Interrupt
  <2>1. /\ UNCHANGED <<threads, pc, rd>>
        /\ atStop'.rd = rd /\ atStop'.threads = Len(threads)
    BY <1>5 DEF Interrupt, threadVars
  <2>2. QED
    BY <1>1, <2>1 DEF LastCallPending
<1>6. ASSUME NEW c \in Conn, Accept(c)
      PROVE  LastCallPending'
  <2>1. /\ main = "accept" /\ main' = "check" /\ UNCHANGED <<needExit, atStop, rd>>
        /\ pc[c] = "none" /\ pc' = [pc EXCEPT ![c] = "handshake"]
        /\ threads' = Append(threads, c)
    BY <1>6 DEF Accept, Pending
  <2>2. Len(threads') = Len(threads) + 1 /\ main \in Running
    BY <1>1, <2>1 DEF Running
  <2>3. QED
    BY <1>1, <2>1, <2>2 DEF LastCallPending
<1>7. ASSUME NEW c \in Conn, AcceptFails(c)
      PROVE  LastCallPending'
  <2>1. /\ main = "accept" /\ main' = "check" /\ UNCHANGED <<needExit, atStop, rd, threads>>
        /\ pc' = [pc EXCEPT ![c] = "done"]
    BY <1>7 DEF AcceptFails
  <2>2. main \in Running
    BY <2>1 DEF Running
  <2>3. QED
    BY <1>1, <2>1, <2>2 DEF LastCallPending
<1>8. ASSUME NEW how \in Ended, Down(how)
      PROVE  LastCallPending'
  BY <1>8 DEF LastCallPending, Down, Ended, Running
<1>9. CASE Return \/ StartupFails \/ Crash \/ \E c \in Conn : ThreadFails(c)
  BY <1>8, <1>9 DEF Return, StartupFails, Crash, ThreadFails, Ended
<1>10. ASSUME NEW c \in Conn, ThreadMoves(c)
       PROVE  LastCallPending'
  <2> DEFINE Slack(p) == IF p \in {"none", "handshake", "read"} THEN 0 ELSE 1
  <2>1. UNCHANGED <<main, needExit, threads, atStop>>
    BY <1>10 DEF ThreadMoves
  <2>2. ASSUME needExit, main \in Running, NEW d \in Conn
        PROVE  rd'[d] <= atStop.rd[d] + Slack(pc'[d])
    <3>1. rd[d] <= atStop.rd[d] + Slack(pc[d])
      BY <2>2 DEF LastCallPending
    <3>2. rd[d] \in Nat /\ atStop.rd[d] \in Nat
      BY <1>1
    <3>3. CASE rd'[d] = rd[d]
      <4>1. pc'[d] = pc[d] \/ pc'[d] \notin {"none", "handshake", "read"}
        BY <1>1, <1>10, <2>2 DEF ThreadMoves
      <4>2. QED
        BY <3>1, <3>2, <3>3, <4>1
    <3>4. CASE rd'[d] # rd[d]
      <4>1. /\ pc[d] = "read" /\ rd'[d] = rd[d] + 1
            /\ pc'[d] \notin {"none", "handshake", "read"}
        BY <1>1, <1>10, <3>4 DEF ThreadMoves
      <4>2. QED
        BY <3>1, <3>2, <4>1
    <3>5. QED
      BY <3>3, <3>4
  <2>3. QED
    BY <2>1, <2>2 DEF LastCallPending
<1>11. QED
  BY <1>2, <1>3, <1>4, <1>5, <1>6, <1>7, <1>9, <1>10, ThreadMovesStep
  DEF Next, MainStep, MainFails

\* After stop() each thread handles at most one more message, and at most one
\* more thread is started.
THEOREM LastCallCorrect == Spec => []LastCall
<1>1. Init => LastCallPending
  BY DEF Init, LastCallPending
<1>2. TypeOK /\ LastCallPending /\ [Next]_vars => LastCallPending'
  BY LastCallStep
<1>3. TypeOK /\ LastCallPending => LastCall
  <2>1. TypeOK => /\ Len(threads) \in Nat /\ atStop.threads \in Nat
                  /\ \A c \in Conn : rd[c] \in Nat /\ atStop.rd[c] \in Nat
    BY DEF TypeOK, ProcTypeOK, ThreadTypeOK
  <2>2. QED
    BY <2>1 DEF LastCallPending, LastCall
<1>4. QED
  BY <1>1, <1>2, <1>3, TypeCorrect, PTL DEF Spec

LEMMA TrackedStep ==
  ASSUME TypeOK, Connected, ThreadsTracked, [Next]_vars
  PROVE  ThreadsTracked'
<1>1. /\ threads \in Seq(Conn) /\ joined \in Nat
      /\ pc \in [Conn -> ThreadPc]
  BY DEF TypeOK, ProcTypeOK, ThreadTypeOK
<1>2. \A j \in 1..joined : j \in DOMAIN threads /\ threads[j] \in Conn
  BY <1>1 DEF ThreadsTracked
<1>3. CASE UNCHANGED vars \/ Finished
  BY <1>3 DEF ThreadsTracked, Finished, vars, procVars, threadVars
<1>4. CASE Boot
  BY <1>4 DEF ThreadsTracked, Boot, threadVars, Running
<1>5. CASE CreateTables \/ Listen \/ LoopCheck \/ AcceptNothing \/ Interrupt
  <2>1. main \in Running /\ main' \in Running /\ UNCHANGED <<threads, joined, pc>>
    BY <1>5 DEF CreateTables, Listen, LoopCheck, AcceptNothing, Interrupt, threadVars,
                Running, Listening
  <2>2. QED
    BY <2>1 DEF ThreadsTracked
<1>6. CASE Join
  BY <1>1, <1>6 DEF ThreadsTracked, Join, threadVars, Running
<1>7. ASSUME NEW c \in Conn, Accept(c)
      PROVE  ThreadsTracked'
  <2>1. /\ main' \in Running /\ UNCHANGED joined
        /\ pc[c] = "none" /\ pc' = [pc EXCEPT ![c] = "handshake"]
        /\ threads' = Append(threads, c)
    BY <1>7 DEF Accept, Pending, Running
  <2>2. /\ Len(threads') = Len(threads) + 1 /\ Len(threads) \in Nat
        /\ \A j \in DOMAIN threads : j \in DOMAIN threads' /\ threads'[j] = threads[j]
        /\ Len(threads) + 1 \in DOMAIN threads' /\ threads'[Len(threads) + 1] = c
    BY <1>1, <2>1
  <2>3. \A d \in Conn : pc'[d] \notin {"none", "done"} =>
          \E j \in DOMAIN threads' : threads'[j] = d
    BY <1>1, <2>1, <2>2 DEF ThreadsTracked
  <2>4. \A j \in 1..joined' : pc'[threads'[j]] = "done"
    BY <1>1, <1>2, <2>1, <2>2 DEF ThreadsTracked
  <2>5. joined' <= Len(threads')
    BY <1>1, <2>1, <2>2 DEF ThreadsTracked
  <2>6. QED
    BY <2>1, <2>3, <2>4, <2>5 DEF ThreadsTracked
<1>8. ASSUME NEW c \in Conn, AcceptFails(c)
      PROVE  ThreadsTracked'
  BY <1>1, <1>2, <1>8 DEF ThreadsTracked, AcceptFails, Running, Pending
<1>9. ASSUME NEW how \in Ended, Down(how)
      PROVE  ThreadsTracked'
  BY <1>9 DEF ThreadsTracked, Down, Ended, Running
<1>10. CASE Return \/ StartupFails \/ Crash \/ \E c \in Conn : ThreadFails(c)
  BY <1>9, <1>10 DEF Return, StartupFails, Crash, ThreadFails, Ended
<1>11. ASSUME NEW c \in Conn, ThreadMoves(c)
      PROVE  ThreadsTracked'
  <2>1. UNCHANGED <<main, threads, joined>>
    BY <1>11 DEF ThreadMoves
  <2>2. /\ \A d \in Conn : pc[d] = "done" => pc'[d] = "done"
        /\ \A d \in Conn : pc'[d] \notin {"none", "done"} => pc[d] \notin {"none", "done"}
        /\ \A d \in Conn : pc[d] \in {"none", "done"} => pc'[d] = pc[d]
    BY <1>1, <1>11 DEF ThreadMoves
  <2>3. QED
    BY <1>2, <2>1, <2>2 DEF ThreadsTracked
<1>12. QED
  BY <1>3, <1>4, <1>5, <1>6, <1>7, <1>8, <1>10, <1>11, ThreadMovesStep
  DEF Next, MainStep, MainFails

\* A step to the end of start() is Return, when every thread was joined, or
\* leaves a process alone that has ended.
LEMMA StoppedStep ==
  ASSUME TypeOK, ThreadsTracked, [Next]_vars, main' = "stopped", NEW c \in Conn
  PROVE  pc[c] \in {"none", "done"}
<1>1. main \notin Running \/ (main = "join" /\ joined = Len(threads))
  <2>1. CASE main' = main
    BY <2>1 DEF Running
  <2>2. CASE Return
    BY <2>2 DEF Return
  <2>3. CASE CreateTables \/ Listen \/ LoopCheck \/ AcceptNothing \/ Boot
    BY <2>3 DEF CreateTables, Listen, LoopCheck, AcceptNothing, Boot
  <2>4. CASE Join \/ Interrupt \/ Finished
    BY <2>1, <2>4 DEF Join, Interrupt, Finished, vars, procVars
  <2>5. ASSUME NEW d \in Conn, Accept(d) \/ AcceptFails(d)
        PROVE  FALSE
    BY <2>5 DEF Accept, AcceptFails
  <2>6. CASE StartupFails \/ Crash \/ \E d \in Conn : ThreadFails(d)
    BY <2>6 DEF StartupFails, Crash, ThreadFails, Down
  <2>7. ASSUME NEW d \in Conn, ThreadMoves(d)
        PROVE  main' = main
    BY <2>7 DEF ThreadMoves
  <2>8. CASE UNCHANGED vars
    BY <2>1, <2>8 DEF vars, procVars
  <2>9. QED
    BY <2>1, <2>2, <2>3, <2>4, <2>5, <2>6, <2>7, <2>8, ThreadMovesStep
    DEF Next, MainStep, MainFails
<1>2. CASE main \notin Running
  BY <1>2 DEF ThreadsTracked
<1>3. CASE main = "join" /\ joined = Len(threads)
  <2>1. \A j \in DOMAIN threads : pc[threads[j]] = "done"
    BY <1>3 DEF TypeOK, ProcTypeOK, ThreadsTracked
  <2>2. QED
    BY <2>1 DEF ThreadsTracked
<1>4. QED
  BY <1>1, <1>2, <1>3

\* start() returns, and the database is closed, only when no thread runs.
THEOREM NoThreadOutlivesStartCorrect == Spec => NoThreadOutlivesStart
<1>1. Init => ThreadsTracked
  BY DEF Init, ThreadsTracked
<1>2. TypeOK /\ Connected /\ ThreadsTracked /\ [Next]_vars => ThreadsTracked'
  BY TrackedStep
<1>3. TypeOK /\ ThreadsTracked /\ [Next]_vars =>
        [main' = "stopped" => \A c \in Conn : pc[c] \in {"none", "done"}]_vars
  BY StoppedStep
<1>4. QED
  BY <1>1, <1>2, <1>3, TypeCorrect, PTL DEF Spec, NoThreadOutlivesStart

-----------------------------------------------------------------------------
(* The way down after stop(). *)

LEMMA StopServesStep ==
  ASSUME TypeOK, StopServes, [Next]_vars
  PROVE  StopServes'
<1> USE DEF Running, Listening
<1>1. CASE UNCHANGED vars \/ Finished
  BY <1>1 DEF StopServes, Finished, vars, procVars
<1>2. CASE Boot
  BY <1>2 DEF StopServes, Boot
<1>3. CASE CreateTables \/ Listen \/ LoopCheck \/ AcceptNothing \/ Join \/ Interrupt
  BY <1>3 DEF StopServes, CreateTables, Listen, LoopCheck, AcceptNothing, Join, Interrupt
<1>4. ASSUME NEW c \in Conn, Accept(c) \/ AcceptFails(c)
      PROVE  StopServes'
  BY <1>4 DEF StopServes, Accept, AcceptFails
<1>5. ASSUME NEW how \in Ended, Down(how)
      PROVE  StopServes'
  BY <1>5 DEF StopServes, Down, Ended
<1>6. CASE Return \/ StartupFails \/ Crash \/ \E c \in Conn : ThreadFails(c)
  BY <1>5, <1>6 DEF Return, StartupFails, Crash, ThreadFails, Ended
<1>7. ASSUME NEW c \in Conn, ThreadMoves(c)
      PROVE  StopServes'
  BY <1>7 DEF StopServes, ThreadMoves
<1>8. QED
  BY <1>1, <1>2, <1>3, <1>4, <1>6, <1>7, ThreadMovesStep DEF Next, MainStep, MainFails

LEMMA StopServesCorrect == Spec => []StopServes
<1>1. Init => StopServes
  BY DEF Init, StopServes
<1>2. QED
  BY <1>1, StopServesStep, TypeCorrect, PTL DEF Spec

\* A thread's own step brings it nearer to its end, and no other thread anywhere.
LEMMA ThreadNearer ==
  ASSUME TypeOK, needExit, NEW c \in Conn, ThreadStep(c) \/ SqlError(c)
  PROVE  Nearer(c) /\ \A d \in Conn \ {c} : UNCHANGED <<pc[d], rd[d], job[d]>>
<1> USE DEF Left
<1>1. pc \in [Conn -> ThreadPc] /\ rd \in [Conn -> Nat] /\ job \in [Conn -> Job]
  BY DEF TypeOK, ThreadTypeOK
<1>2. ASSUME NEW next \in ThreadPc, pc' = [pc EXCEPT ![c] = next], Left[next] < Left[pc[c]],
             rd' = rd \/ rd' = [rd EXCEPT ![c] = @ + 1],
             \A d \in Conn \ {c} : job'[d] = job[d]
      PROVE  Nearer(c) /\ \A d \in Conn \ {c} : UNCHANGED <<pc[d], rd[d], job[d]>>
  BY <1>1, <1>2 DEF Nearer
<1>3. ASSUME EndThread(c), pc[c] \in ThreadPc \ {"none", "done"}
      PROVE  Nearer(c) /\ \A d \in Conn \ {c} : UNCHANGED <<pc[d], rd[d], job[d]>>
  BY <1>1, <1>2, <1>3 DEF EndThread, ThreadPc, SavePc, StatPc
<1>4. CASE Handshake(c)
  BY <1>1, <1>2, <1>3, <1>4 DEF Handshake, At, ThreadPc
<1>5. CASE ThreadCheck(c)
  <2>1. pc[c] = "check" /\ pc' = [pc EXCEPT ![c] = "done"] /\ UNCHANGED <<rd, job>>
    BY <1>5 DEF ThreadCheck, At
  <2>2. "done" \in ThreadPc /\ Left["done"] < Left[pc[c]]
    BY <2>1 DEF ThreadPc
  <2>3. QED
    BY <1>2, <2>1, <2>2
<1>6. CASE ReceiveReading(c) \/ ReceiveRequest(c) \/ ReceiveIgnored(c)
  BY <1>1, <1>2, <1>6 DEF ReceiveReading, ReceiveRequest, ReceiveIgnored, Receive, At, ThreadPc,
     SavePc, StatPc
<1>7. CASE ReadFails(c)
  BY <1>3, <1>7 DEF ReadFails, ThreadPc
<1>8. CASE Select(c) \/ InsertClient(c) \/ Reselect(c) \/ InsertPacket(c)
  BY <1>1, <1>2, <1>3, <1>8 DEF Select, SelectFound, SelectEmpty, InsertClient, Reselect,
     InsertPacket, At, ThreadPc, SavePc
<1>9. CASE ListClients(c)
  <2>1. pc[c] = "clients" /\ pc' = [pc EXCEPT ![c] = "packets"] /\ UNCHANGED rd
    BY <1>9 DEF ListClients, At
  <2>2. \E new : job' = [job EXCEPT ![c] = new]
    BY <1>9 DEF ListClients
  <2>3. \A d \in Conn \ {c} : job'[d] = job[d]
    BY <1>1, <2>2
  <2>4. "packets" \in ThreadPc /\ Left["packets"] < Left[pc[c]]
    BY <2>1 DEF ThreadPc, StatPc
  <2>5. QED
    BY <1>2, <2>1, <2>3, <2>4
<1>10. CASE ScanPackets(c)
  <2>1. PICK id \in job[c].todo, n \in 0..Len(packets), cut \in BOOLEAN :
          job' = [job EXCEPT ![c].todo = @ \ {id}, ![c].from = Len(packets),
                             ![c].scans = @ \cup {[id |-> id, upTo |-> n]},
                             ![c].cut = @ \/ cut]
    BY <1>10 DEF ScanPackets
  <2>2. UNCHANGED <<pc, rd>> /\ pc[c] = "packets"
    BY <1>10 DEF ScanPackets
  <2>3. job'[c].todo = job[c].todo \ {id} /\ \A d \in Conn \ {c} : job'[d] = job[d]
    BY <1>1, <2>1 DEF Job
  <2>4. QED
    BY <2>2, <2>3 DEF Nearer
<1>11. CASE WriteReply(c)
  BY <1>1, <1>2, <1>3, <1>11 DEF WriteReply, At, ThreadPc, StatPc
<1>12. CASE SqlError(c)
  BY <1>3, <1>12 DEF SqlError, ThreadPc, SavePc, StatPc
<1>13. QED
  BY <1>4, <1>5, <1>6, <1>7, <1>8, <1>9, <1>10, <1>11, <1>12 DEF ThreadStep

LEMMA DescendStep ==
  ASSUME TypeOK, StopServes, [Next]_vars, needExit, main \in Running, main' \in Running
  PROVE  Descends
<1>1. /\ pc \in [Conn -> ThreadPc] /\ threads \in Seq(Conn) /\ joined \in Nat
      /\ main \in {"listen", "check", "accept", "join"}
  BY DEF TypeOK, ProcTypeOK, ThreadTypeOK, StopServes, Listening
<1>2. CASE UNCHANGED <<main, joined, pc, rd, job>>
  BY <1>2 DEF Descends
<1>3. CASE Listen \/ LoopCheck \/ AcceptNothing
  <2>1. /\ UNCHANGED <<pc, rd, job>>
        /\ <<main, main'>> \in {<<"listen", "check">>, <<"check", "join">>, <<"accept", "check">>}
    BY <1>3 DEF Listen, LoopCheck, AcceptNothing, threadVars
  <2>2. QED
    BY <2>1 DEF Descends, MainNearer, MainLeft
<1>4. CASE Join
  <2>1. UNCHANGED <<pc, rd, job>> /\ MainNearer
    BY <1>1, <1>4 DEF Join, threadVars, MainNearer
  <2>2. QED
    BY <2>1 DEF Descends
<1>5. ASSUME NEW c \in Conn, Accept(c) \/ AcceptFails(c)
      PROVE  Descends
  <2>1. /\ main = "accept" /\ main' = "check" /\ UNCHANGED <<rd, job>> /\ pc[c] = "none"
        /\ \E next \in {"handshake", "done"} : pc' = [pc EXCEPT ![c] = next]
    BY <1>5 DEF Accept, AcceptFails, Pending
  <2>2. MainNearer
    BY <2>1 DEF MainNearer, MainLeft
  <2>3. \A d \in Conn : pc'[d] = pc[d] \/ Left[pc'[d]] < Left[pc[d]]
    BY <1>1, <2>1 DEF Left
  <2>4. QED
    BY <2>1, <2>2, <2>3 DEF Descends, Nearer
<1>6. ASSUME NEW c \in Conn, ThreadStep(c) \/ SqlError(c)
      PROVE  Descends
  <2>1. UNCHANGED <<main, joined>>
    BY <1>6, ThreadMovesStep DEF ThreadMoves
  <2>2. QED
    BY <1>6, <2>1, ThreadNearer DEF Descends
<1>7. ~(Boot \/ CreateTables \/ Return \/ StartupFails \/ Crash \/ Finished)
  BY <1>1 DEF Boot, CreateTables, Finished, Return, StartupFails, Crash, Down, Running
<1>8. CASE Interrupt
  BY <1>8 DEF Interrupt
<1>9. ASSUME NEW c \in Conn, PeerConnect(c) \/ PeerStep(c)
      PROVE  Descends
  BY <1>2, <1>9 DEF PeerConnect, PeerStep, PeerUpgrade, PeerSend, PeerDeafens, PeerLeave,
     procVars, threadVars
<1>10. CASE UNCHANGED vars
  BY <1>2, <1>10 DEF vars, procVars, threadVars
<1>11. ~ \E c \in Conn : ThreadFails(c)
  BY DEF ThreadFails, Down, Running
<1>12. CASE MainStep \/ MainFails
  BY <1>3, <1>4, <1>5, <1>7, <1>11, <1>12 DEF MainStep, MainFails
<1>13. QED
  BY <1>6, <1>7, <1>8, <1>9, <1>10, <1>12 DEF Next

\* After stop() every thread, and start(), only goes on towards its end.
THEOREM StopDescendsCorrect == Spec => StopDescends
<1>1. TypeOK /\ StopServes /\ [Next]_vars =>
        [needExit /\ main \in Running /\ main' \in Running => Descends]_vars
  BY DescendStep
<1>2. QED
  BY <1>1, TypeCorrect, StopServesCorrect, PTL DEF Spec, StopDescends

-----------------------------------------------------------------------------
\* The whole invariant holds in every reachable state, for any constants.
THEOREM InvCorrect == Spec => []Inv
<1>1. Init => TablesCreated /\ LastCallPending /\ ThreadsTracked
  BY DEF Init, TablesCreated, LastCallPending, ThreadsTracked, Listening
<1>2. TypeOK /\ Connected /\ TablesCreated /\ LastCallPending /\ ThreadsTracked
      /\ [Next]_vars => TablesCreated' /\ LastCallPending' /\ ThreadsTracked'
  BY TablesStep, LastCallStep, TrackedStep
<1>3. TypeOK /\ Cursor /\ Connected /\ Readings /\ LookupsHold /\ TablesCreated
      /\ LastCallPending /\ StopServes /\ ThreadsTracked => Inv
  BY DEF Inv
<1>4. QED
  BY <1>1, <1>2, <1>3, TypeCorrect, ReadingsCorrect, LookupsCorrect, StopServesCorrect,
     PTL DEF Spec

=============================================================================
