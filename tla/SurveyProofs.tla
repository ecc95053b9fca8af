---------------------------- MODULE SurveyProofs ----------------------------
(***************************************************************************)
(* Proofs about statistics: the invariant of the requests, and that the    *)
(* server implements Survey.                                               *)
(***************************************************************************)
EXTENDS ServerProofs, StatisticsProofs

-----------------------------------------------------------------------------
(* What a step does to the request of one connection. *)

\* The tables only grow.
Grows ==
  /\ Len(clients) <= Len(clients') /\ Len(packets) <= Len(packets')
  /\ \A i \in DOMAIN clients : i \in DOMAIN clients'
  /\ \A i \in DOMAIN packets : i \in DOMAIN packets' /\ packets'[i] = packets[i]

JobRests(c) ==
  /\ job'[c] = job[c] /\ reply'[c] = reply[c]
  /\ pc[c] \in StatPc \/ pc'[c] \in StatPc => pc'[c] = pc[c]

JobEnds(c) == pc'[c] \in {"none", "done"} /\ job'[c] = NoJob /\ reply'[c] = reply[c]

JobAsks(c) ==
  /\ pc[c] = "read" /\ pc'[c] = "clients" /\ reply'[c] = reply[c]
  /\ job'[c] = [job[c] EXCEPT !.base = Len(packets), !.from = Len(clients)]
  /\ UNCHANGED <<clients, packets>>

JobLists(c) ==
  /\ pc[c] = "clients" /\ pc'[c] = "packets" /\ reply'[c] = reply[c]
  /\ \E ids \in SUBSET (DOMAIN clients), now \in Time, cut \in BOOLEAN :
       /\ IF cut THEN faults' > 0 ELSE 1..job[c].from \subseteq ids
       /\ job'[c] = [job[c] EXCEPT !.at = now, !.todo = ids, !.from = Len(packets), !.cut = cut]
  /\ UNCHANGED <<clients, packets>>

JobScans(c) ==
  /\ pc[c] = "packets" /\ pc'[c] = "packets" /\ reply'[c] = reply[c]
  /\ \E id \in job[c].todo, n \in 0..Len(packets), cut \in BOOLEAN :
       /\ IF cut THEN faults' > 0 ELSE job[c].from <= n
       /\ job'[c] = [job[c] EXCEPT !.todo = @ \ {id}, !.from = Len(packets),
                                   !.scans = @ \cup {[id |-> id, upTo |-> n]},
                                   !.cut = @ \/ cut]
  /\ UNCHANGED <<clients, packets>>

JobReplies(c) ==
  /\ pc[c] = "packets" /\ pc'[c] = "check" /\ job[c].todo = {} /\ job'[c] = NoJob
  /\ reply'[c] = [base |-> job[c].base, at |-> job[c].at,
                  scans |-> job[c].scans, cut |-> job[c].cut]
  /\ UNCHANGED <<clients, packets>>

\* At most one connection is asked or answered in a step, or a row stored.
OthersRest(c) == \A d \in Conn \ {c} : JobRests(d)
AllRest == \A d \in Conn : JobRests(d)
NoneAnswered ==
  /\ UNCHANGED packets
  /\ \A d \in Conn : JobRests(d) \/ JobEnds(d) \/ JobLists(d) \/ JobScans(d)

LEMMA GrowsStep ==
  ASSUME TypeOK, Connected, [Next]_vars
  PROVE  Grows
<1> USE DEF TypeOK, DatabaseTypeOK, Grows
<1>1. CASE UNCHANGED <<clients, packets>>
  BY <1>1
<1>2. ASSUME NEW c \in Conn, Registers(c)
      PROVE  Grows
  BY <1>2 DEF Registers
<1>3. ASSUME NEW c \in Conn, Stores(c)
      PROVE  Grows
  BY <1>3 DEF Stores
<1>4. QED
  BY <1>1, <1>2, <1>3, Effect DEF Keeps, Reads, Finds, Sends

LEMMA JobEndsStep ==
  ASSUME TypeOK, NEW c \in Conn, EndThread(c), UNCHANGED packets
  PROVE  NoneAnswered
<1>1. JobEnds(c)
  BY DEF TypeOK, ThreadTypeOK, EndThread, JobEnds
<1>2. \A d \in Conn \ {c} : JobRests(d)
  BY DEF TypeOK, ThreadTypeOK, EndThread, JobRests
<1>3. QED
  BY <1>1, <1>2 DEF NoneAnswered

\* A step of a thread that is not in a request and does not start one.
LEMMA JobRestsStep ==
  ASSUME TypeOK, NEW c \in Conn, NEW here \in ThreadPc \ StatPc, NEW next \in ThreadPc \ StatPc,
         At(c, here, next), UNCHANGED <<job, reply>>
  PROVE  AllRest
BY DEF TypeOK, ThreadTypeOK, At, JobRests, AllRest

LEMMA MainRequests ==
  ASSUME TypeOK, Boot \/ MainStep \/ MainFails \/ Interrupt \/ Crash
  PROVE  NoneAnswered
<1>1. CASE Boot \/ CreateTables \/ Listen \/ LoopCheck \/ AcceptNothing \/ Join \/ Interrupt
  <2>1. UNCHANGED <<threadVars, packets>>
    BY <1>1 DEF Boot, CreateTables, CreateTable, Listen, LoopCheck, AcceptNothing, Join,
                Interrupt, dbVars
  <2>2. QED
    BY <2>1 DEF NoneAnswered, JobRests, threadVars
<1>2. ASSUME NEW how, Down(how)
      PROVE  NoneAnswered
  <2>1. \A d \in Conn : JobEnds(d)
    BY <1>2 DEF TypeOK, ThreadTypeOK, Down, JobEnds
  <2>2. UNCHANGED packets
    BY <1>2 DEF Down, dbVars
  <2>3. QED
    BY <2>1, <2>2 DEF NoneAnswered
<1>3. CASE Return \/ StartupFails \/ Crash \/ \E c \in Conn : ThreadFails(c)
  BY <1>2, <1>3 DEF Return, StartupFails, Crash, ThreadFails
<1>4. ASSUME NEW c \in Conn, Accept(c) \/ AcceptFails(c)
      PROVE  NoneAnswered
  BY <1>4 DEF TypeOK, ThreadTypeOK, Accept, AcceptFails, Pending, NoneAnswered, JobRests, StatPc, dbVars
<1>5. QED
  BY <1>1, <1>3, <1>4 DEF MainStep, MainFails

LEMMA ThreadRequests ==
  ASSUME TypeOK, NEW c \in Conn, ThreadStep(c) \/ SqlError(c)
  PROVE  \/ NoneAnswered
         \/ Stores(c) /\ AllRest
         \/ (JobAsks(c) \/ JobReplies(c)) /\ OthersRest(c)
<1> USE DEF dbVars
<1>1. ASSUME AllRest, UNCHANGED packets
      PROVE  NoneAnswered
  BY <1>1 DEF AllRest, NoneAnswered
<1>2. CASE Handshake(c)
  <2>1. CASE EndThread(c)
    BY <1>2, <2>1, JobEndsStep DEF Handshake
  <2>2. CASE At(c, "handshake", "check") /\ UNCHANGED <<job, reply>>
    BY <1>1, <1>2, <2>2, JobRestsStep DEF Handshake, ThreadPc, StatPc
  <2>3. QED
    BY <1>2, <2>1, <2>2 DEF Handshake
<1>3. CASE ThreadCheck(c)
  <2>1. {"check", "done", "read"} \subseteq ThreadPc \ StatPc
    BY DEF ThreadPc, StatPc
  <2>2. AllRest
    BY <1>3, <2>1, JobRestsStep DEF ThreadCheck
  <2>3. QED
    BY <1>1, <1>3, <2>2 DEF ThreadCheck
<1>4. CASE ReceiveReading(c)
  BY <1>1, <1>4, JobRestsStep DEF ReceiveReading, Receive, ThreadPc, StatPc, SavePc
<1>5. CASE ReceiveRequest(c)
  <2>1. /\ At(c, "read", "clients") /\ UNCHANGED <<reply, clients, packets>>
        /\ job' = [job EXCEPT ![c].base = Len(packets), ![c].from = Len(clients)]
    BY <1>5 DEF ReceiveRequest, Receive
  <2>2. JobAsks(c)
    BY <2>1 DEF TypeOK, ThreadTypeOK, At, JobAsks
  <2>3. OthersRest(c)
    BY <2>1 DEF TypeOK, ThreadTypeOK, At, OthersRest, JobRests
  <2>4. QED
    BY <2>2, <2>3
<1>6. CASE ReceiveIgnored(c)
  BY <1>1, <1>6, JobRestsStep DEF ReceiveIgnored, Receive, ThreadPc, StatPc
<1>7. CASE ReadFails(c)
  BY <1>7, JobEndsStep DEF ReadFails
<1>8. CASE Select(c)
  BY <1>1, <1>8, JobRestsStep DEF Select, SelectFound, SelectEmpty, ThreadPc, StatPc, SavePc
<1>9. CASE InsertClient(c)
  <2>1. CASE UniqueViolated(Msg(c).uuid)
    BY <1>9, <2>1, JobEndsStep DEF InsertClient
  <2>2. CASE ~UniqueViolated(Msg(c).uuid)
    BY <1>1, <1>9, <2>2, JobRestsStep DEF InsertClient, InsertClientRow, ThreadPc, StatPc, SavePc
  <2>3. QED
    BY <2>1, <2>2
<1>10. CASE Reselect(c)
  <2>1. CASE At(c, "reselect", "insertPacket") /\ SelectFound(c)
    BY <1>1, <2>1, JobRestsStep DEF SelectFound, ThreadPc, StatPc, SavePc
  <2>2. CASE pc[c] = "reselect" /\ SelectEmpty(c) /\ EndThread(c)
    BY <2>2, JobEndsStep DEF SelectEmpty
  <2>3. QED
    BY <1>10, <2>1, <2>2 DEF Reselect
<1>11. CASE InsertPacket(c)
  <2>1. CASE NotNullViolated(Msg(c))
    BY <1>11, <2>1, JobEndsStep DEF InsertPacket
  <2>2. CASE ~NotNullViolated(Msg(c))
    <3>1. AllRest
      BY <1>11, <2>2, JobRestsStep DEF InsertPacket, ThreadPc, StatPc, SavePc
    <3>2. Stores(c)
      BY <1>11, <2>2 DEF InsertPacket, InsertPacketRow, Stores, Moves, At, netVars
    <3>3. QED
      BY <3>1, <3>2
  <2>3. QED
    BY <2>1, <2>2
<1>12. CASE ListClients(c)
  <2>1. PICK ids \in SUBSET (DOMAIN clients), now \in Time, cut \in BOOLEAN :
          /\ IF cut THEN Fault ELSE 1..job[c].from \subseteq ids /\ UNCHANGED faults
          /\ job' = [job EXCEPT ![c].at = now, ![c].todo = ids, ![c].from = Len(packets),
                                ![c].cut = cut]
    BY <1>12 DEF ListClients
  <2>2. At(c, "clients", "packets") /\ UNCHANGED <<reply, clients, packets>>
    BY <1>12 DEF ListClients
  <2>3. job'[c] = [job[c] EXCEPT !.at = now, !.todo = ids, !.from = Len(packets), !.cut = cut]
    BY <2>1 DEF TypeOK, ThreadTypeOK
  <2>4. JobLists(c)
    BY <2>1, <2>2, <2>3, FaultCounts DEF TypeOK, ThreadTypeOK, At, JobLists
  <2>5. OthersRest(c)
    BY <2>1, <2>2 DEF TypeOK, ThreadTypeOK, At, OthersRest, JobRests
  <2>6. QED
    BY <2>2, <2>4, <2>5 DEF NoneAnswered, OthersRest
<1>13. CASE ScanPackets(c)
  <2>1. PICK id \in job[c].todo, n \in 0..Len(packets), cut \in BOOLEAN :
          /\ IF cut THEN Fault ELSE job[c].from <= n /\ UNCHANGED faults
          /\ job' = [job EXCEPT ![c].todo = @ \ {id}, ![c].from = Len(packets),
                                ![c].scans = @ \cup {[id |-> id, upTo |-> n]},
                                ![c].cut = @ \/ cut]
    BY <1>13 DEF ScanPackets
  <2>2. pc[c] = "packets" /\ UNCHANGED <<pc, reply, clients, packets>>
    BY <1>13 DEF ScanPackets
  <2>3. job'[c] = [job[c] EXCEPT !.todo = @ \ {id}, !.from = Len(packets),
                                 !.scans = @ \cup {[id |-> id, upTo |-> n]}, !.cut = @ \/ cut]
    BY <2>1 DEF TypeOK, ThreadTypeOK
  <2>4. pc'[c] = "packets" /\ reply'[c] = reply[c] /\ UNCHANGED <<clients, packets>>
    BY <2>2
  <2>5. IF cut THEN faults' > 0 ELSE job[c].from <= n
    BY <2>1, FaultCounts
  <2>6. \E i \in job[c].todo, m \in 0..Len(packets), k \in BOOLEAN :
          /\ IF k THEN faults' > 0 ELSE job[c].from <= m
          /\ job'[c] = [job[c] EXCEPT !.todo = @ \ {i}, !.from = Len(packets),
                                      !.scans = @ \cup {[id |-> i, upTo |-> m]}, !.cut = @ \/ k]
    BY <2>3, <2>5, Zenon
  <2>7. JobScans(c)
    BY <2>2, <2>4, <2>6, Zenon DEF JobScans
  <2>8. OthersRest(c)
    BY <2>1, <2>2 DEF TypeOK, ThreadTypeOK, OthersRest, JobRests
  <2>9. QED
    BY <2>2, <2>7, <2>8 DEF NoneAnswered, OthersRest
<1>14. CASE WriteReply(c)
  <2>1. CASE peer[c] = "reset"
    BY <1>14, <2>1, JobEndsStep DEF WriteReply
  <2>2. CASE peer[c] # "reset"
    <3>1. /\ At(c, "packets", "check") /\ job[c].todo = {}
          /\ job' = [job EXCEPT ![c] = NoJob] /\ UNCHANGED <<clients, packets>>
          /\ reply' = [reply EXCEPT ![c] = [base |-> job[c].base, at |-> job[c].at,
                                            scans |-> job[c].scans, cut |-> job[c].cut]]
      BY <1>14, <2>2 DEF WriteReply
    <3>2. JobReplies(c)
      BY <3>1 DEF TypeOK, ThreadTypeOK, At, JobReplies
    <3>3. OthersRest(c)
      BY <3>1 DEF TypeOK, ThreadTypeOK, At, OthersRest, JobRests
    <3>4. QED
      BY <3>2, <3>3
  <2>3. QED
    BY <2>1, <2>2
<1>15. CASE SqlError(c)
  BY <1>15, JobEndsStep DEF SqlError
<1>16. QED
  BY <1>2, <1>3, <1>4, <1>5, <1>6, <1>7, <1>8, <1>9, <1>10, <1>11, <1>12, <1>13, <1>14, <1>15
  DEF ThreadStep

LEMMA RequestEffect ==
  ASSUME TypeOK, [Next]_vars
  PROVE  \/ NoneAnswered
         \/ \E c \in Conn : Stores(c) /\ AllRest
         \/ \E c \in Conn : (JobAsks(c) \/ JobReplies(c)) /\ OthersRest(c)
<1>1. ASSUME UNCHANGED <<threadVars, packets>>
      PROVE  NoneAnswered
  BY <1>1 DEF NoneAnswered, JobRests, threadVars
<1>2. CASE UNCHANGED vars \/ Finished
  BY <1>1, <1>2 DEF Finished, vars, dbVars
<1>3. ASSUME NEW c \in Conn, PeerConnect(c) \/ PeerStep(c)
      PROVE  NoneAnswered
  BY <1>1, <1>3 DEF PeerConnect, PeerStep, PeerUpgrade, PeerDeafens, PeerSend, PeerLeave, dbVars
<1>4. QED
  BY <1>2, <1>3, MainRequests, ThreadRequests DEF Next

-----------------------------------------------------------------------------
(* The invariant of the requests. *)

LEMMA SoundKept ==
  ASSUME TypeOK, TypeOK', Grows, NEW scans \in SUBSET Scan, SoundScans(scans)
  PROVE  /\ \A s \in scans : s.id \in DOMAIN clients' /\ s.upTo <= Len(packets')
         /\ \A s, t \in scans : s.id = t.id => s = t
<1>1. Len(packets) \in Nat /\ Len(packets') \in Nat /\ Len(packets) <= Len(packets')
  BY DEF TypeOK, DatabaseTypeOK, Grows
<1>2. \A s \in scans : s.upTo \in Nat
  BY DEF Scan
<1>3. QED
  BY <1>1, <1>2 DEF SoundScans, Grows

LEMMA ReplyKept ==
  ASSUME TypeOK, TypeOK', Grows, NEW c \in Conn, reply'[c] = reply[c], ReplyOK(reply[c])
  PROVE  ReplyOK(reply[c])'
<1>1. /\ Len(packets) \in Nat /\ Len(packets') \in Nat /\ Len(packets) <= Len(packets')
      /\ DOMAIN packets = 1..Len(packets)
  BY DEF TypeOK, DatabaseTypeOK, Grows
<1>2. reply[c].base \in Nat /\ reply[c].scans \in SUBSET Scan
  BY DEF TypeOK, ThreadTypeOK, Reply
<1>3. SoundScans(reply[c].scans)'
  BY <1>2, SoundKept DEF ReplyOK, SoundScans
<1>4. reply[c].base <= Len(packets')
  BY <1>1, <1>2 DEF ReplyOK
<1>5. \A i \in 1..reply[c].base : packets'[i] = packets[i]
  BY <1>1, <1>2 DEF ReplyOK, Grows
<1>6. QED
  BY <1>3, <1>4, <1>5 DEF ReplyOK

LEMMA RestsOK ==
  ASSUME TypeOK, TypeOK', Grows, NEW c \in Conn, JobRests(c), RequestOK(c)
  PROVE  RequestOK(c)'
<1>1. /\ Len(packets) \in Nat /\ Len(packets') \in Nat /\ Len(packets) <= Len(packets')
      /\ Len(clients) \in Nat /\ Len(clients') \in Nat /\ Len(clients) <= Len(clients')
      /\ DOMAIN clients = 1..Len(clients) /\ DOMAIN packets = 1..Len(packets)
  BY DEF TypeOK, DatabaseTypeOK, Grows
<1>2. job[c] \in Job /\ reply[c] \in Reply
  BY DEF TypeOK, ThreadTypeOK
<1>3. /\ job'[c] = job[c] /\ reply'[c] = reply[c]
      /\ pc'[c] \in StatPc => pc'[c] = pc[c]
      /\ pc[c] \in StatPc => pc'[c] = pc[c]
  BY DEF JobRests
<1>4. (pc[c] \notin StatPc => job[c] = NoJob)'
  BY <1>3 DEF RequestOK
<1>5. ReplyOK(reply[c])'
  BY <1>3, ReplyKept DEF RequestOK
<1>6. CASE pc'[c] = "clients"
  <2>1. pc[c] = "clients"
    BY <1>3, <1>6 DEF StatPc
  <2>2. /\ job[c].base \in Nat /\ job[c].from \in Nat
        /\ job[c].base <= Len(packets) /\ job[c].from <= Len(clients)
    BY <1>2, <2>1 DEF RequestOK, Job
  <2>3. \A i \in 1..job[c].base : packets'[i].client_id <= job[c].from
    BY <1>1, <2>1, <2>2 DEF RequestOK, Grows
  <2>4. job[c].base <= Len(packets') /\ job[c].from <= Len(clients')
    BY <1>1, <2>2
  <2>5. job[c].scans = {} /\ ~job[c].cut
    BY <2>1 DEF RequestOK
  <2>6. QED
    BY <1>3, <1>4, <1>5, <1>6, <2>3, <2>4, <2>5 DEF RequestOK
<1>7. CASE pc'[c] = "packets"
  <2>1. pc[c] = "packets"
    BY <1>3, <1>7 DEF StatPc
  <2>2. /\ job[c].base \in Nat /\ job[c].from \in Nat
        /\ job[c].base <= job[c].from /\ job[c].from <= Len(packets)
    BY <1>2, <2>1 DEF RequestOK, Job
  <2>3. SoundScans(job[c].scans)'
    BY <1>2, <1>3, <2>1, SoundKept DEF RequestOK, SoundScans, Job
  <2>4. job[c].todo \subseteq DOMAIN clients' /\ \A s \in job[c].scans : s.id \notin job[c].todo
    BY <2>1 DEF RequestOK, Grows
  <2>5. job[c].from <= Len(packets')
    BY <1>1, <2>2
  <2>6. ~job[c].cut =>
          /\ \A s \in job[c].scans : job[c].base <= s.upTo
          /\ \A i \in 1..job[c].base :
               \/ packets'[i].client_id \in job[c].todo
               \/ \E s \in job[c].scans : s.id = packets'[i].client_id
    <3>1. \A i \in 1..job[c].base : packets'[i] = packets[i]
      BY <1>1, <2>2 DEF Grows
    <3>2. QED
      BY <2>1, <3>1 DEF RequestOK
  <2>7. QED
    BY <1>3, <1>4, <1>5, <1>7, <2>2, <2>3, <2>4, <2>5, <2>6 DEF RequestOK
<1>8. QED
  BY <1>4, <1>5, <1>6, <1>7 DEF RequestOK

LEMMA EndsOK ==
  ASSUME TypeOK, TypeOK', Grows, NEW c \in Conn, JobEnds(c), RequestOK(c)
  PROVE  RequestOK(c)'
<1>1. ReplyOK(reply[c])'
  BY ReplyKept DEF JobEnds, RequestOK
<1>2. pc'[c] \notin StatPc /\ job'[c] = NoJob
  BY DEF JobEnds, StatPc
<1>3. QED
  BY <1>1, <1>2 DEF RequestOK, StatPc

\* The rows stored so far are of clients registered so far, so the scan of
\* clients that starts now must list them.
LEMMA AsksOK ==
  ASSUME TypeOK, Attribution, NEW c \in Conn, JobAsks(c), RequestOK(c)
  PROVE  RequestOK(c)'
<1>1. job[c] = NoJob
  BY DEF JobAsks, RequestOK, StatPc
<1>2. /\ job'[c].base = Len(packets) /\ job'[c].from = Len(clients)
      /\ job'[c].scans = {} /\ ~job'[c].cut
  BY <1>1 DEF JobAsks, NoJob
<1>3. /\ \A i \in 1..Len(packets) : packets[i].client_id <= Len(clients)
      /\ Len(packets) \in Nat /\ Len(clients) \in Nat
  <2>1. /\ Len(packets) \in Nat /\ DOMAIN packets = 1..Len(packets)
        /\ Len(clients) \in Nat /\ DOMAIN clients = 1..Len(clients)
    BY DEF TypeOK, DatabaseTypeOK
  <2>2. QED
    BY <2>1 DEF Attribution
<1>4. ReplyOK(reply[c])'
  BY DEF JobAsks, RequestOK, ReplyOK, SoundScans
<1>5. pc'[c] = "clients" /\ UNCHANGED <<clients, packets>>
  BY DEF JobAsks
<1>6. QED
  BY <1>2, <1>3, <1>4, <1>5 DEF RequestOK, StatPc

LEMMA ListsOK ==
  ASSUME TypeOK, Attribution, NEW c \in Conn, JobLists(c), RequestOK(c)
  PROVE  RequestOK(c)'
<1>1. PICK ids \in SUBSET (DOMAIN clients), now \in Time, cut \in BOOLEAN :
        /\ ~cut => 1..job[c].from \subseteq ids
        /\ job'[c] = [job[c] EXCEPT !.at = now, !.todo = ids, !.from = Len(packets), !.cut = cut]
  BY DEF JobLists
<1>2. /\ job[c] \in Job /\ Len(packets) \in Nat /\ DOMAIN packets = 1..Len(packets)
      /\ \A i \in DOMAIN packets : packets[i].client_id \in 1..Len(clients)
  <2>1. job[c] \in Job
    BY DEF TypeOK, ThreadTypeOK
  <2>2. Len(packets) \in Nat /\ DOMAIN packets = 1..Len(packets) /\ DOMAIN clients = 1..Len(clients)
    BY DEF TypeOK, DatabaseTypeOK
  <2>3. QED
    BY <2>1, <2>2 DEF Attribution
<1>3. /\ job'[c].base = job[c].base /\ job'[c].from = Len(packets) /\ job'[c].todo = ids
      /\ job'[c].scans = job[c].scans /\ job'[c].cut = cut
  BY <1>1, <1>2 DEF Job
<1>4. /\ pc[c] = "clients" /\ pc'[c] = "packets" /\ reply'[c] = reply[c]
      /\ UNCHANGED <<clients, packets>>
  BY DEF JobLists
<1>5. /\ job[c].scans = {} /\ job[c].base <= Len(packets)
      /\ \A i \in 1..job[c].base : packets[i].client_id <= job[c].from
  BY <1>4 DEF RequestOK
<1>6. ReplyOK(reply[c])' /\ SoundScans(job[c].scans)'
  BY <1>3, <1>4, <1>5 DEF RequestOK, ReplyOK, SoundScans
<1>7. ~cut => \A i \in 1..job[c].base : packets[i].client_id \in ids
  <2>1. job[c].base \in Nat /\ job[c].from \in Nat
    BY <1>2 DEF Job
  <2>2. \A i \in 1..job[c].base : packets[i].client_id \in 1..job[c].from
    <3>1. Len(clients) \in Nat
      BY DEF TypeOK, DatabaseTypeOK
    <3>2. QED
      BY <1>2, <1>5, <2>1, <3>1
  <2>3. QED
    BY <1>1, <2>2
<1>8. Len(packets) <= Len(packets)
  BY <1>2
<1>9. QED
  BY <1>3, <1>4, <1>5, <1>6, <1>7, <1>8 DEF RequestOK, StatPc

LEMMA ScansOK ==
  ASSUME TypeOK, NEW c \in Conn, JobScans(c), RequestOK(c)
  PROVE  RequestOK(c)'
<1>1. PICK id \in job[c].todo, n \in 0..Len(packets), cut \in BOOLEAN :
        /\ ~cut => job[c].from <= n
        /\ job'[c] = [job[c] EXCEPT !.todo = @ \ {id}, !.from = Len(packets),
                                    !.scans = @ \cup {[id |-> id, upTo |-> n]}, !.cut = @ \/ cut]
  BY DEF JobScans
<1>2. job[c] \in Job /\ Len(packets) \in Nat
  BY DEF TypeOK, ThreadTypeOK, DatabaseTypeOK
<1>3. /\ job'[c].base = job[c].base /\ job'[c].from = Len(packets)
      /\ job'[c].todo = job[c].todo \ {id}
      /\ job'[c].scans = job[c].scans \cup {[id |-> id, upTo |-> n]}
      /\ job'[c].cut = (job[c].cut \/ cut)
  BY <1>1, <1>2 DEF Job
<1>4. /\ pc[c] = "packets" /\ pc'[c] = "packets" /\ reply'[c] = reply[c]
      /\ UNCHANGED <<clients, packets>>
  BY DEF JobScans
<1>5. /\ SoundScans(job[c].scans)
      /\ job[c].todo \subseteq DOMAIN clients /\ \A s \in job[c].scans : s.id \notin job[c].todo
      /\ job[c].base <= job[c].from /\ job[c].from <= Len(packets)
  BY <1>4 DEF RequestOK
<1>6. ReplyOK(reply[c])'
  BY <1>4 DEF RequestOK, ReplyOK, SoundScans
<1>7. SoundScans(job[c].scans)'
  <2>1. \A s \in job'[c].scans : s.id \in DOMAIN clients /\ s.upTo <= Len(packets)
    BY <1>1, <1>2, <1>3, <1>5 DEF SoundScans
  <2>2. \A s, t \in job'[c].scans : s.id = t.id => s = t
    BY <1>3, <1>5 DEF SoundScans
  <2>3. QED
    BY <1>4, <2>1, <2>2 DEF SoundScans
<1>8. /\ job'[c].todo \subseteq DOMAIN clients
      /\ \A s \in job'[c].scans : s.id \notin job'[c].todo
  BY <1>3, <1>5
<1>9. job[c].base \in Nat /\ job[c].from \in Nat /\ job[c].base <= Len(packets)
  BY <1>2, <1>5 DEF Job
<1>10. ASSUME ~job'[c].cut
       PROVE  /\ \A s \in job'[c].scans : job[c].base <= s.upTo
              /\ \A i \in 1..job[c].base :
                   \/ packets[i].client_id \in job'[c].todo
                   \/ \E s \in job'[c].scans : s.id = packets[i].client_id
  <2>1. ~job[c].cut /\ ~cut
    BY <1>3, <1>10, Zenon
  <2>2. job[c].base <= n
    BY <1>1, <1>5, <1>9, <2>1
  <2>3. /\ \A s \in job[c].scans : job[c].base <= s.upTo
        /\ \A i \in 1..job[c].base :
             \/ packets[i].client_id \in job[c].todo
             \/ \E s \in job[c].scans : s.id = packets[i].client_id
    BY <1>4, <2>1 DEF RequestOK
  <2>4. \A s \in job'[c].scans : job[c].base <= s.upTo
    BY <1>3, <2>2, <2>3
  <2>5. ASSUME NEW i \in 1..job[c].base
        PROVE  \/ packets[i].client_id \in job'[c].todo
               \/ \E s \in job'[c].scans : s.id = packets[i].client_id
    <3>1. CASE packets[i].client_id \in job[c].todo \ {id}
      BY <1>3, <3>1
    <3>2. CASE packets[i].client_id = id
      <4>1. [id |-> id, upTo |-> n] \in job'[c].scans
        BY <1>3
      <4>2. QED
        BY <3>2, <4>1
    <3>3. CASE \E s \in job[c].scans : s.id = packets[i].client_id
      BY <1>3, <3>3
    <3>4. QED
      BY <2>3, <3>1, <3>2, <3>3
  <2>6. QED
    BY <2>4, <2>5
<1>11. Len(packets) <= Len(packets)
  BY <1>2
<1>12. QED
  BY <1>3, <1>4, <1>6, <1>7, <1>8, <1>9, <1>10, <1>11 DEF RequestOK, StatPc

\* The thread is done with all of its clients, so each row of the request was
\* scanned for, and no scan of a request that was not cut is too short.
LEMMA RepliesOK ==
  ASSUME TypeOK, NEW c \in Conn, JobReplies(c), RequestOK(c)
  PROVE  RequestOK(c)'
<1>1. /\ pc[c] = "packets" /\ pc'[c] = "check" /\ job'[c] = NoJob /\ job[c].todo = {}
      /\ reply'[c].scans = job[c].scans /\ reply'[c].base = job[c].base
      /\ reply'[c].cut = job[c].cut /\ UNCHANGED <<clients, packets>>
  BY DEF JobReplies
<1>2. job[c].base \in Nat /\ job[c].from \in Nat /\ Len(packets) \in Nat
  BY DEF TypeOK, ThreadTypeOK, DatabaseTypeOK, Job
<1>3. job[c].base <= Len(packets)
  BY <1>1, <1>2 DEF RequestOK
<1>4. ReplyOK(reply[c])'
  BY <1>1, <1>3 DEF RequestOK, ReplyOK, SoundScans
<1>5. QED
  BY <1>1, <1>4 DEF RequestOK, StatPc

LEMMA RequestsStep ==
  ASSUME TypeOK, TypeOK', Connected, Attribution, Requests, [Next]_vars
  PROVE  Requests'
<1> SUFFICES ASSUME NEW c \in Conn
             PROVE  RequestOK(c)'
  BY DEF Requests
<1>1. Grows /\ RequestOK(c)
  BY GrowsStep DEF Requests
<1>2. \/ JobRests(c) \/ JobEnds(c) \/ JobAsks(c) \/ JobLists(c) \/ JobScans(c) \/ JobReplies(c)
  BY RequestEffect DEF NoneAnswered, AllRest, OthersRest
<1>3. QED
  BY <1>1, <1>2, RestsOK, EndsOK, AsksOK, ListsOK, ScansOK, RepliesOK

LEMMA InitRequests == Init => Requests
<1> SUFFICES ASSUME Init, NEW c \in Conn
             PROVE  RequestOK(c)
  BY DEF Requests
<1>1. pc[c] = "none" /\ job[c] = NoJob /\ reply[c] = NoReply /\ packets = <<>>
  BY DEF Init, DatabaseInit
<1>2. ReplyOK(reply[c])
  BY <1>1 DEF ReplyOK, SoundScans, NoReply
<1>3. QED
  BY <1>1, <1>2 DEF RequestOK, StatPc

\* While threads register clients and store readings, no scan of another
\* thread loses a row that its request must cover, unless a step fails.
THEOREM RequestsCorrect == Spec => []Requests
<1>1. TypeOK /\ Connected /\ Readings => Attribution
  BY DEF Readings
<1>2. TypeOK /\ TypeOK' /\ Connected /\ Readings /\ Requests /\ [Next]_vars => Requests'
  BY <1>1, RequestsStep
<1>3. QED
  BY <1>2, InitRequests, TypeCorrect, ReadingsCorrect, PTL DEF Spec

\* A reply has one entry per uuid: its scans are of different rows of clients,
\* and these have different uuids.
THEOREM OneEntryPerClientCorrect == Spec => []OneEntryPerClient
<1>1. UniqueClients /\ Requests => OneEntryPerClient
  BY DEF UniqueClients, Requests, RequestOK, ReplyOK, SoundScans, OneEntryPerClient
<1>2. QED
  BY <1>1, UniqueClientsCorrect, RequestsCorrect, PTL

-----------------------------------------------------------------------------
(* The server implements Survey. *)

Asked == [c \in Conn |-> IF pc[c] \in StatPc THEN job[c].base ELSE -1]

LEMMA RestsAsked ==
  ASSUME NEW c \in Conn, JobRests(c) \/ JobLists(c) \/ JobScans(c), job[c] \in Job
  PROVE  (pc'[c] \in StatPc <=> pc[c] \in StatPc) /\ job'[c].base = job[c].base /\ reply'[c] = reply[c]
<1>1. CASE JobRests(c)
  BY <1>1 DEF JobRests
<1>2. CASE JobLists(c)
  BY <1>2 DEF JobLists, StatPc, Job
<1>3. CASE JobScans(c)
  BY <1>3 DEF JobScans, StatPc, Job
<1>4. QED
  BY <1>1, <1>2, <1>3

LEMMA NoneAnsweredAbandons ==
  ASSUME TypeOK, TypeOK', NoneAnswered
  PROVE  \E S \in SUBSET Conn : Answers!Abandon(S)
<1>1. PICK S \in SUBSET Conn : S = {c \in Conn : pc'[c] \notin StatPc}
  OBVIOUS
<1>2. \A c \in Conn : job[c] \in Job
  BY DEF TypeOK, ThreadTypeOK
<1>3. \A c \in Conn : /\ reply'[c] = reply[c]
                      /\ c \notin S => pc[c] \in StatPc /\ job'[c].base = job[c].base
  BY <1>1, <1>2, RestsAsked DEF NoneAnswered, JobEnds, StatPc
<1>4. reply' = reply
  BY <1>3 DEF TypeOK, ThreadTypeOK
<1>5. Asked' = [c \in Conn |-> IF c \in S THEN -1 ELSE Asked[c]]
  BY <1>1, <1>3 DEF Asked
<1>6. Answers!Abandon(S)
  BY <1>4, <1>5 DEF Answers!Abandon, NoneAnswered, Asked
<1>7. QED
  BY <1>6

LEMMA StoresInserts ==
  ASSUME TypeOK, TypeOK', NEW c \in Conn, Stores(c), AllRest
  PROVE  Answers!Insert
<1>1. \A d \in Conn : /\ reply'[d] = reply[d] /\ job'[d].base = job[d].base
                      /\ (pc'[d] \in StatPc <=> pc[d] \in StatPc)
  BY DEF AllRest, JobRests
<1>2. reply' = reply
  BY <1>1 DEF TypeOK, ThreadTypeOK
<1>3. Asked' = Asked
  BY <1>1 DEF Asked
<1>4. QED
  BY <1>2, <1>3, StoresAppends DEF Answers!Insert, Asked

LEMMA AsksAsks ==
  ASSUME TypeOK, TypeOK', NEW c \in Conn, JobAsks(c), OthersRest(c)
  PROVE  Answers!Ask(c)
<1>1. \A d \in Conn : /\ reply'[d] = reply[d]
                      /\ d # c => /\ job'[d].base = job[d].base
                                  /\ (pc'[d] \in StatPc <=> pc[d] \in StatPc)
  BY DEF JobAsks, OthersRest, JobRests
<1>2. /\ pc[c] \notin StatPc /\ pc'[c] \in StatPc /\ job'[c].base = Len(packets)
      /\ UNCHANGED packets
  BY DEF TypeOK, ThreadTypeOK, JobAsks, StatPc, Job
<1>3. reply' = reply
  BY <1>1 DEF TypeOK, ThreadTypeOK
<1>4. Asked' = [Asked EXCEPT ![c] = Len(packets)] /\ Asked[c] = -1
  BY <1>1, <1>2 DEF Asked
<1>5. QED
  BY <1>2, <1>3, <1>4 DEF Answers!Ask, Asked

LEMMA RepliesFaithful ==
  ASSUME TypeOK, NEW c \in Conn, RequestOK(c), JobReplies(c)
  PROVE  Answers!Faithful(reply'[c], job[c].base)
<1>1. /\ reply'[c].base = job[c].base /\ reply'[c].scans = job[c].scans
      /\ reply'[c].cut = job[c].cut /\ job[c].todo = {} /\ pc[c] = "packets"
  BY DEF JobReplies
<1>2. QED
  BY <1>1 DEF RequestOK, SoundScans, Answers!Faithful

LEMMA RepliesAnswers ==
  ASSUME TypeOK, TypeOK', NEW c \in Conn, RequestOK(c), JobReplies(c), OthersRest(c)
  PROVE  Answers!Answer(c)
<1>1. \A d \in Conn \ {c} : /\ reply'[d] = reply[d] /\ job'[d].base = job[d].base
                            /\ (pc'[d] \in StatPc <=> pc[d] \in StatPc)
  BY DEF OthersRest, JobRests
<1>2. pc[c] \in StatPc /\ pc'[c] \notin StatPc /\ UNCHANGED packets
  BY DEF JobReplies, StatPc
<1>3. reply' = [reply EXCEPT ![c] = reply'[c]]
  BY <1>1 DEF TypeOK, ThreadTypeOK
<1>4. Asked' = [Asked EXCEPT ![c] = -1] /\ Asked[c] = job[c].base
  BY <1>1, <1>2 DEF Asked
<1>5. job[c].base >= 0
  BY DEF TypeOK, ThreadTypeOK, Job
<1>6. QED
  BY <1>2, <1>3, <1>4, <1>5, RepliesFaithful DEF Answers!Answer, Asked

\* The server keeps the promise of Survey: whatever other threads store and
\* register meanwhile, a reply is made of one scan per client, and covers its
\* request unless a step failed.
THEOREM ImplementsSurveyCorrect == Spec => ImplementsSurvey
<1>1. Init => Answers!Init
  <2> SUFFICES ASSUME Init PROVE Answers!Init
    OBVIOUS
  <2>1. packets = <<>> /\ Asked = [c \in Conn |-> -1]
    BY DEF Init, DatabaseInit, Asked, StatPc
  <2>2. ASSUME NEW c \in Conn
        PROVE  Answers!Faithful(reply[c], 0)
    BY <2>1 DEF Init, NoReply, Answers!Faithful
  <2>3. QED
    BY <2>1, <2>2 DEF Answers!Init, Asked
<1>2. TypeOK /\ TypeOK' /\ Connected /\ Requests /\ [Next]_vars =>
        [Answers!Next]_Answers!vars
  <2> SUFFICES ASSUME TypeOK, TypeOK', Connected, Requests, [Next]_vars
               PROVE  [Answers!Next]_Answers!vars
    OBVIOUS
  <2>1. CASE NoneAnswered
    BY <2>1, NoneAnsweredAbandons DEF Answers!Next
  <2>2. ASSUME NEW c \in Conn, Stores(c), AllRest
        PROVE  Answers!Next
    BY <2>2, StoresInserts DEF Answers!Next
  <2>3. ASSUME NEW c \in Conn, JobAsks(c), OthersRest(c)
        PROVE  Answers!Next
    BY <2>3, AsksAsks DEF Answers!Next
  <2>4. ASSUME NEW c \in Conn, JobReplies(c), OthersRest(c)
        PROVE  Answers!Next
    BY <2>4, RepliesAnswers DEF Answers!Next, Requests
  <2>5. QED
    BY <2>1, <2>2, <2>3, <2>4, RequestEffect
<1>3. QED
  BY <1>1, <1>2, TypeCorrect, RequestsCorrect, PTL DEF Spec, ImplementsSurvey, Answers!Spec

-----------------------------------------------------------------------------
(* The rows that a scan selects, for every number of stored rows. *)

Columns(p) == [timestamp |-> p.timestamp, x |-> p.x, y |-> p.y]

LEMMA ColumnsType ==
  ASSUME DatabaseTypeOK, NEW i \in DOMAIN packets
  PROVE  Columns(packets[i]) \in Sample /\ packets[i].timestamp \in Int
<1>1. packets[i] \in Row
  BY DEF DatabaseTypeOK
<1>2. QED
  BY <1>1 DEF Row, Columns, Sample

\* The rows selected so far, row by row of the table.
LEMMA SelectedStep ==
  ASSUME DatabaseTypeOK, NEW id
  PROVE  /\ Selected(id) \in [0..Len(packets) -> Rows]
         /\ Selected(id)[0] = <<>>
         /\ \A n \in 1..Len(packets) :
              Selected(id)[n] =
                IF packets[n].client_id = id THEN Append(Selected(id)[n - 1], Columns(packets[n]))
                ELSE Selected(id)[n - 1]
<1> DEFINE N == Len(packets)
           step == [p \in (1..N) \X Rows |->
                      IF packets[p[1]].client_id = id THEN Append(p[2], Columns(packets[p[1]]))
                      ELSE p[2]]
           Loop(s) == s = [n \in 0..N |->
                             IF n = 0 THEN <<>>
                             ELSE IF packets[n].client_id = id
                             THEN Append(s[n - 1], Columns(packets[n]))
                             ELSE s[n - 1]]
<1>1. N \in Nat /\ \A n \in 1..N : Columns(packets[n]) \in Sample
  BY ColumnsType DEF DatabaseTypeOK
<1>2. step \in [(1..N) \X Rows -> Rows]
  <2>1. ASSUME NEW n \in 1..N, NEW rows \in Rows
        PROVE  Append(rows, Columns(packets[n])) \in Rows
    BY <1>1, <2>1 DEF Rows
  <2>2. QED
    BY <2>1
<1>3. <<>> \in Rows
  BY DEF Rows
<1>4. PICK f \in [0..N -> Rows] : Iterates(f, N, <<>>, step)
  <2> HIDE DEF step, N
  <2>1. QED
    BY <1>1, <1>2, <1>3, IteratesExist
<1>5. \A n \in 1..N : n - 1 \in 0..N /\ <<n, f[n - 1]>> \in (1..N) \X Rows
  BY <1>1
<1>6. Loop(f)
  <2>1. f = [n \in 0..N |-> IF n = 0 THEN <<>> ELSE step[<<n, f[n - 1]>>]]
    BY <1>4 DEF Iterates
  <2>2. \A n \in 1..N : step[<<n, f[n - 1]>>] =
          IF packets[n].client_id = id THEN Append(f[n - 1], Columns(packets[n])) ELSE f[n - 1]
    BY <1>5
  <2>3. \A n \in 0..N : n # 0 => n \in 1..N
    BY <1>1
  <2> HIDE DEF step
  <2>4. QED
    BY <2>1, <2>2, <2>3
<1>7. Selected(id) = CHOOSE s : Loop(s)
  BY DEF Selected, Columns
<1>8. Loop(Selected(id))
  <2> HIDE DEF Loop
  <2>1. QED
    BY <1>6, <1>7
<1> DEFINE s == Selected(id)
<1>9. ASSUME NEW n \in 0..N
      PROVE  s[n] = f[n]
  <2> DEFINE T == {m \in Nat : m <= N => s[m] = f[m]}
  <2>1. 0 \in T
    BY <1>1, <1>6, <1>8
  <2>2. ASSUME NEW m \in Nat, m \in T
        PROVE  m + 1 \in T
    <3> SUFFICES ASSUME m + 1 <= N PROVE s[m + 1] = f[m + 1]
      OBVIOUS
    <3>1. m + 1 \in 0..N /\ m + 1 # 0 /\ (m + 1) - 1 = m
      BY <1>1
    <3>2. s[m] = f[m]
      BY <1>1, <2>2
    <3>3. ASSUME NEW w, Loop(w)
          PROVE  w[m + 1] = IF packets[m + 1].client_id = id
                            THEN Append(w[m], Columns(packets[m + 1])) ELSE w[m]
      BY <3>1, <3>3
    <3> HIDE DEF Loop, s
    <3>4. s[m + 1] = IF packets[m + 1].client_id = id
                     THEN Append(s[m], Columns(packets[m + 1])) ELSE s[m]
      BY <1>8, <3>3 DEF s
    <3>5. QED
      BY <1>6, <3>2, <3>3, <3>4
  <2>3. n \in T
    <3> HIDE DEF T
    <3>1. QED
      BY <1>1, <2>1, <2>2, SetInduction
  <2>4. QED
    BY <1>1, <2>3
<1>10. s = f
  <2>1. DOMAIN s = 0..N /\ s = [n \in DOMAIN s |-> s[n]]
    BY <1>8
  <2>2. s = [n \in 0..N |-> f[n]]
    BY <1>9, <2>1
  <2>3. QED
    BY <2>2
<1>11. \A n \in 1..N : n \in 0..N /\ n # 0
  BY <1>1
<1>12. 0 \in 0..N
  BY <1>1
<1>13. QED
  BY <1>4, <1>6, <1>10, <1>11, <1>12

LEMMA ClientRowsType ==
  ASSUME DatabaseTypeOK, NEW id, NEW n \in 0..Len(packets)
  PROVE  ClientRows(id, n) \in Rows
BY SelectedStep DEF ClientRows

\* The rows of a client that a scan of the first n rows finds in a window.
RecentOf(id, from, n) == {i \in 1..n : packets[i].client_id = id /\ packets[i].timestamp >= from}

LEMMA ClientRowsCount ==
  ASSUME DatabaseTypeOK, NEW id, NEW from \in Int, NEW n \in 0..Len(packets)
  PROVE  /\ IsFiniteSet(RecentOf(id, from, n))
         /\ Window(ClientRows(id, n), from).countX = Cardinality(RecentOf(id, from, n))
<1> DEFINE T == {m \in Nat : m <= Len(packets) =>
                   /\ IsFiniteSet(RecentOf(id, from, m))
                   /\ Window(ClientRows(id, m), from).countX = Cardinality(RecentOf(id, from, m))}
<1>1. Len(packets) \in Nat /\ n \in Nat
  BY DEF DatabaseTypeOK
<1>2. 0 \in T
  <2>1. ClientRows(id, 0) = <<>>
    BY SelectedStep DEF ClientRows
  <2>2. Window(ClientRows(id, 0), from).countX = 0
    BY <2>1, WindowEmpty DEF EmptyWindow
  <2>3. RecentOf(id, from, 0) = {}
    BY DEF RecentOf
  <2>4. QED
    BY <2>2, <2>3, FS_EmptySet
<1>3. ASSUME NEW m \in Nat, m \in T
      PROVE  m + 1 \in T
  <2> SUFFICES ASSUME m + 1 <= Len(packets)
               PROVE  /\ IsFiniteSet(RecentOf(id, from, m + 1))
                      /\ Window(ClientRows(id, m + 1), from).countX =
                           Cardinality(RecentOf(id, from, m + 1))
    OBVIOUS
  <2> DEFINE r == Columns(packets[m + 1])
             w == Window(ClientRows(id, m), from)
             R == RecentOf(id, from, m)
  <2>1. /\ m + 1 \in 1..Len(packets) /\ (m + 1) - 1 = m /\ m \in 0..Len(packets)
        /\ IsFiniteSet(R) /\ w.countX = Cardinality(R)
    BY <1>1, <1>3
  <2>2. ClientRows(id, m) \in Rows /\ r \in Sample /\ r.timestamp = packets[m + 1].timestamp
    BY <2>1, ClientRowsType, ColumnsType DEF DatabaseTypeOK, Columns
  <2>3. ClientRows(id, m + 1) =
          IF packets[m + 1].client_id = id THEN Append(ClientRows(id, m), r)
          ELSE ClientRows(id, m)
    BY <2>1, SelectedStep DEF ClientRows
  <2>4. 1..(m + 1) = (1..m) \cup {m + 1} /\ m + 1 \notin 1..m
    OBVIOUS
  <2>5. CASE packets[m + 1].client_id = id /\ packets[m + 1].timestamp >= from
    <3>1. Window(ClientRows(id, m + 1), from) = Accumulate(w, r)
      BY <2>2, <2>3, <2>5, WindowAppend
    <3>2. Window(ClientRows(id, m + 1), from).countX = w.countX + 1
      BY <3>1 DEF Accumulate
    <3>3. RecentOf(id, from, m + 1) = R \cup {m + 1} /\ m + 1 \notin R
      BY <2>4, <2>5 DEF RecentOf
    <3>4. IsFiniteSet(R \cup {m + 1}) /\ Cardinality(R \cup {m + 1}) = Cardinality(R) + 1
      BY <2>1, <3>3, FS_AddElement
    <3>5. QED
      BY <2>1, <3>2, <3>3, <3>4
  <2>6. CASE ~(packets[m + 1].client_id = id /\ packets[m + 1].timestamp >= from)
    <3>1. Window(ClientRows(id, m + 1), from) = w
      BY <2>2, <2>3, <2>6, WindowAppend
    <3>2. RecentOf(id, from, m + 1) = R
      BY <2>4, <2>6 DEF RecentOf
    <3>3. QED
      BY <2>1, <3>1, <3>2
  <2>7. QED
    BY <2>5, <2>6
<1>4. n \in T
  <2> HIDE DEF T
  <2>1. QED
    BY <1>1, <1>2, <1>3, SetInduction
<1>5. QED
  BY <1>1, <1>4

\* A scan reports a client that has a row in the longer window.
LEMMA ScanReports ==
  ASSUME DatabaseTypeOK, NEW now \in Int, NEW n \in 0..Len(packets), NEW i \in 1..n,
         packets[i].timestamp >= now - Interval2
  PROVE  Reported(ClientRows(packets[i].client_id, n), now)
<1> DEFINE R == RecentOf(packets[i].client_id, now - Interval2, n)
<1>1. now - Interval2 \in Int
  BY IntervalAssumption
<1>2. IsFiniteSet(R) /\ Window(ClientRows(packets[i].client_id, n), now - Interval2).countX = Cardinality(R)
  BY <1>1, ClientRowsCount
<1>3. i \in R
  BY DEF RecentOf
<1>4. Cardinality(R) \in Nat /\ Cardinality(R) # 0
  BY <1>2, <1>3, FS_CardinalityType, FS_EmptySet
<1>5. QED
  BY <1>2, <1>4 DEF Reported

\* The entry that a scan makes of a client with a recent row is in the reply.
LEMMA ReplyCovers ==
  ASSUME TypeOK, NEW c \in Conn, ReplyOK(reply[c]), ~reply[c].cut,
         NEW i \in 1..reply[c].base, packets[i].timestamp >= reply[c].at - Interval2
  PROVE  \E n \in reply[c].base..Len(packets) :
           Entry(clients[packets[i].client_id], ClientRows(packets[i].client_id, n), reply[c].at)
             \in Statistics(reply[c])
<1>1. PICK s \in reply[c].scans : s.id = packets[i].client_id
  BY DEF ReplyOK
<1>2. /\ reply[c].base <= s.upTo /\ s.upTo <= Len(packets)
      /\ reply[c].base \in Nat /\ s.upTo \in Nat /\ Len(packets) \in Nat /\ reply[c].at \in Int
  BY <1>1 DEF ReplyOK, SoundScans, TypeOK, ThreadTypeOK, DatabaseTypeOK, Reply, Scan
<1>3. s.upTo \in 0..Len(packets) /\ i \in 1..s.upTo /\ s.upTo \in reply[c].base..Len(packets)
  BY <1>2
<1>4. Reported(ClientRows(s.id, s.upTo), reply[c].at)
  BY <1>1, <1>2, <1>3, ScanReports DEF TypeOK
<1>5. Entry(clients[s.id], ClientRows(s.id, s.upTo), reply[c].at) \in Statistics(reply[c])
  BY <1>1, <1>4 DEF Statistics
<1>6. QED
  BY <1>1, <1>3, <1>5

\* Whatever is stored and registered while the statistics are collected, a
\* reply that no failing step cut short has an entry for every client with a
\* recent row at the time of the request, exact for the table as it then was or
\* became until the reply.
THEOREM StatisticsCoverRequestCorrect == Spec => []StatisticsCoverRequest
<1>1. TypeOK /\ Requests => StatisticsCoverRequest
  BY ReplyCovers DEF Requests, RequestOK, StatisticsCoverRequest
<1>2. QED
  BY <1>1, TypeCorrect, RequestsCorrect, PTL

=============================================================================
