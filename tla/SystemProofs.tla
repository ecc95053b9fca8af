---------------------------- MODULE SystemProofs ----------------------------
(***************************************************************************)
(* Proofs about the whole system: the server behaves as Server allows when *)
(* its peers are the clients, so that all that is proved of Server holds   *)
(* of the system; and a client that ends without an error lost nothing.    *)
(***************************************************************************)
EXTENDS SystemInvariant, ServerProofs

-----------------------------------------------------------------------------
(* A step of the system is a step of Server. *)

LEMMA SystemSteps ==
  ASSUME [SystemNext]_systemVars
  PROVE  [Next]_vars
<1>1. CASE UNCHANGED systemVars \/ AllOver
  BY <1>1 DEF systemVars, AllOver
<1>2. CASE MainServes \/ MainMishap
  BY <1>2 DEF MainServes, MainMishap, Next
<1>3. ASSUME NEW c \in Conn, ThreadServes(c) \/ ThreadMishap(c)
      PROVE  [Next]_vars
  BY <1>3 DEF ThreadServes, ThreadMishap, Next
<1>4. ASSUME NEW c \in Conn, Dials(c)
      PROVE  [Next]_vars
  BY <1>4 DEF Dials, Next
<1>5. ASSUME NEW c \in Conn, Upgrades(c)
      PROVE  [Next]_vars
  BY <1>5 DEF Upgrades, ToServer, Next, PeerStep
<1>6. ASSUME NEW c \in Conn, SendsReading(c)
      PROVE  [Next]_vars
  BY <1>6 DEF SendsReading, ToServer, OwnReadings, Next, PeerStep
<1>7. ASSUME NEW c \in Conn, Asks(c)
      PROVE  [Next]_vars
  BY <1>7 DEF Asks, ToServer, Next, PeerStep
<1>8. ASSUME NEW c \in Conn, Closes(c)
      PROVE  [Next]_vars
  BY <1>8 DEF Closes, ToServer, Next, PeerStep
<1>9. ASSUME NEW c \in Conn, Dies(c) \/ LinkBreaks(c)
      PROVE  [Next]_vars
  BY <1>9 DEF Dies, LinkBreaks, Next, PeerStep
<1>10. ASSUME NEW c \in Conn, Alone(c) \/ ResetArrives(c)
       PROVE  [Next]_vars
  BY <1>10 DEF Alone, ResetArrives
<1>11. QED
  BY <1>1, <1>2, <1>3, <1>4, <1>5, <1>6, <1>7, <1>8, <1>9, <1>10 DEF SystemNext, ClientStep

\* The system's server is the server of Server: with its own clients it does
\* nothing that it may not do with arbitrary peers.
THEOREM SystemImplementsServer == SystemSpec => Spec
<1>1. SystemInit => Init
  BY DEF SystemInit
<1>2. [SystemNext]_systemVars => [Next]_vars
  BY SystemSteps
<1>3. QED
  BY <1>1, <1>2, PTL DEF SystemSpec, Spec

\* Likewise, each of the system's clients is a client of Client.
THEOREM SystemImplementsClients == SystemSpec => C!Spec
<1>1. SystemInit => C!Init
  BY DEF SystemInit
<1>2. ASSUME NEW S \in SUBSET Conn, NEW answer \in C!Answer, C!Serve(S, answer, HungUp)
      PROVE  C!Next
  BY <1>2 DEF C!Next, HungUp
<1>3. ASSUME Unanswered
      PROVE  C!Next
  BY <1>2, <1>3 DEF Unanswered, C!Answer
<1>4. ASSUME NEW c \in Conn, ThreadServes(c)
      PROVE  C!Next
  <2>1. PICK answer \in C!Answer, S \in SUBSET Conn : C!Serve(S, answer, HungUp)
    BY <1>4 DEF ThreadServes, C!Answer
  <2>2. QED
    BY <2>1, <1>2
<1>5. ASSUME NEW c \in Conn, ClientStep(c) \/ Dies(c) \/ ResetArrives(c) \/ LinkBreaks(c)
      PROVE  [C!Next]_(C!clientVars)
  BY <1>5 DEF ClientStep, Dials, Upgrades, SendsReading, Asks, Closes, Alone, Dies,
     ResetArrives, LinkBreaks, C!Next, C!clientVars
<1>6. SystemNext => [C!Next]_(C!clientVars)
  BY <1>3, <1>4, <1>5 DEF SystemNext, MainServes, MainMishap, ThreadMishap, AllOver, systemVars,
     C!clientVars
<1>7. UNCHANGED systemVars => UNCHANGED C!clientVars
  BY DEF systemVars, C!clientVars
<1>8. QED
  BY <1>1, <1>6, <1>7, PTL DEF SystemSpec, C!Spec

-----------------------------------------------------------------------------
(* Types of the clients' state. *)

LEMMA ServeType ==
  ASSUME ClientTypeOK, NEW S, NEW answer \in C!Answer, NEW T,
         C!Serve(S, answer, T), UNCHANGED <<lost, before>>
  PROVE  ClientTypeOK'
BY DEF ClientTypeOK, C!Serve

LEMMA GoesType ==
  ASSUME ClientTypeOK, NEW c \in Conn, NEW here, NEW next \in C!ClientPc, C!Goes(c, here, next)
  PROVE  /\ at' \in [Conn -> C!ClientPc] /\ UNCHANGED <<interrupted, inbox, eof>>
         /\ at[c] = here /\ at' = [at EXCEPT ![c] = next]
BY DEF ClientTypeOK, C!Goes, C!To

LEMMA ReadsType ==
  ASSUME ClientTypeOK, NEW c \in Conn, NEW here, NEW next \in C!ClientPc, C!Reads(c, here, next)
  PROVE  /\ at' \in [Conn -> C!ClientPc] /\ UNCHANGED <<interrupted, eof>>
         /\ inbox' = [inbox EXCEPT ![c] = "none"]
         /\ at[c] = here /\ at' = [at EXCEPT ![c] = next] /\ inbox[c] = C!Await[here]
BY DEF ClientTypeOK, C!Reads, C!To
LEMMA ClientPcs ==
  /\ {"off", "upgrade", "body", "request", "close", "handshake", "reply", "closing",
      "exited", "failed", "aborted", "killed"} \subseteq C!ClientPc
  /\ DOMAIN C!Await = {"handshake", "reply", "closing"}
  /\ C!Await["closing"] = "close"
  /\ \A here : C!Thrown(here) \in C!ClientPc
  /\ \A c : C!AfterTurn(c) \in C!ClientPc
BY DEF C!ClientPc, C!Writing, C!Await, C!Over, C!Thrown, C!AfterTurn

LEMMA AloneType ==
  ASSUME ClientTypeOK, NEW c \in Conn, Alone(c)
  PROVE  ClientTypeOK'
<1>1. UNCHANGED <<lost, before>>
  BY DEF Alone
<1>2. ASSUME NEW here, NEW next \in C!ClientPc, C!Goes(c, here, next)
      PROVE  ClientTypeOK'
  BY <1>1, <1>2, GoesType DEF ClientTypeOK
<1>3. ASSUME NEW here, NEW next \in C!ClientPc, C!Reads(c, here, next)
      PROVE  ClientTypeOK'
  BY <1>1, <1>3, ReadsType DEF ClientTypeOK
<1>4. CASE C!Interrupt(c)
  BY <1>1, <1>4 DEF ClientTypeOK, C!Interrupt
<1>5. CASE C!Upgraded(c) \/ C!GetReply(c) \/ C!Closed(c)
  BY <1>3, <1>5, ClientPcs DEF C!Upgraded, C!GetReply, C!Closed
<1>6. CASE C!NotDue(c) \/ C!WriteFails(c) \/ C!ReadFails(c)
  BY <1>2, <1>6, ClientPcs DEF C!NotDue, C!WriteFails, C!ReadFails
<1>7. QED
  BY <1>4, <1>5, <1>6 DEF Alone, C!Alone

LEMMA WriteType ==
  ASSUME ClientTypeOK, NEW c \in Conn,
         Upgrades(c) \/ SendsReading(c) \/ Asks(c) \/ Closes(c)
  PROVE  ClientTypeOK'
<1>1. lost' \in [Conn -> BOOLEAN]
  BY DEF ClientTypeOK, Upgrades, SendsReading, Asks, Closes, ToServer
<1>2. before' \in [Conn -> SUBSET Conn]
  <2>1. CASE Asks(c)
    <3>1. PICK ended \in SUBSET Conn : before' = [before EXCEPT ![c] = ended]
      BY <2>1 DEF Asks
    <3>2. QED
      BY <3>1 DEF ClientTypeOK
  <2>2. CASE UNCHANGED before
    BY <2>2 DEF ClientTypeOK
  <2>3. QED
    BY <2>1, <2>2 DEF Upgrades, SendsReading, Closes
<1>3. \E here \in C!Writing, next \in C!ClientPc : C!Goes(c, here, next)
  <2>1. CASE Upgrades(c)
    BY <2>1, ClientPcs DEF Upgrades, C!Upgrade, C!Writes, C!Writing
  <2>2. CASE SendsReading(c)
    BY <2>2, ClientPcs DEF SendsReading, C!Send, C!Writes, C!Writing
  <2>3. CASE Asks(c)
    BY <2>3, ClientPcs DEF Asks, C!Request, C!Writes, C!Writing
  <2>4. CASE Closes(c)
    BY <2>4, ClientPcs DEF Closes, C!Close, C!Writes, C!Writing
  <2>5. QED
    BY <2>1, <2>2, <2>3, <2>4
<1>4. QED
  BY <1>1, <1>2, <1>3, GoesType DEF ClientTypeOK

LEMMA ClientTypeStep ==
  ASSUME ClientTypeOK, [SystemNext]_systemVars
  PROVE  ClientTypeOK'
<1>1. CASE UNCHANGED systemVars \/ AllOver
  BY <1>1 DEF ClientTypeOK, systemVars, AllOver
<1>2. CASE MainServes \/ MainMishap
  BY <1>2, ServeType DEF MainServes, MainMishap, Unanswered, C!Answer
<1>3. ASSUME NEW c \in Conn, ThreadServes(c) \/ ThreadMishap(c)
      PROVE  ClientTypeOK'
  BY <1>3, ServeType DEF ThreadServes, ThreadMishap, Unanswered, C!Answer
<1>4. ASSUME NEW c \in Conn, Dials(c)
      PROVE  ClientTypeOK'
  <2>1. UNCHANGED <<lost, before>>
    BY <1>4 DEF Dials
  <2>2. \E next \in C!ClientPc : C!Goes(c, "off", next)
    BY <1>4, ClientPcs DEF Dials, C!Dial, C!DialFails
  <2>3. QED
    BY <2>1, <2>2, GoesType DEF ClientTypeOK
<1>5. ASSUME NEW c \in Conn, Dies(c)
      PROVE  ClientTypeOK'
  BY <1>5, GoesType, ClientPcs DEF Dies, C!Kill, ClientTypeOK
<1>6. ASSUME NEW c \in Conn, LinkBreaks(c) \/ ResetArrives(c)
      PROVE  ClientTypeOK'
  BY <1>6 DEF LinkBreaks, ResetArrives, C!Reset, ClientTypeOK
<1>7. QED
  BY <1>1, <1>2, <1>3, <1>4, <1>5, <1>6, AloneType, WriteType DEF SystemNext, ClientStep

-----------------------------------------------------------------------------
(* What is stored stays stored, and an ended connection stays as it is. *)

LEMMA OriginGrows ==
  ASSUME TypeOK, Connected, [Next]_vars
  PROVE  \A i \in DOMAIN origin : i \in DOMAIN origin' /\ origin'[i] = origin[i]
<1>1. ASSUME NEW c \in Conn, Stores(c)
      PROVE  \A i \in DOMAIN origin : i \in DOMAIN origin' /\ origin'[i] = origin[i]
  BY <1>1, StoresAppends
<1>2. QED
  BY <1>1, Effect DEF Keeps, Reads, Finds, Registers, Sends

LEMMA DoneStays ==
  ASSUME TypeOK, Connected, [Next]_vars, NEW c \in Conn, pc[c] = "done"
  PROVE  pc'[c] = "done" /\ sent'[c] = sent[c]
<1>1. CASE Keeps
  BY <1>1 DEF Keeps
<1>2. ASSUME NEW d \in Conn, Reads(d) \/ Finds(d) \/ Registers(d) \/ Stores(d)
      PROVE  pc'[c] = "done" /\ sent'[c] = sent[c]
  BY <1>2 DEF TypeOK, ThreadTypeOK, Reads, Finds, Registers, Stores, Moves
<1>3. ASSUME NEW d \in Conn, Sends(d)
      PROVE  pc'[c] = "done" /\ sent'[c] = sent[c]
  BY <1>3 DEF TypeOK, NetTypeOK, Sends
<1>4. QED
  BY <1>1, <1>2, <1>3, Effect

LEMMA StoredLasts ==
  ASSUME TypeOK, Connected, [Next]_vars, NEW c \in Conn, sent'[c] = sent[c], AllStored(c)
  PROVE  AllStored(c)'
BY OriginGrows DEF AllStored
-----------------------------------------------------------------------------
(* The close handshake acknowledges all readings. *)

\* Nothing happens to connection c but that the server, or the network, goes on.
Rests(c) ==
  /\ at'[c] = at[c] /\ lost'[c] = lost[c]
  /\ inbox'[c] = inbox[c] \/ inbox'[c] # "close"
  /\ peer'[c] = peer[c] \/ (peer'[c] = "reset" /\ peer[c] # "none")

LEMMA RestsAcknowledges ==
  ASSUME TypeOK, Connected, [Next]_vars, NEW c \in Conn, Rests(c), Acknowledges(c)
  PROVE  Acknowledges(c)'
<1>1. pc[c] = "done" => pc'[c] = "done"
  BY DoneStays
<1>2. pc[c] = "done" /\ AllStored(c) => AllStored(c)'
  BY DoneStays, StoredLasts
<1>3. QED
  BY <1>1, <1>2 DEF Rests, Acknowledges

\* The thread answers a close frame when it has read everything before it, and
\* what it has read it has stored.
LEMMA CloseAcknowledges ==
  ASSUME TypeOK, Cursor, Connected, Readings, [Next]_vars, NEW c \in Conn, Acknowledges(c),
         ReadFails(c), peer[c] = "closed", UNCHANGED <<at, lost>>
  PROVE  Acknowledges(c)'
<1>1. /\ pc[c] = "read" /\ pc'[c] = "done" /\ rd[c] = Len(sent[c])
      /\ UNCHANGED <<peer, sent>>
  BY DEF ReadFails, EndThread, netVars, TypeOK, ThreadTypeOK
<1>2. Settled[c] = Len(sent[c]) /\ DOMAIN sent[c] = 1..Len(sent[c])
  BY <1>1 DEF Settled, SavePc, TypeOK, NetTypeOK
<1>3. AllStored(c)
  BY <1>1, <1>2 DEF Readings, SettledAreStored, AllStored
<1>4. AllStored(c)'
  BY <1>1, <1>3, StoredLasts
<1>5. ~lost'[c] /\ at'[c] \in {"closing"} \cup C!Over /\ peer'[c] = "closed"
  BY <1>1 DEF Acknowledges
<1>6. QED
  BY <1>1, <1>4, <1>5 DEF Acknowledges, C!Writing, C!Await, C!Over

\* Where the peer's end of a connection may get by a step of the server.
LEMMA ServerPeer ==
  ASSUME TypeOK, NEW c \in Conn,
         \/ Boot \/ MainStep \/ MainFails \/ Interrupt \/ Crash
         \/ \E d \in Conn : ThreadStep(d) \/ SqlError(d)
  PROVE  peer'[c] = peer[c] \/ (peer'[c] = "reset" /\ peer[c] # "none")
<1>1. ASSUME NEW how, Down(how)
      PROVE  peer'[c] = peer[c] \/ (peer'[c] = "reset" /\ peer[c] # "none")
  BY <1>1 DEF Down, TypeOK, NetTypeOK
<1>2. CASE Return \/ StartupFails \/ Crash \/ \E d \in Conn : ThreadFails(d)
  BY <1>1, <1>2 DEF Return, StartupFails, Crash, ThreadFails
<1>3. CASE Boot \/ CreateTables \/ Listen \/ LoopCheck \/ AcceptNothing \/ Join \/ Interrupt
  BY <1>3 DEF Boot, CreateTables, Listen, LoopCheck, AcceptNothing, Join, Interrupt, netVars
<1>4. CASE \E d \in Conn : Accept(d) \/ AcceptFails(d)
  BY <1>4 DEF Accept, AcceptFails, netVars
<1>5. ASSUME NEW d \in Conn, ThreadStep(d) \/ SqlError(d)
      PROVE  UNCHANGED peer
  BY <1>5 DEF ThreadStep, SqlError, Handshake, ThreadCheck, ReceiveReading, ReceiveRequest,
     ReceiveIgnored, Receive, ReadFails, Select, SelectFound, SelectEmpty, InsertClient,
     Reselect, InsertPacket, ListClients, ScanPackets, WriteReply, netVars
<1>6. QED
  BY <1>2, <1>3, <1>4, <1>5 DEF MainStep, MainFails
\* A client's steps leave the other connections alone.
LEMMA OtherClients ==
  ASSUME TypeOK, ClientTypeOK, NEW c \in Conn, NEW d \in Conn \ {c},
         ClientStep(c) \/ Dies(c) \/ ResetArrives(c) \/ LinkBreaks(c)
  PROVE  Rests(d)
<1> USE DEF TypeOK, NetTypeOK, ClientTypeOK
<1>1. ASSUME UNCHANGED peer \/ PeerConnect(c) \/ PeerUpgrade(c)
               \/ (\E p \in Packet : PeerSend(c, p)) \/ \E how : PeerLeave(c, how)
      PROVE  peer'[d] = peer[d]
  BY <1>1 DEF PeerConnect, PeerUpgrade, PeerSend, PeerLeave
<1>2. peer'[d] = peer[d]
  BY <1>1 DEF ClientStep, Dials, Upgrades, SendsReading, Asks, Closes, Alone, Dies, ResetArrives,
     LinkBreaks, ToServer, OwnReadings, vars, netVars
<1>3. lost'[d] = lost[d]
  BY DEF ClientStep, Dials, Upgrades, SendsReading, Asks, Closes, Alone, Dies, ResetArrives,
     LinkBreaks, ToServer
<1>4. ASSUME NEW here, NEW next, C!Goes(c, here, next) \/ C!Reads(c, here, next)
      PROVE  at'[d] = at[d] /\ inbox'[d] = inbox[d]
  BY <1>4 DEF C!Goes, C!Reads, C!To
<1>5. at'[d] = at[d] /\ inbox'[d] = inbox[d]
  <2>1. CASE Dials(c)
    BY <1>4, <2>1 DEF Dials, C!Dial, C!DialFails
  <2>2. CASE Upgrades(c) \/ SendsReading(c) \/ Asks(c) \/ Closes(c)
    BY <1>4, <2>2 DEF Upgrades, SendsReading, Asks, Closes, C!Upgrade, C!Send, C!Request,
       C!Close, C!Writes
  <2>3. CASE Alone(c)
    BY <1>4, <2>3 DEF Alone, C!Alone, C!Upgraded, C!NotDue, C!Interrupt, C!GetReply, C!Closed,
       C!WriteFails, C!ReadFails
  <2>4. CASE Dies(c)
    BY <1>4, <2>4 DEF Dies, C!Kill
  <2>5. CASE ResetArrives(c) \/ LinkBreaks(c)
    BY <2>5 DEF ResetArrives, LinkBreaks, C!Reset
  <2>6. QED
    BY <2>1, <2>2, <2>3, <2>4, <2>5 DEF ClientStep
<1>6. QED
  BY <1>2, <1>3, <1>5 DEF Rests

\* A client that still writes has a connection, which it has not closed, and
\* whatever does not reach the thread any more comes after the thread's end.
LEMMA WritesAcknowledges ==
  ASSUME TypeOK, ClientTypeOK, NEW c \in Conn, Acknowledges(c),
         Upgrades(c) \/ SendsReading(c) \/ Asks(c) \/ Closes(c)
  PROVE  Acknowledges(c)'
<1> USE DEF TypeOK, NetTypeOK, ThreadTypeOK, ClientTypeOK
<1>1. PICK here \in C!Writing, next \in {"handshake", "body", "close", "reply", "closing"} :
        /\ C!Goes(c, here, next)
        /\ Closes(c) => next = "closing"
  <2>1. CASE Upgrades(c)
    BY <2>1 DEF Upgrades, Closes, C!Upgrade, C!Close, C!Writes, C!Writing, C!Goes, C!To
  <2>2. CASE SendsReading(c)
    BY <2>2 DEF SendsReading, Closes, C!Send, C!Close, C!Writes, C!Writing, C!AfterTurn, C!Goes, C!To
  <2>3. CASE Asks(c)
    BY <2>3 DEF Asks, Closes, C!Request, C!Close, C!Writes, C!Writing, C!Goes, C!To
  <2>4. CASE Closes(c)
    BY <2>4 DEF Closes, C!Close, C!Writes, C!Writing
  <2>5. QED
    BY <2>1, <2>2, <2>3, <2>4
<1>2. at[c] = here /\ at'[c] = next /\ inbox'[c] = inbox[c]
  BY <1>1 DEF C!Goes, C!To
<1>3. here \notin {"closing"} \cup C!Over
  BY <1>1 DEF C!Writing, C!Over
<1>4. inbox[c] # "close" /\ peer[c] \notin {"none", "deaf", "closed"}
  BY <1>2, <1>3 DEF Acknowledges
<1>5. next # "exited"
  OBVIOUS
<1>6. CASE ~Live(c)
  <2>1. UNCHANGED vars
    BY <1>6 DEF Upgrades, SendsReading, Asks, Closes, ToServer
  <2>2. pc'[c] = pc[c] /\ peer'[c] = peer[c]
    BY <2>1 DEF vars, threadVars, netVars
  <2>3. pc[c] = "done" \/ peer[c] = "reset"
    BY <1>4, <1>6 DEF Live
  <2>4. QED
    BY <1>2, <1>4, <1>5, <2>2, <2>3 DEF Acknowledges
<1>7. CASE Live(c)
  <2>1. lost'[c] = lost[c] /\ ~lost[c]
    BY <1>7 DEF Upgrades, SendsReading, Asks, Closes, ToServer, Live, Acknowledges
  <2>2. CASE Closes(c)
    <3>1. at'[c] = "closing" /\ peer'[c] = "closed"
      BY <1>1, <1>2, <1>7, <2>2 DEF Closes, ToServer, PeerLeave
    <3>2. QED
      BY <1>2, <1>4, <2>1, <3>1 DEF Acknowledges
  <2>3. CASE Upgrades(c) \/ SendsReading(c) \/ Asks(c)
    <3>1. peer'[c] \in {"dialed", "open"}
      BY <1>7, <2>3 DEF Upgrades, SendsReading, Asks, ToServer, PeerUpgrade, PeerSend, Live
    <3>2. QED
      BY <1>2, <1>4, <1>5, <2>1, <3>1 DEF Acknowledges
  <2>4. QED
    BY <2>2, <2>3
<1>8. QED
  BY <1>6, <1>7
LEMMA DialAcknowledges ==
  ASSUME TypeOK, ClientTypeOK, NEW c \in Conn, Acknowledges(c), Dials(c)
  PROVE  Acknowledges(c)'
<1> USE DEF TypeOK, NetTypeOK, ClientTypeOK
<1>1. /\ at[c] = "off" /\ at'[c] \in {"upgrade", "failed"} /\ inbox'[c] = inbox[c]
      /\ pc'[c] = pc[c] /\ lost'[c] = lost[c]
  BY DEF Dials, C!Dial, C!DialFails, C!Goes, C!To, PeerConnect, vars, threadVars
<1>2. \/ peer'[c] = "dialed" /\ peer[c] = "none"
      \/ peer'[c] = peer[c] /\ at'[c] = "failed"
  BY DEF Dials, C!DialFails, C!Goes, C!To, PeerConnect, vars, netVars
<1>3. inbox[c] # "close" /\ peer[c] # "closed"
  BY <1>1 DEF Acknowledges, C!Over
<1>4. QED
  BY <1>1, <1>2, <1>3 DEF Acknowledges, C!Writing, C!Await

\* A client exits without an error only on the server's close frame.
LEMMA AloneAcknowledges ==
  ASSUME TypeOK, ClientTypeOK, Connected, [Next]_vars, NEW c \in Conn, Acknowledges(c), Alone(c)
  PROVE  Acknowledges(c)'
<1> USE DEF ClientTypeOK
<1>1. /\ lost'[c] = lost[c] /\ peer'[c] = peer[c] /\ pc'[c] = pc[c]
      /\ AllStored(c) => AllStored(c)'
  BY DEF Alone, vars, netVars, threadVars, AllStored
<1>2. CASE C!Interrupt(c)
  BY <1>1, <1>2, RestsAcknowledges DEF C!Interrupt, Rests
<1>3. CASE C!Upgraded(c) \/ C!GetReply(c) \/ C!NotDue(c)
  <2>1. /\ at[c] \in {"handshake", "reply", "body"} /\ at'[c] \in {"body", "request", "close"}
        /\ inbox'[c] \in {inbox[c], "none"}
    BY <1>3 DEF C!Upgraded, C!GetReply, C!NotDue, C!Reads, C!Goes, C!To, C!AfterTurn
  <2>2. /\ at[c] \in C!Writing \cup DOMAIN C!Await /\ at'[c] \in C!Writing
        /\ at[c] \notin {"closing"} \cup C!Over
    BY <2>1 DEF C!Writing, C!Await, C!Over
  <2>3. QED
    BY <1>1, <2>1, <2>2 DEF Acknowledges
<1>4. CASE C!Closed(c)
  <2>1. at[c] = "closing" /\ at'[c] = "exited" /\ inbox[c] = "close"
    BY <1>4 DEF C!Closed, C!Reads, C!To, C!Await
  <2>2. at'[c] \in C!Over /\ at[c] \in DOMAIN C!Await
    BY <2>1 DEF C!Over, C!Await
  <2>3. QED
    BY <1>1, <2>1, <2>2 DEF Acknowledges
<1>5. CASE C!WriteFails(c) \/ C!ReadFails(c)
  <2>1. /\ at[c] \in C!Writing \cup DOMAIN C!Await /\ at'[c] \in {"failed", "aborted"}
        /\ inbox'[c] = inbox[c]
    BY <1>5 DEF C!WriteFails, C!ReadFails, C!Goes, C!To, C!Thrown
  <2>2. at'[c] \in C!Over /\ at'[c] \notin C!Writing \cup DOMAIN C!Await
    BY <2>1 DEF C!Over, C!Writing, C!Await
  <2>3. QED
    BY <1>1, <2>1, <2>2 DEF Acknowledges
<1>6. QED
  BY <1>2, <1>3, <1>4, <1>5 DEF Alone, C!Alone

LEMMA DiesAcknowledges ==
  ASSUME TypeOK, ClientTypeOK, Connected, [Next]_vars, NEW c \in Conn, Acknowledges(c), Dies(c)
  PROVE  Acknowledges(c)'
<1> USE DEF ClientTypeOK, TypeOK, NetTypeOK
<1>1. /\ at'[c] = "killed" /\ inbox'[c] = inbox[c] /\ lost'[c] = lost[c]
  BY DEF Dies, C!Kill, C!Goes, C!To
<1>2. /\ pc'[c] = pc[c]
      /\ peer'[c] = peer[c] \/ (peer'[c] \in {"closed", "reset"} /\ pc[c] # "done")
  <2>1. CASE UNCHANGED vars
    <3>1. pc' = pc /\ peer' = peer
      BY <2>1 DEF vars, netVars, threadVars
    <3>2. pc'[c] = pc[c] /\ peer'[c] = peer[c]
      BY <3>1
    <3>3. QED
      BY <3>2
  <2>2. ASSUME NEW how \in {"closed", "reset"}, PeerLeave(c, how)
        PROVE  pc'[c] = pc[c] /\ peer'[c] \in {"closed", "reset"} /\ pc[c] # "done"
    BY <2>2 DEF PeerLeave, threadVars
  <2>3. QED
    BY <2>1, <2>2 DEF Dies
<1>3. "killed" \in C!Over /\ "killed" \notin C!Writing \cup DOMAIN C!Await
  BY DEF C!Over, C!Writing, C!Await
<1>4. peer[c] = "reset" => peer'[c] = "reset"
  BY DEF Dies, PeerLeave, vars, netVars
<1>5. inbox[c] = "close" => AllStored(c)'
  BY DoneStays, StoredLasts DEF Acknowledges
<1>6. QED
  BY <1>1, <1>2, <1>3, <1>4, <1>5 DEF Acknowledges

LEMMA ResetRests ==
  ASSUME TypeOK, ClientTypeOK, NEW c \in Conn, Acknowledges(c),
         ResetArrives(c) \/ LinkBreaks(c)
  PROVE  Rests(c)
<1>1. at'[c] = at[c] /\ inbox'[c] = inbox[c] /\ lost'[c] = lost[c]
  BY DEF ResetArrives, LinkBreaks, C!Reset
<1>2. peer'[c] = peer[c] \/ (peer'[c] = "reset" /\ peer[c] # "none")
  BY DEF ResetArrives, LinkBreaks, PeerLeave, vars, netVars, TypeOK, NetTypeOK
<1>3. QED
  BY <1>1, <1>2 DEF Rests

LEMMA ServerAcknowledges ==
  ASSUME TypeOK, ClientTypeOK, Cursor, Connected, Readings, [Next]_vars,
         NEW c \in Conn, Acknowledges(c),
         \/ MainServes \/ MainMishap
         \/ \E d \in Conn : ThreadServes(d) \/ ThreadMishap(d)
  PROVE  Acknowledges(c)'
<1>1. peer'[c] = peer[c] \/ (peer'[c] = "reset" /\ peer[c] # "none")
  BY ServerPeer DEF MainServes, MainMishap, ThreadServes, ThreadMishap
<1>2. UNCHANGED <<at, lost>>
  BY DEF MainServes, MainMishap, ThreadServes, ThreadMishap, Unanswered, C!Serve
<1>3. CASE Unanswered
  <2>1. inbox'[c] = inbox[c]
    BY <1>3 DEF Unanswered, C!Serve
  <2>2. QED
    BY <1>1, <1>2, <2>1, RestsAcknowledges DEF Rests
<1>4. ASSUME NEW d \in Conn, ThreadServes(d)
      PROVE  Acknowledges(c)'
  <2>1. CASE inbox'[c] = inbox[c] \/ inbox'[c] # "close"
    BY <1>1, <1>2, <2>1, RestsAcknowledges DEF Rests
  <2>2. CASE inbox'[c] # inbox[c] /\ inbox'[c] = "close"
    <3>1. c = d /\ pc[c] = "read" /\ pc'[c] = "done" /\ peer[c] = "closed"
      BY <1>4, <2>2 DEF ThreadServes, Replies, C!Serve
    <3>2. ReadFails(c)
      BY <1>4, <3>1 DEF ThreadServes, ThreadStep, Handshake, ThreadCheck, ReceiveReading,
         ReceiveRequest, ReceiveIgnored, Receive, At, Select, InsertClient, Reselect,
         InsertPacket, ListClients, ScanPackets, WriteReply, TypeOK, ThreadTypeOK
    <3>3. QED
      BY <1>2, <3>1, <3>2, CloseAcknowledges
  <2>3. QED
    BY <2>1, <2>2
<1>5. QED
  BY <1>3, <1>4 DEF MainServes, MainMishap, ThreadMishap

LEMMA AcknowledgedStep ==
  ASSUME TypeOK, ClientTypeOK, Cursor, Connected, Readings, Acknowledged,
         [SystemNext]_systemVars
  PROVE  Acknowledged'
<1> SUFFICES ASSUME NEW c \in Conn
             PROVE  Acknowledges(c)'
  BY DEF Acknowledged
<1>1. Acknowledges(c) /\ [Next]_vars
  BY SystemSteps DEF Acknowledged
<1>2. CASE UNCHANGED systemVars \/ AllOver
  BY <1>1, <1>2, RestsAcknowledges DEF AllOver, systemVars, vars, netVars, Rests
<1>3. CASE MainServes \/ MainMishap \/ \E d \in Conn : ThreadServes(d) \/ ThreadMishap(d)
  BY <1>1, <1>3, ServerAcknowledges
<1>4. ASSUME NEW d \in Conn \ {c},
             ClientStep(d) \/ Dies(d) \/ ResetArrives(d) \/ LinkBreaks(d)
      PROVE  Acknowledges(c)'
  BY <1>1, <1>4, OtherClients, RestsAcknowledges
<1>5. CASE ClientStep(c)
  BY <1>1, <1>5, DialAcknowledges, WritesAcknowledges, AloneAcknowledges DEF ClientStep
<1>6. CASE Dies(c)
  BY <1>1, <1>6, DiesAcknowledges
<1>7. CASE ResetArrives(c) \/ LinkBreaks(c)
  BY <1>1, <1>7, ResetRests, RestsAcknowledges
<1>8. QED
  BY <1>2, <1>3, <1>4, <1>5, <1>6, <1>7 DEF SystemNext

LEMMA SystemInitOK == SystemInit => ClientTypeOK /\ Acknowledged
<1>1. SystemInit => ClientTypeOK
  BY ClientPcs DEF SystemInit, C!Init, ClientTypeOK
<1>2. SystemInit => Acknowledged
  BY DEF SystemInit, Init, C!Init, Acknowledged, Acknowledges, C!Writing, C!Await, C!Over
<1>3. QED
  BY <1>1, <1>2

\* The inductive invariant of the close handshake.
THEOREM AcknowledgedCorrect == SystemSpec => [](ClientTypeOK /\ Acknowledged)
<1>1. TypeOK /\ Cursor /\ Connected /\ Readings /\ ClientTypeOK /\ Acknowledged
        /\ [SystemNext]_systemVars => ClientTypeOK' /\ Acknowledged'
  BY ClientTypeStep, AcknowledgedStep
<1>2. QED
  BY <1>1, SystemInitOK, SystemImplementsServer, TypeCorrect, ReadingsCorrect, PTL DEF SystemSpec

\* A client that ended without an error lost nothing: every reading it wrote is
\* a row of the database, whatever else failed, stopped or was killed.
THEOREM ExitedIsStoredCorrect == SystemSpec => []ExitedIsStored
<1>1. Acknowledged => ExitedIsStored
  BY DEF Acknowledged, Acknowledges, ExitedIsStored
<1>2. QED
  BY <1>1, AcknowledgedCorrect, PTL

=============================================================================
