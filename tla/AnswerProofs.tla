---------------------------- MODULE AnswerProofs ----------------------------
(***************************************************************************)
(* Proofs about the answers of the system: they come in step with the      *)
(* clients, a client fails only for a cause, and the statistics have what  *)
(* was stored before they were asked for.                                  *)
(***************************************************************************)
EXTENDS SystemProofs, SurveyProofs

-----------------------------------------------------------------------------
(* What a step of the server is for one connection. *)

ServerStep ==
  MainServes \/ MainMishap \/ \E d \in Conn : ThreadServes(d) \/ ThreadMishap(d)

\* Nothing that client c sees.
Quiet(c) == rd'[c] = rd[c] /\ inbox'[c] = inbox[c] /\ eof'[c] = eof[c]

Busy == {"check", "read"} \cup SavePc

GoesOn(c) ==
  /\ Quiet(c)
  /\ \/ pc'[c] = pc[c]
     \/ pc[c] = "none" /\ pc'[c] = "handshake"
     \/ pc[c] \in Busy /\ pc'[c] \in Busy
     \/ pc[c] = "clients" /\ pc'[c] = "packets"

Hears(c, answer) ==
  inbox'[c] = IF at[c] \in C!Over \/ eof[c] = "reset" THEN inbox[c] ELSE answer

Welcomes(c) ==
  /\ pc[c] = "handshake" /\ pc'[c] = "check" /\ peer[c] = "open"
  /\ rd'[c] = rd[c] /\ eof'[c] = eof[c] /\ Hears(c, "upgraded")

TakesNext(c) ==
  /\ pc[c] = "read" /\ rd[c] < Len(sent[c]) /\ rd'[c] = rd[c] + 1
  /\ \/ pc'[c] = "clients" /\ sent[c][rd[c] + 1].type = "STATISTICS"
     \/ pc'[c] \in {"check", "select"} /\ sent[c][rd[c] + 1].type # "STATISTICS"
  /\ inbox'[c] = inbox[c] /\ eof'[c] = eof[c]

Answered(c) ==
  /\ pc[c] = "packets" /\ pc'[c] = "check"
  /\ rd'[c] = rd[c] /\ eof'[c] = eof[c] /\ Hears(c, "statistics")

\* The thread answers the close frame.
SaysGoodbye(c) ==
  pc[c] = "read" /\ peer[c] = "closed" /\ rd[c] = Len(sent[c]) /\ Hears(c, "close")

\* Why it ends without one.
Reason(c) ==
  \/ main' \in Ended \/ faults' > 0 \/ needExit
  \/ peer[c] = "reset" \/ (pc[c] = "handshake" /\ peer[c] = "closed")
  \/ pc[c] = "insertClient" /\ ClientIds(Msg(c).uuid) # {}
  \/ pc[c] = "reselect" /\ ClientIds(Msg(c).uuid) = {}
  \/ pc[c] = "insertPacket" /\ NotNullViolated(Msg(c))

Ends(c) ==
  /\ pc[c] # "done" /\ pc'[c] = "done" /\ rd'[c] = rd[c]
  /\ eof'[c] = IF eof[c] = "none" THEN "fin" ELSE eof[c]
  /\ SaysGoodbye(c) \/ (inbox'[c] = inbox[c] /\ Reason(c))

Served(c) == GoesOn(c) \/ Welcomes(c) \/ TakesNext(c) \/ Answered(c) \/ Ends(c)

\* What C!Serve does to one client.
LEMMA ServeAt ==
  ASSUME NEW c \in Conn, NEW S, NEW answer, C!Serve(S, answer, HungUp)
  PROVE  /\ inbox'[c] = IF c \in S /\ at[c] \notin C!Over /\ eof[c] # "reset"
                        THEN answer ELSE inbox[c]
         /\ eof'[c] = IF pc[c] # "done" /\ pc'[c] = "done" /\ eof[c] = "none"
                      THEN "fin" ELSE eof[c]
         /\ UNCHANGED <<at, interrupted>>
BY DEF C!Serve, HungUp

LEMMA UnansweredAt ==
  ASSUME NEW c \in Conn, Unanswered
  PROVE  /\ inbox'[c] = inbox[c]
         /\ eof'[c] = IF pc[c] # "done" /\ pc'[c] = "done" /\ eof[c] = "none"
                      THEN "fin" ELSE eof[c]
         /\ UNCHANGED <<at, interrupted, lost, before>>
BY ServeAt DEF Unanswered

LEMMA ThreadServesAt ==
  ASSUME NEW c \in Conn, ThreadServes(c)
  PROVE  /\ eof'[c] = IF pc[c] # "done" /\ pc'[c] = "done" /\ eof[c] = "none"
                      THEN "fin" ELSE eof[c]
         /\ \/ \E answer \in C!Answer : Replies(c, answer) /\ Hears(c, answer)
            \/ (~ \E answer \in C!Answer : Replies(c, answer)) /\ inbox'[c] = inbox[c]
BY ServeAt DEF ThreadServes, Hears

\* The server's step of one thread is none of the others.
LEMMA ServesOther ==
  ASSUME TypeOK, NEW d \in Conn, ThreadServes(d) \/ ThreadMishap(d), NEW c \in Conn \ {d}
  PROVE  GoesOn(c)
<1>1. pc'[c] = pc[c] /\ rd'[c] = rd[c]
  <2>1. ASSUME EndThread(d)
        PROVE  pc'[c] = pc[c] /\ rd'[c] = rd[c]
    BY <2>1 DEF EndThread, TypeOK, ThreadTypeOK
  <2>2. QED
    BY <2>1 DEF ThreadServes, ThreadMishap, ThreadStep, SqlError, Handshake, ThreadCheck,
       ReceiveReading, ReceiveRequest, ReceiveIgnored, Receive, ReadFails, Select, SelectFound,
       SelectEmpty, InsertClient, Reselect, InsertPacket, ListClients, ScanPackets, WriteReply,
       At, TypeOK, ThreadTypeOK
<1>2. inbox'[c] = inbox[c] /\ eof'[c] = eof[c]
  BY <1>1, ServeAt DEF ThreadServes, ThreadMishap, Unanswered
<1>3. QED
  BY <1>1, <1>2 DEF GoesOn, Quiet

\* No step but these three sends an answer.
LEMMA SendsNothing ==
  ASSUME NEW c \in Conn, ThreadServes(c),
         ~(pc[c] = "handshake" /\ pc'[c] = "check"),
         ~(pc[c] = "packets" /\ pc'[c] = "check"),
         ~(pc[c] = "read" /\ pc'[c] = "done" /\ peer[c] = "closed")
  PROVE  inbox'[c] = inbox[c]
BY ThreadServesAt DEF Replies

LEMMA EndsForReason ==
  ASSUME TypeOK, NEW c \in Conn, ThreadServes(c), pc[c] \notin {"none", "done"}, EndThread(c),
         ~(pc[c] = "read" /\ peer[c] = "closed"), Reason(c)
  PROVE  Ends(c)
<1>1. pc'[c] = "done" /\ rd'[c] = rd[c]
  BY DEF EndThread, TypeOK, ThreadTypeOK
<1>2. QED
  BY <1>1, ThreadServesAt, SendsNothing DEF Ends

LEMMA ServesItself ==
  ASSUME TypeOK, NEW c \in Conn, ThreadServes(c)
  PROVE  Served(c)
<1> USE DEF Served
<1>1. CASE Handshake(c)
  <2>1. CASE peer[c] = "open" /\ At(c, "handshake", "check") /\ UNCHANGED rd
    <3>1. pc[c] = "handshake" /\ pc'[c] = "check" /\ rd'[c] = rd[c]
      BY <2>1 DEF At, TypeOK, ThreadTypeOK
    <3>2. Hears(c, "upgraded") /\ eof'[c] = eof[c]
      BY <3>1, ThreadServesAt DEF Replies, C!Answer
    <3>3. QED
      BY <2>1, <3>1, <3>2 DEF Welcomes
  <2>2. CASE peer[c] \in {"closed", "reset"} /\ EndThread(c)
    BY <1>1, <2>2, EndsForReason DEF Handshake, Reason
  <2>3. QED
    BY <1>1, <2>1, <2>2 DEF Handshake
<1>2. ASSUME pc[c] \in Busy, pc'[c] \in Busy, rd'[c] = rd[c]
      PROVE  GoesOn(c)
  BY <1>2, ThreadServesAt, SendsNothing DEF GoesOn, Quiet, Busy, SavePc
<1>3. CASE ThreadCheck(c)
  <2>1. pc[c] = "check" /\ pc'[c] = (IF needExit THEN "done" ELSE "read") /\ rd'[c] = rd[c]
    BY <1>3 DEF ThreadCheck, At, TypeOK, ThreadTypeOK
  <2>2. CASE needExit
    BY <2>1, <2>2, ThreadServesAt, SendsNothing DEF Ends, Reason
  <2>3. CASE ~needExit
    BY <1>2, <2>1, <2>3 DEF Busy
  <2>4. QED
    BY <2>2, <2>3
<1>4. ASSUME NEW next \in {"select", "clients", "check"}, Receive(c, next)
      PROVE  /\ pc[c] = "read" /\ pc'[c] = next /\ rd[c] < Len(sent[c]) /\ rd'[c] = rd[c] + 1
             /\ inbox'[c] = inbox[c] /\ eof'[c] = eof[c]
  <2>1. pc[c] = "read" /\ pc'[c] = next /\ rd[c] < Len(sent[c]) /\ rd'[c] = rd[c] + 1
    BY <1>4 DEF Receive, At, TypeOK, ThreadTypeOK
  <2>2. QED
    BY <2>1, ThreadServesAt, SendsNothing
<1>5. CASE ReceiveReading(c)
  BY <1>4, <1>5 DEF ReceiveReading, TakesNext, IsReading
<1>6. CASE ReceiveRequest(c)
  BY <1>4, <1>6 DEF ReceiveRequest, TakesNext
<1>7. CASE ReceiveIgnored(c)
  BY <1>4, <1>7 DEF ReceiveIgnored, TakesNext
<1>8. CASE ReadFails(c)
  <2>1. pc[c] = "read" /\ pc'[c] = "done" /\ rd'[c] = rd[c]
    BY <1>8 DEF ReadFails, EndThread, TypeOK, ThreadTypeOK
  <2>2. CASE peer[c] = "reset"
    BY <1>8, <2>2, EndsForReason DEF ReadFails, Reason
  <2>3. CASE peer[c] = "closed" /\ rd[c] = Len(sent[c])
    <3>1. Hears(c, "close")
      BY <2>1, <2>3, ThreadServesAt DEF Replies, C!Answer
    <3>2. QED
      BY <2>1, <2>3, <3>1, ThreadServesAt DEF Ends, SaysGoodbye
  <2>4. QED
    BY <1>8, <2>2, <2>3 DEF ReadFails
<1>9. CASE Select(c)
  BY <1>2, <1>9 DEF Select, SelectFound, SelectEmpty, At, Busy, SavePc, TypeOK, ThreadTypeOK
<1>10. CASE InsertClient(c)
  <2>1. CASE UniqueViolated(Msg(c).uuid)
    BY <1>10, <2>1, EndsForReason DEF InsertClient, UniqueViolated, Reason
  <2>2. CASE ~UniqueViolated(Msg(c).uuid)
    BY <1>2, <1>10, <2>2 DEF InsertClient, At, Busy, SavePc, TypeOK, ThreadTypeOK
  <2>3. QED
    BY <2>1, <2>2
<1>11. CASE Reselect(c)
  <2>1. CASE At(c, "reselect", "insertPacket") /\ SelectFound(c)
    BY <1>2, <2>1 DEF SelectFound, At, Busy, SavePc, TypeOK, ThreadTypeOK
  <2>2. CASE pc[c] = "reselect" /\ SelectEmpty(c) /\ EndThread(c)
    <3>1. Reason(c)
      BY <2>2 DEF SelectEmpty, Fault, Reason, TypeOK
    <3>2. QED
      BY <2>2, <3>1, EndsForReason
  <2>3. QED
    BY <1>11, <2>1, <2>2 DEF Reselect
<1>12. CASE InsertPacket(c)
  <2>1. CASE NotNullViolated(Msg(c))
    BY <1>12, <2>1, EndsForReason DEF InsertPacket, Reason
  <2>2. CASE ~NotNullViolated(Msg(c))
    BY <1>2, <1>12, <2>2 DEF InsertPacket, At, Busy, SavePc, TypeOK, ThreadTypeOK
  <2>3. QED
    BY <2>1, <2>2
<1>13. CASE ListClients(c)
  <2>1. pc[c] = "clients" /\ pc'[c] = "packets" /\ rd'[c] = rd[c]
    BY <1>13 DEF ListClients, At, TypeOK, ThreadTypeOK
  <2>2. QED
    BY <2>1, ThreadServesAt, SendsNothing DEF GoesOn, Quiet
<1>14. CASE ScanPackets(c)
  <2>1. pc[c] = "packets" /\ pc'[c] = pc[c] /\ rd'[c] = rd[c]
    BY <1>14 DEF ScanPackets
  <2>2. QED
    BY <2>1, ThreadServesAt, SendsNothing DEF GoesOn, Quiet
<1>15. CASE WriteReply(c)
  <2>1. CASE peer[c] = "reset"
    BY <1>15, <2>1, EndsForReason DEF WriteReply, Reason
  <2>2. CASE peer[c] # "reset"
    <3>1. pc[c] = "packets" /\ pc'[c] = "check" /\ rd'[c] = rd[c]
      BY <1>15, <2>2 DEF WriteReply, At, TypeOK, ThreadTypeOK
    <3>2. Hears(c, "statistics") /\ eof'[c] = eof[c]
      BY <3>1, ThreadServesAt DEF Replies, C!Answer
    <3>3. QED
      BY <3>1, <3>2 DEF Answered
  <2>3. QED
    BY <2>1, <2>2
<1>16. QED
  BY <1>1, <1>3, <1>5, <1>6, <1>7, <1>8, <1>9, <1>10, <1>11, <1>12, <1>13, <1>14, <1>15
  DEF ThreadServes, ThreadStep

LEMMA MishapItself ==
  ASSUME TypeOK, NEW c \in Conn, ThreadMishap(c)
  PROVE  Ends(c)
<1>1. /\ pc[c] # "done" /\ pc'[c] = "done" /\ rd'[c] = rd[c] /\ faults' > 0
  BY DEF ThreadMishap, SqlError, EndThread, Fault, SavePc, TypeOK, ThreadTypeOK
<1>2. QED
  BY <1>1, UnansweredAt DEF ThreadMishap, Ends, Reason

LEMMA MainServed ==
  ASSUME TypeOK, Connected, NEW c \in Conn, MainServes \/ MainMishap
  PROVE  GoesOn(c) \/ Ends(c)
<1>1. /\ inbox'[c] = inbox[c]
      /\ eof'[c] = IF pc[c] # "done" /\ pc'[c] = "done" /\ eof[c] = "none" THEN "fin" ELSE eof[c]
  BY UnansweredAt DEF MainServes, MainMishap
<1>2. CASE pc'[c] = pc[c] /\ rd'[c] = rd[c]
  BY <1>1, <1>2 DEF GoesOn, Quiet
<1>3. ASSUME NEW how \in Ended, Down(how)
      PROVE  GoesOn(c) \/ Ends(c)
  <2>1. main' \in Ended /\ rd'[c] = rd[c] /\ pc'[c] = IF peer[c] = "none" THEN "none" ELSE "done"
    BY <1>3 DEF Down
  <2>2. CASE pc[c] # "done" /\ pc'[c] = "done"
    BY <1>1, <2>1, <2>2 DEF Ends, Reason
  <2>3. CASE pc'[c] = pc[c]
    BY <1>2, <2>1, <2>3
  <2>4. QED
    BY <2>1, <2>2, <2>3 DEF Connected
<1>4. CASE Return \/ StartupFails \/ Crash \/ \E d \in Conn : ThreadFails(d)
  BY <1>3, <1>4 DEF Return, StartupFails, Crash, ThreadFails, Ended
<1>5. CASE Boot \/ CreateTables \/ Listen \/ LoopCheck \/ AcceptNothing \/ Join \/ Interrupt
  BY <1>2, <1>5 DEF Boot, CreateTables, Listen, LoopCheck, AcceptNothing, Join, Interrupt, threadVars
<1>6. ASSUME NEW d \in Conn, Accept(d)
      PROVE  GoesOn(c)
  <2>1. rd'[c] = rd[c] /\ (pc'[c] = pc[c] \/ (pc[c] = "none" /\ pc'[c] = "handshake"))
    BY <1>6 DEF Accept, Pending, TypeOK, ThreadTypeOK
  <2>2. QED
    BY <1>1, <2>1 DEF GoesOn, Quiet
<1>7. ASSUME NEW d \in Conn, AcceptFails(d)
      PROVE  GoesOn(c) \/ Ends(c)
  <2>1. rd'[c] = rd[c] /\ (pc'[c] = pc[c] \/ (pc[c] = "none" /\ pc'[c] = "done")) /\ faults' > 0
    BY <1>7 DEF AcceptFails, Pending, Fault, TypeOK, ThreadTypeOK
  <2>2. QED
    BY <1>1, <1>2, <2>1 DEF Ends, Reason
<1>8. QED
  BY <1>4, <1>5, <1>6, <1>7 DEF MainServes, MainMishap, MainStep, MainFails

\* Every step of the server is, for each connection, one of five.
LEMMA ServerServes ==
  ASSUME TypeOK, Connected, NEW c \in Conn, ServerStep
  PROVE  Served(c)
BY ServesOther, ServesItself, MishapItself, MainServed DEF ServerStep, Served

LEMMA ServerKeeps ==
  ASSUME ServerStep
  PROVE  UNCHANGED <<at, interrupted, lost, before, sent>>
<1>1. UNCHANGED <<at, interrupted, lost, before>>
  BY DEF ServerStep, MainServes, MainMishap, ThreadServes, ThreadMishap, Unanswered, C!Serve
<1>2. UNCHANGED sent
  BY DEF ServerStep, MainServes, MainMishap, ThreadServes, ThreadMishap, Boot, MainStep, MainFails,
     Interrupt, Crash, CreateTables, Listen, LoopCheck, AcceptNothing, Join, Return, Accept,
     StartupFails, AcceptFails, ThreadFails, Down, ThreadStep, SqlError, Handshake, ThreadCheck,
     ReceiveReading, ReceiveRequest, ReceiveIgnored, Receive, ReadFails, Select, SelectFound,
     SelectEmpty, InsertClient, Reselect, InsertPacket, ListClients, ScanPackets, WriteReply, netVars
<1>3. QED
  BY <1>1, <1>2

-----------------------------------------------------------------------------
(* Client and server stay in step. *)

LEMMA AwaitValues ==
  /\ DOMAIN C!Await = {"handshake", "reply", "closing"}
  /\ C!Await["handshake"] = "upgraded" /\ C!Await["reply"] = "statistics"
  /\ C!Await["closing"] = "close"
  /\ C!Over = {"exited", "failed", "aborted", "killed"}
  /\ C!Writing = {"upgrade", "body", "request", "close"}
BY DEF C!Await, C!Over, C!Writing

\* What a step of the server does to the part of a connection that InStep is
\* about, when its thread does not answer.
LEMMA ServedInStep ==
  ASSUME TypeOK, Cursor, ClientTypeOK, NEW c \in Conn, Acknowledges(c), StaysInStep(c),
         Served(c), at'[c] = at[c], sent'[c] = sent[c],
         peer'[c] = peer[c] \/ (peer'[c] = "reset" /\ peer[c] # "none")
  PROVE  StaysInStep(c)'
<1> USE AwaitValues
<1>1. Requested(c)' = Requested(c) /\ \A k \in Requested(c) : k \in Nat
  BY DEF Requested, TypeOK, NetTypeOK
<1>2. rd[c] \in Nat /\ Len(sent[c]) \in Nat /\ DOMAIN sent[c] = 1..Len(sent[c])
  BY DEF TypeOK, ThreadTypeOK, NetTypeOK
<1>3. Unserved(c)' = {k \in Requested(c) : k > rd'[c] \/ (k = rd'[c] /\ pc'[c] \in StatPc)}
  BY <1>1 DEF Unserved
<1>4. ASSUME /\ pc'[c] \in StatPc => rd'[c] \in Requested(c)
             /\ at[c] \notin C!Over =>
                  /\ inbox'[c] # "none" => at[c] \in DOMAIN C!Await /\ inbox'[c] = C!Await[at[c]]
                  /\ pc'[c] \in {"none", "handshake"} =>
                       pc[c] \in {"none", "handshake"} /\ inbox'[c] = inbox[c]
                  /\ Unserved(c)' # {} => Unserved(c) # {} /\ inbox'[c] = inbox[c]
      PROVE  StaysInStep(c)'
  BY <1>1, <1>4 DEF StaysInStep
<1>5. CASE GoesOn(c)
  <2>1. /\ rd'[c] = rd[c] /\ inbox'[c] = inbox[c] /\ (pc'[c] \in StatPc => pc[c] \in StatPc)
        /\ pc'[c] \in {"none", "handshake"} => pc[c] \in {"none", "handshake"}
    BY <1>5 DEF GoesOn, Quiet, Busy, SavePc, StatPc
  <2>2. Unserved(c)' \subseteq Unserved(c)
    BY <1>3, <2>1 DEF Unserved
  <2>3. QED
    BY <1>4, <2>1, <2>2 DEF StaysInStep
<1>6. CASE Welcomes(c)
  <2>1. /\ pc'[c] = "check" /\ rd'[c] = rd[c] /\ pc[c] = "handshake" /\ peer[c] = "open"
        /\ Hears(c, "upgraded")
    BY <1>6 DEF Welcomes
  <2>2. Unserved(c)' \subseteq Unserved(c)
    BY <1>3, <2>1 DEF Unserved, StatPc
  <2>3. at[c] \notin C!Over =>
          at[c] = "handshake" /\ inbox[c] = "none" /\ Requested(c) = {}
          /\ inbox'[c] \in {"none", "upgraded"}
    BY <2>1 DEF StaysInStep, Hears
  <2>4. at[c] \notin C!Over => Unserved(c)' = {}
    BY <1>3, <2>3
  <2>5. QED
    BY <1>4, <2>1, <2>3, <2>4 DEF StatPc
<1>7. CASE TakesNext(c)
  <2>1. /\ rd'[c] = rd[c] + 1 /\ inbox'[c] = inbox[c] /\ rd[c] < Len(sent[c])
        /\ pc'[c] \in StatPc => sent[c][rd[c] + 1].type = "STATISTICS"
        /\ pc'[c] \notin {"none", "handshake"}
    BY <1>7 DEF TakesNext, StatPc
  <2>2. pc'[c] \in StatPc => rd'[c] \in Requested(c)
    BY <1>2, <2>1 DEF Requested
  <2>3. Unserved(c)' \subseteq Unserved(c)
    BY <1>1, <1>2, <1>3, <2>1 DEF Unserved
  <2>4. QED
    BY <1>4, <2>1, <2>2, <2>3 DEF StaysInStep
<1>8. CASE Answered(c)
  <2>1. /\ pc[c] = "packets" /\ pc'[c] = "check" /\ rd'[c] = rd[c] /\ Hears(c, "statistics")
    BY <1>8 DEF Answered
  <2>2. rd[c] \in Requested(c) /\ rd[c] \in Unserved(c)
    BY <2>1 DEF StaysInStep, StatPc, Unserved
  <2>3. Unserved(c)' = {}
    BY <1>1, <1>2, <1>3, <2>1, <2>2 DEF StaysInStep, StatPc
  <2>4. at[c] \notin C!Over => at[c] = "reply" /\ inbox'[c] \in {"none", "statistics"}
    BY <2>1, <2>2 DEF StaysInStep, Hears
  <2>5. QED
    BY <1>4, <2>1, <2>3, <2>4 DEF StatPc
<1>9. CASE Ends(c)
  <2>1. pc'[c] = "done" /\ rd'[c] = rd[c]
    BY <1>9 DEF Ends
  <2>2. Unserved(c)' \subseteq Unserved(c)
    BY <1>3, <2>1 DEF Unserved, StatPc
  <2>3. CASE inbox'[c] = inbox[c]
    BY <1>4, <2>1, <2>2, <2>3 DEF StaysInStep, StatPc
  <2>4. CASE SaysGoodbye(c)
    <3>1. at[c] \notin C!Over =>
            at[c] = "closing" /\ inbox'[c] \in {inbox[c], "close"}
      BY <2>4 DEF SaysGoodbye, Hears, Acknowledges
    <3>2. at[c] \notin C!Over => Unserved(c) = {} /\ inbox[c] \in {"none", "close"}
      BY <3>1 DEF StaysInStep
    <3>3. QED
      BY <1>4, <2>1, <2>2, <3>1, <3>2 DEF StatPc
  <2>5. QED
    BY <1>9, <2>3, <2>4 DEF Ends
<1>10. QED
  BY <1>5, <1>6, <1>7, <1>8, <1>9 DEF Served

OwnStep(c) == ClientStep(c) \/ Dies(c) \/ ResetArrives(c) \/ LinkBreaks(c)

LEMMA OwnLeavesServer ==
  ASSUME NEW c \in Conn, OwnStep(c)
  PROVE  UNCHANGED <<procVars, threadVars, dbVars, faults, origin>>
<1>1. CASE UNCHANGED vars
  BY <1>1 DEF vars
<1>2. CASE PeerConnect(c) \/ PeerUpgrade(c) \/ (\E p \in Packet : PeerSend(c, p))
             \/ \E how : PeerLeave(c, how)
  BY <1>2 DEF PeerConnect, PeerUpgrade, PeerSend, PeerLeave
<1>3. QED
  BY <1>1, <1>2 DEF OwnStep, ClientStep, Dials, Upgrades, SendsReading, Asks, Closes, Alone,
     Dies, ResetArrives, LinkBreaks, ToServer, OwnReadings

\* A client's step leaves the other connections as they are.
LEMMA OwnLeavesOthers ==
  ASSUME TypeOK, ClientTypeOK, NEW c \in Conn, OwnStep(c), NEW d \in Conn \ {c}
  PROVE  /\ at'[d] = at[d] /\ inbox'[d] = inbox[d] /\ eof'[d] = eof[d]
         /\ peer'[d] = peer[d] /\ sent'[d] = sent[d] /\ before'[d] = before[d]
<1> USE DEF TypeOK, NetTypeOK, ClientTypeOK
<1>1. ASSUME UNCHANGED vars \/ PeerConnect(c) \/ PeerUpgrade(c)
               \/ (\E p \in Packet : PeerSend(c, p)) \/ \E how : PeerLeave(c, how)
      PROVE  peer'[d] = peer[d] /\ sent'[d] = sent[d]
  BY <1>1 DEF PeerConnect, PeerUpgrade, PeerSend, PeerLeave, vars, netVars
<1>2. peer'[d] = peer[d] /\ sent'[d] = sent[d]
  BY <1>1 DEF OwnStep, ClientStep, Dials, Upgrades, SendsReading, Asks, Closes, Alone, Dies,
     ResetArrives, LinkBreaks, ToServer, OwnReadings
<1>3. ASSUME NEW here, NEW next, C!Goes(c, here, next) \/ C!Reads(c, here, next)
      PROVE  at'[d] = at[d] /\ inbox'[d] = inbox[d] /\ eof'[d] = eof[d]
  BY <1>3 DEF C!Goes, C!Reads, C!To
<1>4. at'[d] = at[d] /\ inbox'[d] = inbox[d] /\ eof'[d] = eof[d]
  <2>1. CASE Dials(c)
    BY <1>3, <2>1 DEF Dials, C!Dial, C!DialFails
  <2>2. CASE Upgrades(c) \/ SendsReading(c) \/ Asks(c) \/ Closes(c)
    BY <1>3, <2>2 DEF Upgrades, SendsReading, Asks, Closes, C!Upgrade, C!Send, C!Request,
       C!Close, C!Writes
  <2>3. CASE Alone(c)
    BY <1>3, <2>3 DEF Alone, C!Alone, C!Upgraded, C!NotDue, C!Interrupt, C!GetReply, C!Closed,
       C!WriteFails, C!ReadFails
  <2>4. CASE Dies(c)
    BY <1>3, <2>4 DEF Dies, C!Kill
  <2>5. CASE ResetArrives(c) \/ LinkBreaks(c)
    BY <2>5 DEF ResetArrives, LinkBreaks, C!Reset
  <2>6. QED
    BY <2>1, <2>2, <2>3, <2>4, <2>5 DEF OwnStep, ClientStep
<1>5. before'[d] = before[d]
  BY DEF OwnStep, ClientStep, Dials, Upgrades, SendsReading, Asks, Closes, Alone, Dies,
     ResetArrives, LinkBreaks
<1>6. QED
  BY <1>2, <1>4, <1>5

\* What a client's own step changes, but for the link that breaks.
Moved(c, here, next) ==
  /\ at[c] = here /\ at'[c] = next /\ inbox'[c] = inbox[c] /\ eof'[c] = eof[c]

Wrote(c, here, next) == Moved(c, here, next) /\ eof[c] # "reset"

Got(c, here, next) ==
  /\ at[c] = here /\ at'[c] = next /\ inbox[c] = C!Await[here] /\ inbox'[c] = "none"
  /\ eof'[c] = eof[c]

LEMMA GoesMoved ==
  ASSUME ClientTypeOK, NEW c \in Conn, NEW here, NEW next
  PROVE  /\ C!Goes(c, here, next) => Moved(c, here, next)
         /\ C!Writes(c, here, next) => Wrote(c, here, next)
         /\ C!Reads(c, here, next) => Got(c, here, next)
BY DEF ClientTypeOK, C!Goes, C!Writes, C!Reads, C!To, Moved, Wrote, Got

Waits(c) == peer'[c] = peer[c] /\ sent'[c] = sent[c]

\* One write: as the client sees it, and as the connection does.
LEMMA WriteOn ==
  ASSUME TypeOK, ClientTypeOK, NEW c \in Conn
  PROVE  /\ Upgrades(c) => /\ Wrote(c, "upgrade", "handshake") /\ before'[c] = before[c]
                           /\ Waits(c) \/ (peer[c] = "dialed" /\ peer'[c] = "open"
                                           /\ sent'[c] = sent[c])
         /\ SendsReading(c) =>
              /\ Wrote(c, "body", IF interrupted[c] THEN "close" ELSE "body")
              /\ before'[c] = before[c] /\ peer'[c] = peer[c]
              /\ Waits(c) \/ \E p \in OwnReadings(c) : sent'[c] = Append(sent[c], p)
         /\ Asks(c) =>
              /\ Wrote(c, "request", "reply") /\ peer'[c] = peer[c]
              /\ before'[c] = {d \in Conn : Mode[d] = "data" /\ at[d] = "exited"}
              /\ Waits(c) \/ \E p \in Packet : p.type = "STATISTICS" /\ sent'[c] = Append(sent[c], p)
         /\ Closes(c) => /\ Wrote(c, "close", "closing") /\ before'[c] = before[c]
                         /\ Waits(c) \/ (peer'[c] = "closed" /\ sent'[c] = sent[c])
<1> USE DEF TypeOK, NetTypeOK, ClientTypeOK
<1>1. UNCHANGED vars => Waits(c)
  BY DEF vars, netVars, Waits
<1>2. Upgrades(c) => /\ Wrote(c, "upgrade", "handshake") /\ before'[c] = before[c]
                     /\ Waits(c) \/ (peer[c] = "dialed" /\ peer'[c] = "open" /\ sent'[c] = sent[c])
  BY <1>1, GoesMoved DEF Upgrades, C!Upgrade, ToServer, PeerUpgrade
<1>3. SendsReading(c) =>
        /\ Wrote(c, "body", IF interrupted[c] THEN "close" ELSE "body")
        /\ before'[c] = before[c] /\ peer'[c] = peer[c]
        /\ Waits(c) \/ \E p \in OwnReadings(c) : sent'[c] = Append(sent[c], p)
  <2> SUFFICES ASSUME SendsReading(c)
               PROVE  /\ Wrote(c, "body", IF interrupted[c] THEN "close" ELSE "body")
                      /\ before'[c] = before[c] /\ peer'[c] = peer[c]
                      /\ Waits(c) \/ \E p \in OwnReadings(c) : sent'[c] = Append(sent[c], p)
    OBVIOUS
  <2>1. Wrote(c, "body", IF interrupted[c] THEN "close" ELSE "body") /\ before'[c] = before[c]
    BY GoesMoved DEF SendsReading, C!Send, C!AfterTurn
  <2>2. CASE UNCHANGED vars
    BY <1>1, <2>1, <2>2 DEF Waits
  <2>3. ASSUME NEW p \in OwnReadings(c), PeerSend(c, p)
        PROVE  peer'[c] = peer[c] /\ sent'[c] = Append(sent[c], p)
    BY <2>3 DEF PeerSend
  <2>4. QED
    BY <2>1, <2>2, <2>3 DEF SendsReading, ToServer
<1>4. Asks(c) =>
        /\ Wrote(c, "request", "reply") /\ peer'[c] = peer[c]
        /\ before'[c] = {d \in Conn : Mode[d] = "data" /\ at[d] = "exited"}
        /\ Waits(c) \/ \E p \in Packet : p.type = "STATISTICS" /\ sent'[c] = Append(sent[c], p)
  <2> SUFFICES ASSUME Asks(c)
               PROVE  /\ Wrote(c, "request", "reply") /\ peer'[c] = peer[c]
                      /\ before'[c] = {d \in Conn : Mode[d] = "data" /\ at[d] = "exited"}
                      /\ Waits(c) \/ \E p \in Packet : p.type = "STATISTICS"
                                                         /\ sent'[c] = Append(sent[c], p)
    OBVIOUS
  <2>1. /\ Wrote(c, "request", "reply")
        /\ before'[c] = {d \in Conn : Mode[d] = "data" /\ at[d] = "exited"}
    BY GoesMoved DEF Asks, C!Request
  <2>2. CASE UNCHANGED vars
    BY <1>1, <2>1, <2>2 DEF Waits
  <2>3. ASSUME NEW p \in Packet, p.type = "STATISTICS", PeerSend(c, p)
        PROVE  peer'[c] = peer[c] /\ sent'[c] = Append(sent[c], p)
    BY <2>3 DEF PeerSend
  <2>4. QED
    BY <2>1, <2>2, <2>3 DEF Asks, ToServer
<1>5. Closes(c) => /\ Wrote(c, "close", "closing") /\ before'[c] = before[c]
                   /\ Waits(c) \/ (peer'[c] = "closed" /\ sent'[c] = sent[c])
  BY <1>1, GoesMoved DEF Closes, C!Close, ToServer, PeerLeave
<1>6. QED
  BY <1>2, <1>3, <1>4, <1>5

LEMMA DialOn ==
  ASSUME TypeOK, ClientTypeOK, NEW c \in Conn, Dials(c)
  PROVE  /\ before'[c] = before[c] /\ sent'[c] = sent[c]
         /\ \/ Moved(c, "off", "upgrade") /\ peer[c] = "none" /\ peer'[c] = "dialed"
            \/ Moved(c, "off", "failed") /\ peer'[c] = peer[c]
BY GoesMoved DEF TypeOK, NetTypeOK, ClientTypeOK, Dials, C!Dial, C!DialFails, PeerConnect, vars, netVars

LEMMA AloneOn ==
  ASSUME ClientTypeOK, NEW c \in Conn, Alone(c)
  PROVE  /\ before'[c] = before[c] /\ Waits(c)
         /\ \/ Got(c, "handshake", IF Mode[c] = "data" THEN "body" ELSE "request")
            \/ Moved(c, "body", IF interrupted[c] THEN "close" ELSE "body")
            \/ Moved(c, "body", "body")
            \/ Got(c, "reply", "close") \/ Got(c, "closing", "exited")
            \/ /\ eof[c] = "reset" \/ (eof[c] = "fin" /\ inbox[c] = "none" /\ at[c] \in DOMAIN C!Await)
               /\ \E here \in C!Writing \cup DOMAIN C!Await : Moved(c, here, C!Thrown(here))
<1>1. before'[c] = before[c] /\ Waits(c)
  BY DEF Alone, vars, netVars, Waits
<1>2. CASE C!Interrupt(c)
  BY <1>1, <1>2 DEF C!Interrupt, Moved
<1>3. CASE C!Upgraded(c) \/ C!NotDue(c) \/ C!GetReply(c) \/ C!Closed(c)
  BY <1>1, <1>3, GoesMoved DEF C!Upgraded, C!NotDue, C!GetReply, C!Closed, C!AfterTurn
<1>4. CASE C!WriteFails(c)
  BY <1>1, <1>4, GoesMoved DEF C!WriteFails
<1>5. CASE C!ReadFails(c)
  <2>1. PICK here \in DOMAIN C!Await : C!Goes(c, here, C!Thrown(here))
    BY <1>5 DEF C!ReadFails
  <2>2. Moved(c, here, C!Thrown(here)) /\ at[c] = here
    BY <2>1, GoesMoved DEF Moved
  <2>3. QED
    BY <1>1, <1>5, <2>2 DEF C!ReadFails
<1>6. QED
  BY <1>2, <1>3, <1>4, <1>5 DEF Alone, C!Alone

LEMMA DiesOn ==
  ASSUME TypeOK, ClientTypeOK, NEW c \in Conn, Dies(c)
  PROVE  /\ before'[c] = before[c] /\ sent'[c] = sent[c]
         /\ at[c] \notin {"off"} \cup C!Over /\ Moved(c, at[c], "killed")
         /\ peer'[c] = peer[c] \/ (peer'[c] \in {"closed", "reset"} /\ pc[c] # "done")
<1>1. \E here \in C!ClientPc \ (C!Over \cup {"off"}) : Moved(c, here, "killed")
  BY GoesMoved DEF Dies, C!Kill
<1>2. at[c] \notin {"off"} \cup C!Over /\ Moved(c, at[c], "killed")
  BY <1>1 DEF Moved
<1>3. /\ sent'[c] = sent[c]
      /\ peer'[c] = peer[c] \/ (peer'[c] \in {"closed", "reset"} /\ pc[c] # "done")
  BY DEF Dies, PeerLeave, vars, netVars, TypeOK, NetTypeOK
<1>4. QED
  BY <1>2, <1>3 DEF Dies

LEMMA ResetOn ==
  ASSUME TypeOK, ClientTypeOK, NEW c \in Conn, ResetArrives(c) \/ LinkBreaks(c)
  PROVE  /\ before'[c] = before[c] /\ sent'[c] = sent[c]
         /\ at'[c] = at[c] /\ inbox'[c] = inbox[c]
         /\ \/ eof'[c] = "reset" /\ eof[c] # "reset" /\ at[c] \notin C!Over /\ peer'[c] = peer[c]
            \/ LinkBreaks(c) /\ eof'[c] = eof[c] /\ peer[c] # "none" /\ peer'[c] = "reset"
         /\ ResetArrives(c) => peer'[c] = peer[c]
BY DEF ResetArrives, LinkBreaks, C!Reset, PeerLeave, vars, netVars, TypeOK, NetTypeOK, ClientTypeOK

\* Without a new message, and with the thread where it is.
LEMMA SameRequests ==
  ASSUME NEW c \in Conn, sent'[c] = sent[c], pc'[c] = pc[c], rd'[c] = rd[c]
  PROVE  Requested(c)' = Requested(c) /\ Unserved(c)' = Unserved(c)
BY DEF Requested, Unserved

\* A client that writes a reading has not asked and never does.
LEMMA SendInStep ==
  ASSUME TypeOK, ClientTypeOK, NEW c \in Conn, StaysInStep(c), SendsReading(c),
         pc'[c] = pc[c], rd'[c] = rd[c]
  PROVE  StaysInStep(c)'
<1> USE AwaitValues
<1>1. /\ Wrote(c, "body", IF interrupted[c] THEN "close" ELSE "body") /\ peer'[c] = peer[c]
      /\ Waits(c) \/ \E p \in OwnReadings(c) : sent'[c] = Append(sent[c], p)
  BY WriteOn
<1>2. /\ at[c] = "body" /\ at'[c] \in {"body", "close"} /\ inbox'[c] = inbox[c]
      /\ inbox[c] = "none" /\ Requested(c) = {}
  BY <1>1 DEF Wrote, Moved, StaysInStep
<1>3. Requested(c)' = {}
  <2>1. CASE Waits(c)
    BY <1>2, <2>1 DEF Waits, Requested
  <2>2. ASSUME NEW p \in OwnReadings(c), sent'[c] = Append(sent[c], p)
        PROVE  Requested(c)' = {}
    BY <1>2, <2>2 DEF OwnReadings, IsReading, Requested, TypeOK, NetTypeOK
  <2>3. QED
    BY <1>1, <2>1, <2>2
<1>4. Unserved(c)' = {}
  BY <1>3 DEF Unserved
<1>5. QED
  BY <1>1, <1>2, <1>3, <1>4 DEF StaysInStep

\* A client asks once, and nothing was asked before.
LEMMA AskInStep ==
  ASSUME TypeOK, Cursor, ClientTypeOK, NEW c \in Conn, StaysInStep(c), Asks(c),
         pc'[c] = pc[c], rd'[c] = rd[c]
  PROVE  StaysInStep(c)'
<1> USE AwaitValues
<1>1. /\ Wrote(c, "request", "reply") /\ peer'[c] = peer[c]
      /\ Waits(c) \/ \E p \in Packet : p.type = "STATISTICS" /\ sent'[c] = Append(sent[c], p)
  BY WriteOn
<1>2. /\ at[c] = "request" /\ at'[c] = "reply" /\ inbox'[c] = inbox[c]
      /\ inbox[c] = "none" /\ Requested(c) = {} /\ pc[c] \notin StatPc
      /\ pc[c] \notin {"none", "handshake"} /\ Mode[c] = "statistics"
  BY <1>1 DEF Wrote, Moved, StaysInStep
<1>3. \A k, l \in Requested(c)' : k = l
  <2>1. CASE Waits(c)
    BY <1>2, <2>1 DEF Waits, Requested
  <2>2. ASSUME NEW p \in Packet, sent'[c] = Append(sent[c], p)
        PROVE  Requested(c)' \subseteq {Len(sent[c]) + 1}
    BY <1>2, <2>2 DEF Requested, TypeOK, NetTypeOK
  <2>3. QED
    BY <1>1, <2>1, <2>2
<1>4. QED
  BY <1>1, <1>2, <1>3 DEF StaysInStep

LEMMA OwnInStep ==
  ASSUME TypeOK, Cursor, ClientTypeOK, NEW c \in Conn, StaysInStep(c), OwnStep(c)
  PROVE  StaysInStep(c)'
<1> USE AwaitValues
<1>1. pc'[c] = pc[c] /\ rd'[c] = rd[c]
  BY OwnLeavesServer DEF threadVars
<1>2. CASE SendsReading(c) \/ Asks(c)
  BY <1>1, <1>2, SendInStep, AskInStep
<1>3. ASSUME sent'[c] = sent[c]
      PROVE  Requested(c)' = Requested(c) /\ Unserved(c)' = Unserved(c)
  BY <1>1, <1>3, SameRequests
<1>4. CASE Dials(c)
  BY <1>1, <1>3, <1>4, DialOn DEF Moved, StaysInStep
<1>5. CASE Upgrades(c) \/ Closes(c)
  BY <1>1, <1>3, <1>5, WriteOn DEF Wrote, Moved, Waits, StaysInStep
<1>6. CASE Alone(c)
  <2>1. Waits(c) /\ Requested(c)' = Requested(c) /\ Unserved(c)' = Unserved(c)
    BY <1>3, <1>6, AloneOn DEF Waits
  <2>2. CASE Got(c, "handshake", IF Mode[c] = "data" THEN "body" ELSE "request")
    BY <1>1, <2>1, <2>2, ModeAssumption DEF Got, Waits, StaysInStep
  <2>3. CASE Moved(c, "body", IF interrupted[c] THEN "close" ELSE "body") \/ Moved(c, "body", "body")
    BY <1>1, <2>1, <2>3 DEF Moved, Waits, StaysInStep
  <2>4. CASE Got(c, "reply", "close") \/ Got(c, "closing", "exited")
    BY <1>1, <2>1, <2>4 DEF Got, Waits, StaysInStep
  <2>5. ASSUME NEW here \in C!Writing \cup DOMAIN C!Await, Moved(c, here, C!Thrown(here))
        PROVE  StaysInStep(c)'
    BY <1>1, <2>1, <2>5 DEF Moved, Waits, StaysInStep, C!Thrown
  <2>6. QED
    BY <1>6, <2>2, <2>3, <2>4, <2>5, AloneOn
<1>7. CASE Dies(c)
  BY <1>1, <1>3, <1>7, DiesOn DEF Moved, StaysInStep
<1>8. CASE ResetArrives(c) \/ LinkBreaks(c)
  BY <1>1, <1>3, <1>8, ResetOn DEF StaysInStep
<1>9. QED
  BY <1>2, <1>4, <1>5, <1>6, <1>7, <1>8 DEF OwnStep, ClientStep

LEMMA SystemKinds ==
  ASSUME [SystemNext]_systemVars
  PROVE  UNCHANGED systemVars \/ ServerStep \/ \E c \in Conn : OwnStep(c)
BY DEF SystemNext, ServerStep, OwnStep, AllOver

LEMMA InStepStep ==
  ASSUME TypeOK, Cursor, Connected, ClientTypeOK, Acknowledged, InStep, [SystemNext]_systemVars
  PROVE  InStep'
<1> SUFFICES ASSUME NEW c \in Conn
             PROVE  StaysInStep(c)'
  BY DEF InStep
<1>1. StaysInStep(c) /\ Acknowledges(c)
  BY DEF InStep, Acknowledged
<1>2. ASSUME UNCHANGED <<pc, rd>>, at'[c] = at[c], inbox'[c] = inbox[c], peer'[c] = peer[c],
             sent'[c] = sent[c]
      PROVE  StaysInStep(c)'
  BY <1>1, <1>2, SameRequests DEF StaysInStep
<1>3. CASE UNCHANGED systemVars
  BY <1>2, <1>3 DEF systemVars, vars, netVars, threadVars
<1>4. CASE ServerStep
  <2>1. Served(c) /\ at'[c] = at[c] /\ sent'[c] = sent[c]
    BY <1>4, ServerServes, ServerKeeps
  <2>2. peer'[c] = peer[c] \/ (peer'[c] = "reset" /\ peer[c] # "none")
    BY <1>4, ServerPeer DEF ServerStep, MainServes, MainMishap, ThreadServes, ThreadMishap
  <2>3. QED
    BY <1>1, <2>1, <2>2, ServedInStep
<1>5. CASE OwnStep(c)
  BY <1>1, <1>5, OwnInStep
<1>6. ASSUME NEW d \in Conn, d # c, OwnStep(d)
      PROVE  StaysInStep(c)'
  BY <1>2, <1>6, OwnLeavesServer, OwnLeavesOthers DEF threadVars
<1>7. QED
  BY <1>3, <1>4, <1>5, <1>6, SystemKinds

LEMMA InitInStep == SystemInit => InStep
<1> SUFFICES ASSUME SystemInit, NEW c \in Conn
             PROVE  StaysInStep(c)
  BY DEF InStep
<1>1. pc[c] = "none" /\ peer[c] = "none" /\ sent[c] = <<>> /\ at[c] = "off" /\ inbox[c] = "none"
  BY DEF SystemInit, Init, C!Init
<1>2. Requested(c) = {} /\ Unserved(c) = {}
  BY <1>1 DEF Requested, Unserved
<1>3. QED
  BY <1>1, <1>2, AwaitValues DEF StaysInStep, StatPc

\* The thread of a connection and its client never get out of step.
THEOREM InStepCorrect == SystemSpec => []InStep
<1>1. TypeOK /\ Cursor /\ Connected /\ ClientTypeOK /\ Acknowledged /\ InStep
        /\ [SystemNext]_systemVars => InStep'
  BY InStepStep
<1>2. QED
  BY <1>1, InitInStep, AcknowledgedCorrect, SystemImplementsServer, TypeCorrect, PTL DEF SystemSpec

\* What arrives is the answer that the client waits for, although no message
\* says what it answers.
THEOREM RightAnswerCorrect == SystemSpec => []RightAnswer
<1>1. InStep => RightAnswer
  BY DEF InStep, StaysInStep, RightAnswer
<1>2. QED
  BY <1>1, InStepCorrect, PTL

-----------------------------------------------------------------------------
(* A client fails only for a cause. *)

\* What the main thread's state may become.
LEMMA MainChange ==
  ASSUME TypeOK, [Next]_vars
  PROVE  /\ faults' >= faults
         /\ \/ UNCHANGED <<main, needExit, runs>>
            \/ main \notin Running /\ main' \in Running /\ runs' = runs + 1
            \/ /\ main \in Running /\ main' \in Running \cup Ended /\ runs' = runs
               /\ needExit => needExit'
<1> USE DEF Running, Ended, Listening
<1> DEFINE Change ==
      /\ faults' >= faults
      /\ \/ UNCHANGED <<main, needExit, runs>>
         \/ main \notin Running /\ main' \in Running /\ runs' = runs + 1
         \/ /\ main \in Running /\ main' \in Running \cup Ended /\ runs' = runs
            /\ needExit => needExit'
<1>1. faults \in Nat /\ runs \in Nat
  BY DEF TypeOK, ProcTypeOK
<1>2. CASE UNCHANGED vars \/ Finished
  BY <1>1, <1>2 DEF Finished, vars, procVars
<1>3. CASE Boot
  BY <1>1, <1>3 DEF Boot
<1>4. CASE CreateTables \/ Listen \/ LoopCheck \/ AcceptNothing \/ Join \/ Interrupt
  BY <1>1, <1>4 DEF CreateTables, Listen, LoopCheck, AcceptNothing, Join, Interrupt
<1>5. ASSUME NEW c \in Conn, Accept(c) \/ AcceptFails(c)
      PROVE  Change
  BY <1>1, <1>5 DEF Accept, AcceptFails, Fault
<1>6. CASE Return \/ StartupFails \/ Crash \/ \E c \in Conn : ThreadFails(c)
  BY <1>1, <1>6 DEF Return, StartupFails, Crash, ThreadFails, Down, Fault
<1>7. ASSUME NEW c \in Conn, ThreadStep(c) \/ SqlError(c)
      PROVE  Change
  <2>1. UNCHANGED procVars
    BY <1>7 DEF ThreadStep, SqlError, Handshake, ThreadCheck, ReceiveReading, ReceiveRequest,
       ReceiveIgnored, Receive, ReadFails, Select, SelectFound, SelectEmpty, InsertClient, Reselect,
       InsertPacket, ListClients, ScanPackets, WriteReply
  <2>2. UNCHANGED faults \/ Fault
    <3>1. CASE ListClients(c) \/ ScanPackets(c)
      BY <3>1 DEF ListClients, ScanPackets
    <3>2. CASE Select(c) \/ Reselect(c) \/ SqlError(c)
      BY <3>2 DEF Select, Reselect, SelectFound, SelectEmpty, SqlError
    <3>3. QED
      BY <1>7, <3>1, <3>2 DEF ThreadStep, Handshake, ThreadCheck, ReceiveReading, ReceiveRequest,
         ReceiveIgnored, Receive, ReadFails, InsertClient, InsertPacket, WriteReply
  <2>3. QED
    BY <1>1, <2>1, <2>2 DEF procVars, Fault
<1>8. ASSUME NEW c \in Conn, PeerConnect(c) \/ PeerStep(c)
      PROVE  Change
  BY <1>1, <1>8 DEF PeerConnect, PeerStep, PeerUpgrade, PeerDeafens, PeerSend, PeerLeave, procVars
<1>9. QED
  BY <1>2, <1>3, <1>4, <1>5, <1>6, <1>7, <1>8 DEF Next, MainStep, MainFails

\* A server that was started stays one that was, and a cause stays.
LEMMA CauseStays ==
  ASSUME TypeOK, TypeOK', Started, [Next]_vars
  PROVE  Started' /\ (Cause => Cause')
<1>1. faults \in Nat /\ faults' \in Int /\ runs \in Nat
  BY DEF TypeOK, ProcTypeOK
<1>2. QED
  BY <1>1, MainChange DEF Started, Cause, Running, Ended

LEMMA OwnPacketsStep ==
  ASSUME TypeOK, ClientTypeOK, NEW c \in Conn, StaysInStep(c), OwnPackets(c),
         [SystemNext]_systemVars
  PROVE  OwnPackets(c)'
<1>1. CASE sent'[c] = sent[c]
  BY <1>1 DEF OwnPackets
<1>2. sent[c] \in Seq(Packet)
  BY DEF TypeOK, NetTypeOK
<1>3. ASSUME NEW p \in Packet, sent'[c] = Append(sent[c], p),
             IF Mode[c] = "data" THEN p \in OwnReadings(c) ELSE p.type = "STATISTICS"
      PROVE  OwnPackets(c)'
  <2>1. \A k \in DOMAIN sent'[c] :
          (k \in DOMAIN sent[c] /\ sent'[c][k] = sent[c][k]) \/ sent'[c][k] = p
    BY <1>2, <1>3
  <2>2. QED
    BY <1>3, <2>1 DEF OwnPackets, OwnReadings
<1>4. CASE SendsReading(c)
  BY <1>1, <1>3, <1>4, WriteOn DEF Waits, Wrote, Moved, StaysInStep, OwnReadings
<1>5. CASE Asks(c)
  <2>1. Mode[c] = "statistics"
    BY <1>5, WriteOn DEF Wrote, Moved, StaysInStep
  <2>2. QED
    BY <1>1, <1>3, <1>5, <2>1, WriteOn DEF Waits
<1>6. CASE ServerStep \/ UNCHANGED systemVars
  BY <1>1, <1>6, ServerKeeps DEF systemVars, vars, netVars
<1>7. ASSUME NEW d \in Conn, OwnStep(d), d # c
      PROVE  OwnPackets(c)'
  BY <1>1, <1>7, OwnLeavesOthers
<1>8. CASE Dials(c) \/ Upgrades(c) \/ Closes(c) \/ Alone(c) \/ Dies(c) \/ ResetArrives(c) \/ LinkBreaks(c)
  BY <1>1, <1>8, DialOn, WriteOn, AloneOn, DiesOn, ResetOn DEF Waits
<1>9. QED
  BY <1>4, <1>5, <1>6, <1>7, <1>8, SystemKinds DEF OwnStep, ClientStep

\* What saveClientPacket handles is a reading of the connection's own client.
LEMMA SavesOwn ==
  ASSUME TypeOK, Cursor, NEW c \in Conn, OwnPackets(c), pc[c] \in SavePc
  PROVE  Msg(c) \in OwnReadings(c)
<1>1. rd[c] \in DOMAIN sent[c] /\ IsReading(Msg(c))
  BY MsgType DEF Cursor, TypeOK, NetTypeOK
<1>2. QED
  BY <1>1 DEF OwnPackets, Msg, IsReading

\* No other client registers the uuid of c, and no lookup of c fails.
LEMMA LooksUpStep ==
  ASSUME TypeOK, TypeOK', Cursor, Connected, ClientTypeOK, NEW c \in Conn, LooksUp(c), ~Cause',
         \A d \in Conn : OwnPackets(d), [SystemNext]_systemVars
  PROVE  LooksUp(c)'
<1>1. [Next]_vars /\ clients \in Seq(Uuid)
  BY SystemSteps DEF TypeOK, DatabaseTypeOK
<1>2. \A d \in Conn : pc[d] \in SavePc => Msg(d).uuid = UuidOf[d]
  BY SavesOwn DEF OwnReadings
<1>3. ASSUME NEW d \in Conn, Registers(d)
      PROVE  /\ clients' = Append(clients, CStr[UuidOf[d]])
             /\ pc[d] = "insertClient" /\ pc'[d] = "reselect"
  BY <1>2, <1>3 DEF Registers, Moves, SavePc, TypeOK, ThreadTypeOK
<1>4. clients' = clients \/ \E d \in Conn : Registers(d)
  BY <1>1, Effect DEF Keeps, Reads, Finds, Stores, Sends
<1>5. ASSUME pc'[c] = "insertClient"
      PROVE  ClientIds(UuidOf[c])' = {}
  <2>1. CASE pc[c] = "insertClient"
    <3>1. ClientIds(UuidOf[c]) = {}
      BY <2>1 DEF LooksUp
    <3>2. ASSUME NEW d \in Conn, Registers(d)
          PROVE  ClientIds(UuidOf[c])' = {}
      <4>1. d # c
        BY <1>3, <1>5, <3>2
      <4>2. CStr[UuidOf[d]] # CStr[UuidOf[c]]
        BY <4>1, UuidAssumption
      <4>3. clients' = Append(clients, CStr[UuidOf[d]])
        BY <1>3, <3>2
      <4>4. \A i \in DOMAIN clients' :
              clients'[i] = CStr[UuidOf[d]] \/ (i \in DOMAIN clients /\ clients'[i] = clients[i])
        BY <1>1, <4>3
      <4>5. QED
        BY <3>1, <4>2, <4>4 DEF ClientIds
    <3>3. QED
      BY <1>4, <3>1, <3>2 DEF ClientIds
  <2>2. CASE pc[c] # "insertClient"
    <3>1. /\ pc[c] = "select" /\ UNCHANGED clients
          /\ ClientIds(Msg(c).uuid) = {} \/ faults' > 0
      BY <1>1, <1>3, <1>5, <2>2, LookupOn
    <3>2. ClientIds(UuidOf[c]) = {}
      BY <1>2, <3>1 DEF SavePc, Cause
    <3>3. QED
      BY <3>1, <3>2 DEF ClientIds
  <2>3. QED
    BY <2>1, <2>2
<1>6. ASSUME pc'[c] = "reselect"
      PROVE  ClientIds(UuidOf[c])' # {}
  <2>1. CASE pc[c] = "reselect"
    <3>1. PICK i \in DOMAIN clients : clients[i] = CStr[UuidOf[c]]
      BY <2>1 DEF LooksUp, ClientIds
    <3>2. i \in DOMAIN clients' /\ clients'[i] = clients[i]
      BY <1>1, <1>3, <1>4
    <3>3. QED
      BY <3>1, <3>2 DEF ClientIds
  <2>2. CASE pc[c] # "reselect"
    <3>1. Registers(c)
      BY <1>1, <1>6, <2>2, LookupOn
    <3>2. clients' = Append(clients, CStr[UuidOf[c]])
      BY <1>3, <3>1
    <3>3. Len(clients) + 1 \in DOMAIN clients' /\ clients'[Len(clients) + 1] = CStr[UuidOf[c]]
      BY <1>1, <3>2
    <3>4. QED
      BY <3>3 DEF ClientIds
  <2>3. QED
    BY <2>1, <2>2
<1>7. QED
  BY <1>5, <1>6 DEF LooksUp

LEMMA ServerPeerEnds ==
  ASSUME NEW c \in Conn, ServerStep, peer'[c] # peer[c]
  PROVE  main' \in Ended
<1>1. Return \/ StartupFails \/ Crash \/ \E d \in Conn : ThreadFails(d)
  <2>1. CASE MainServes \/ MainMishap
    BY <2>1 DEF MainServes, MainMishap, MainStep, MainFails, Boot, CreateTables, Listen, LoopCheck,
       AcceptNothing, Join, Interrupt, Accept, AcceptFails, netVars
  <2>2. ASSUME NEW d \in Conn, ThreadServes(d) \/ ThreadMishap(d)
        PROVE  FALSE
    <3>1. UNCHANGED peer
      BY <2>2 DEF ThreadServes, ThreadMishap, ThreadStep, SqlError, Handshake, ThreadCheck,
         ReceiveReading, ReceiveRequest, ReceiveIgnored, Receive, ReadFails, Select, SelectFound,
         SelectEmpty, InsertClient, Reselect, InsertPacket, ListClients, ScanPackets, WriteReply, netVars
    <3>2. QED
      BY <3>1
  <2>3. QED
    BY <2>1, <2>2 DEF ServerStep
<1>2. QED
  BY <1>1 DEF Return, StartupFails, Crash, ThreadFails, Down, Ended

\* Without a cause, a thread ends only after its client.
LEMMA ServedEndsWell ==
  ASSUME TypeOK, Cursor, ClientTypeOK, NEW c \in Conn, ServerStep, Served(c), at'[c] = at[c],
         sent'[c] = sent[c], Acknowledges(c), StaysInStep(c), OwnPackets(c), LooksUp(c), EndsWell(c),
         ~Cause, ~Cause'
  PROVE  EndsWell(c)'
<1> USE AwaitValues
<1>1. faults' \in Nat => faults' = 0
  BY DEF Cause
<1>2. peer'[c] = peer[c]
  BY ServerPeerEnds DEF Cause
<1>3. CASE pc[c] = "done"
  <2>1. pc'[c] = pc[c] /\ Quiet(c)
    BY <1>3 DEF Served, GoesOn, Welcomes, TakesNext, Answered, Ends, Busy, SavePc
  <2>2. QED
    BY <1>2, <2>1 DEF EndsWell, Quiet
<1>4. CASE pc[c] # "done" /\ eof[c] # "none"
  BY <1>2, <1>4 DEF EndsWell
<1>5. CASE pc[c] # "done" /\ eof[c] = "none" /\ pc'[c] # "done"
  <2>1. eof'[c] = "none"
    BY <1>5 DEF Served, GoesOn, Quiet, Welcomes, TakesNext, Answered, Ends
  <2>2. QED
    BY <1>2, <1>5, <2>1 DEF EndsWell
<1>6. CASE pc[c] # "done" /\ eof[c] = "none" /\ pc'[c] = "done"
  <2>1. Ends(c)
    BY <1>6 DEF Served, GoesOn, Welcomes, TakesNext, Answered, Busy, SavePc
  <2>2. peer[c] = "closed" => at[c] \in {"closing", "exited", "killed"}
    BY DEF Acknowledges, EndsWell
  <2>3. CASE SaysGoodbye(c)
    <3>1. at[c] = "closing" => inbox'[c] = "close" /\ eof'[c] = "fin" /\ rd'[c] = rd[c]
      BY <1>6, <2>1, <2>3 DEF SaysGoodbye, Hears, Ends
    <3>2. QED
      BY <1>2, <1>6, <2>2, <2>3, <3>1 DEF SaysGoodbye, EndsWell
  <2>4. CASE Reason(c)
    <3>1. \/ peer[c] = "reset" \/ (pc[c] = "handshake" /\ peer[c] = "closed")
          \/ pc[c] = "insertClient" /\ ClientIds(Msg(c).uuid) # {}
          \/ pc[c] = "reselect" /\ ClientIds(Msg(c).uuid) = {}
          \/ pc[c] = "insertPacket" /\ NotNullViolated(Msg(c))
      BY <2>4 DEF Reason, Cause
    <3>2. peer[c] = "reset" \/ (pc[c] = "handshake" /\ peer[c] = "closed")
      BY <3>1, SavesOwn DEF SavePc, OwnReadings, LooksUp
    <3>3. pc[c] = "handshake" /\ at[c] \notin C!Over => at[c] # "closing"
      BY DEF StaysInStep
    <3>4. at[c] \in {"exited", "killed"}
      BY <2>2, <3>2, <3>3 DEF EndsWell
    <3>5. QED
      BY <1>2, <3>4 DEF EndsWell
  <2>5. QED
    BY <2>1, <2>3, <2>4 DEF Ends
<1>7. QED
  BY <1>3, <1>4, <1>5, <1>6

\* Its own steps let a client fail only when its connection broke or ended.
LEMMA OwnEndsWell ==
  ASSUME TypeOK, ClientTypeOK, NEW c \in Conn \ Fragile, OwnStep(c),
         Acknowledges(c), StaysInStep(c), EndsWell(c)
  PROVE  EndsWell(c)'
<1> USE AwaitValues
<1>1. pc'[c] = pc[c] /\ rd'[c] = rd[c]
  BY OwnLeavesServer DEF threadVars
<1>2. at[c] \notin {"closing", "exited", "killed"} => pc[c] # "done" /\ eof[c] = "none"
  BY DEF EndsWell
<1>3. CASE Dials(c)
  BY <1>1, <1>2, <1>3, DialOn DEF Moved, StaysInStep, EndsWell
<1>4. CASE Upgrades(c) \/ SendsReading(c) \/ Asks(c) \/ Closes(c)
  <2>1. /\ at[c] \in C!Writing /\ at'[c] \notin {"failed", "aborted"} /\ eof'[c] = eof[c]
        /\ peer'[c] = peer[c] \/ peer'[c] # "reset"
    BY <1>4, WriteOn DEF Wrote, Moved, Waits
  <2>2. QED
    BY <1>1, <1>2, <2>1 DEF EndsWell
<1>5. CASE Alone(c)
  <2>1. peer'[c] = peer[c] /\ sent'[c] = sent[c]
    BY <1>5, AloneOn DEF Waits
  <2>2. ASSUME at[c] \in {"handshake", "body", "reply"}, at'[c] \notin {"failed", "aborted"},
               eof'[c] = eof[c]
        PROVE  EndsWell(c)'
    BY <1>1, <1>2, <2>1, <2>2 DEF EndsWell
  <2>3. CASE \/ Got(c, "handshake", IF Mode[c] = "data" THEN "body" ELSE "request")
             \/ Moved(c, "body", IF interrupted[c] THEN "close" ELSE "body")
             \/ Moved(c, "body", "body") \/ Got(c, "reply", "close")
    BY <2>2, <2>3 DEF Got, Moved
  <2>4. CASE Got(c, "closing", "exited")
    BY <1>1, <2>1, <2>4 DEF Got, EndsWell
  <2>5. ASSUME eof[c] = "reset" \/ (eof[c] = "fin" /\ inbox[c] = "none" /\ at[c] \in DOMAIN C!Await),
               NEW here \in C!Writing \cup DOMAIN C!Await, Moved(c, here, C!Thrown(here))
        PROVE  FALSE
    BY <2>5 DEF Moved, EndsWell
  <2>6. QED
    BY <1>5, <2>3, <2>4, <2>5, AloneOn
<1>6. CASE Dies(c)
  BY <1>1, <1>6, DiesOn DEF Moved, EndsWell
<1>7. CASE ResetArrives(c)
  <2>1. at[c] \notin C!Over /\ eof[c] = "fin"
    BY <1>7 DEF ResetArrives, C!Reset
  <2>2. at[c] = "closing" /\ inbox[c] = "close" /\ peer[c] = "closed" /\ rd[c] = Len(sent[c])
    BY <2>1 DEF EndsWell
  <2>3. ~lost[c]
    BY <2>2 DEF Acknowledges
  <2>4. QED
    <3>1. lost[c] \/ rd[c] < Len(sent[c]) \/ peer[c] = "reset"
      BY <1>7 DEF ResetArrives
    <3>2. rd[c] \in Nat
      BY DEF TypeOK, ThreadTypeOK
    <3>3. QED
      BY <2>2, <2>3, <3>1, <3>2
<1>8. CASE LinkBreaks(c)
  BY <1>8 DEF LinkBreaks
<1>9. QED
  BY <1>3, <1>4, <1>5, <1>6, <1>7, <1>8 DEF OwnStep, ClientStep

LEMMA EndsWellStep ==
  ASSUME TypeOK, Cursor, Connected, ClientTypeOK, NEW c \in Conn \ Fragile,
         Acknowledges(c), StaysInStep(c), OwnPackets(c), LooksUp(c), EndsWell(c),
         [SystemNext]_systemVars, ~Cause, ~Cause'
  PROVE  EndsWell(c)'
<1>1. CASE ServerStep
  BY <1>1, ServerServes, ServerKeeps, ServedEndsWell
<1>2. CASE OwnStep(c)
  BY <1>2, OwnEndsWell
<1>3. ASSUME pc'[c] = pc[c], rd'[c] = rd[c], at'[c] = at[c], inbox'[c] = inbox[c],
             eof'[c] = eof[c], peer'[c] = peer[c], sent'[c] = sent[c]
      PROVE  EndsWell(c)'
  BY <1>3 DEF EndsWell
<1>4. CASE UNCHANGED systemVars
  BY <1>3, <1>4 DEF systemVars, vars, netVars, threadVars
<1>5. ASSUME NEW d \in Conn, d # c, OwnStep(d)
      PROVE  EndsWell(c)'
  BY <1>3, <1>5, OwnLeavesServer, OwnLeavesOthers DEF threadVars
<1>6. QED
  BY <1>1, <1>2, <1>4, <1>5, SystemKinds

LEMMA LawfulStep ==
  ASSUME TypeOK, TypeOK', Cursor, Connected, ClientTypeOK, Acknowledged, InStep, Lawful,
         [SystemNext]_systemVars
  PROVE  Lawful'
<1>1. Started' /\ (Cause => Cause')
  BY SystemSteps, CauseStays DEF Lawful
<1>2. ASSUME NEW c \in Conn
      PROVE  OwnPackets(c)'
  BY OwnPacketsStep DEF Lawful, InStep
<1>3. ASSUME ~Cause', NEW c \in Conn
      PROVE  LooksUp(c)' /\ (c \notin Fragile => EndsWell(c)')
  <2>1. /\ ~Cause /\ LooksUp(c) /\ OwnPackets(c) /\ Acknowledges(c) /\ StaysInStep(c)
        /\ c \notin Fragile => EndsWell(c)
    BY <1>1, <1>3 DEF Lawful, Acknowledged, InStep
  <2>2. LooksUp(c)'
    BY <1>3, <2>1, LooksUpStep DEF Lawful
  <2>3. c \notin Fragile => EndsWell(c)'
    BY <1>3, <2>1, EndsWellStep
  <2>4. QED
    BY <2>2, <2>3
<1>4. QED
  BY <1>1, <1>2, <1>3 DEF Lawful

LEMMA InitLawful == SystemInit => Lawful
<1> SUFFICES ASSUME SystemInit
             PROVE  Lawful
  OBVIOUS
<1>1. Started
  BY DEF SystemInit, Init, Started
<1>2. ASSUME NEW c \in Conn
      PROVE  OwnPackets(c) /\ LooksUp(c) /\ EndsWell(c)
  BY DEF SystemInit, Init, C!Init, OwnPackets, LooksUp, EndsWell
<1>3. QED
  BY <1>1, <1>2 DEF Lawful

\* While nothing is stopped, restarted, broken or failing, every thread outlives
\* its client.
THEOREM LawfulCorrect == SystemSpec => []Lawful
<1>1. TypeOK /\ TypeOK' /\ Cursor /\ Connected /\ ClientTypeOK /\ Acknowledged /\ InStep /\ Lawful
        /\ [SystemNext]_systemVars => Lawful'
  BY LawfulStep
<1>2. QED
  BY <1>1, InitLawful, InStepCorrect, AcknowledgedCorrect, SystemImplementsServer, TypeCorrect, PTL
  DEF SystemSpec

\* No interleaving of the clients alone makes the server drop one: a client
\* whose link holds fails only if the server was stopped or ended, or a call
\* of it failed.
THEOREM FailureHasCauseCorrect == SystemSpec => []FailureHasCause
<1>1. Lawful => FailureHasCause
  BY DEF Lawful, EndsWell, Cause, FailureHasCause
<1>2. QED
  BY <1>1, LawfulCorrect, PTL

-----------------------------------------------------------------------------
(* The statistics have what was stored before they were asked for. *)

\* What a client has sent is not taken back.
LEMMA SentExtends ==
  ASSUME TypeOK, Connected, [Next]_vars, NEW d \in Conn
  PROVE  \A k \in DOMAIN sent[d] : k \in DOMAIN sent'[d] /\ sent'[d][k] = sent[d][k]
<1>1. CASE UNCHANGED sent
  BY <1>1
<1>2. ASSUME NEW c \in Conn, Sends(c)
      PROVE  \A k \in DOMAIN sent[d] : k \in DOMAIN sent'[d] /\ sent'[d][k] = sent[d][k]
  BY <1>2 DEF Sends, TypeOK, NetTypeOK
<1>3. QED
  BY <1>1, <1>2, Effect DEF Keeps, Reads, Finds, Registers, Stores

LEMMA StoredExactlyStep ==
  ASSUME TypeOK, Cursor, Connected, Readings, StoredExactly, [Next]_vars
  PROVE  StoredExactly'
<1> DEFINE From(i) == sent[origin[i][1]][origin[i][2]]
           Exact(p, q) == p.timestamp = q.timestamp /\ p.x = q.x /\ p.y = q.y
<1>1. /\ Len(packets) \in Nat /\ Len(origin) = Len(packets)
      /\ DOMAIN packets = 1..Len(packets) /\ DOMAIN origin = 1..Len(origin)
  BY DEF TypeOK, DatabaseTypeOK, Readings, Attribution
<1>2. ASSUME NEW i \in DOMAIN packets, packets'[i] = packets[i], origin'[i] = origin[i]
      PROVE  Exact(packets[i], From(i))'
  <2>1. origin[i][1] \in Conn /\ origin[i][2] \in DOMAIN sent[origin[i][1]]
    <3>1. i \in DOMAIN origin
      BY <1>1
    <3>2. QED
      BY <3>1, OriginType DEF Readings, TypeOK, NetTypeOK
  <2>2. From(i)' = From(i)
    BY <1>2, <2>1, SentExtends
  <2>3. Exact(packets[i], From(i))
    BY DEF StoredExactly
  <2>4. QED
    BY <1>2, <2>2, <2>3
<1>3. CASE UNCHANGED <<packets, origin>>
  BY <1>2, <1>3 DEF StoredExactly
<1>4. ASSUME NEW c \in Conn, Stores(c)
      PROVE  StoredExactly'
  <2>1. PICK new \in Nat : new = Len(packets) + 1
    BY <1>1
  <2>2. /\ DOMAIN packets' = 1..new /\ origin'[new] = <<c, rd[c]>>
        /\ \A i \in DOMAIN packets : packets'[i] = packets[i] /\ origin'[i] = origin[i]
    BY <1>1, <1>4, <2>1, StoresAppends
  <2>3. Exact(packets'[new], Msg(c)) /\ UNCHANGED sent
    BY <1>1, <1>4, <2>1 DEF Stores, TypeOK, DatabaseTypeOK
  <2>4. Exact(packets[new], From(new))'
    BY <2>2, <2>3 DEF Msg
  <2>5. \A i \in DOMAIN packets' : i = new \/ i \in DOMAIN packets
    BY <1>1, <2>1, <2>2
  <2>6. \A i \in DOMAIN packets' : Exact(packets[i], From(i))'
    BY <1>2, <2>2, <2>4, <2>5
  <2>7. QED
    BY <2>6 DEF StoredExactly
<1>5. QED
  BY <1>3, <1>4, Effect DEF Keeps, Reads, Finds, Registers, Sends

\* A client that ended stays as it was.
LEMMA OverStays ==
  ASSUME TypeOK, ClientTypeOK, NEW d \in Conn, at[d] \in C!Over, [SystemNext]_systemVars
  PROVE  at'[d] = at[d]
<1> USE AwaitValues
<1>1. CASE UNCHANGED systemVars \/ ServerStep
  BY <1>1, ServerKeeps DEF systemVars
<1>2. ASSUME NEW c \in Conn, OwnStep(c), c # d
      PROVE  at'[d] = at[d]
  BY <1>2, OwnLeavesOthers
<1>3. ASSUME OwnStep(d)
      PROVE  at'[d] = at[d]
  <2>1. CASE Dials(d) \/ Dies(d)
    BY <2>1, DialOn, DiesOn DEF Moved
  <2>2. CASE Upgrades(d) \/ SendsReading(d) \/ Asks(d) \/ Closes(d)
    BY <2>2, WriteOn DEF Wrote, Moved
  <2>3. CASE Alone(d)
    BY <2>3, AloneOn DEF Got, Moved
  <2>4. CASE ResetArrives(d) \/ LinkBreaks(d)
    BY <2>4, ResetOn
  <2>5. QED
    BY <1>3, <2>1, <2>2, <2>3, <2>4 DEF OwnStep, ClientStep
<1>4. QED
  BY <1>1, <1>2, <1>3, SystemKinds

\* Rows that hold the readings of the clients before c go on to do so.
LEMMA HoldsStays ==
  ASSUME TypeOK, ClientTypeOK, Connected, Acknowledged, NEW c \in Conn, NEW n \in 0..Len(origin),
         \A d \in before[c] : at[d] = "exited", Holds(c, n), before'[c] = before[c], [Next]_vars
  PROVE  Holds(c, n)'
<1> SUFFICES ASSUME NEW d \in before[c], NEW k \in DOMAIN sent'[d]
             PROVE  \E i \in 1..n : origin'[i] = <<d, k>>
  BY DEF Holds
<1>1. d \in Conn
  BY DEF ClientTypeOK
<1>2. pc[d] = "done"
  BY <1>1 DEF Acknowledged, Acknowledges
<1>3. sent'[d] = sent[d]
  BY <1>1, <1>2, DoneStays
<1>4. PICK i \in 1..n : origin[i] = <<d, k>>
  BY <1>3 DEF Holds
<1>5. i \in DOMAIN origin
  BY <1>1, <1>4 DEF TypeOK
<1>6. QED
  BY <1>4, <1>5, OriginGrows

\* All readings of the clients that have exited are in the rows there are.
LEMMA AllHeld ==
  ASSUME TypeOK, ClientTypeOK, Readings, Acknowledged, Lawful, NEW c \in Conn,
         \A d \in before[c] : Mode[d] = "data" /\ at[d] = "exited"
  PROVE  Holds(c, Len(packets))
<1> SUFFICES ASSUME NEW d \in before[c], NEW k \in DOMAIN sent[d]
             PROVE  \E i \in 1..Len(packets) : origin[i] = <<d, k>>
  BY DEF Holds
<1>1. d \in Conn
  BY DEF ClientTypeOK
<1>2. IsReading(sent[d][k])
  BY <1>1 DEF Lawful, OwnPackets, OwnReadings
<1>3. AllStored(d)
  BY <1>1 DEF Acknowledged, Acknowledges
<1>4. DOMAIN origin = 1..Len(packets)
  BY DEF Readings, Attribution, TypeOK
<1>5. QED
  BY <1>2, <1>3, <1>4 DEF AllStored

LEMMA JobBases ==
  ASSUME TypeOK, NEW c \in Conn, RequestOK(c)
  PROVE  /\ pc[c] \in StatPc => job[c].base \in 0..Len(packets)
         /\ reply[c].base \in 0..Len(packets)
<1>1. job[c] \in Job /\ reply[c] \in Reply /\ Len(packets) \in Nat
  BY DEF TypeOK, ThreadTypeOK, DatabaseTypeOK
<1>2. QED
  BY <1>1 DEF RequestOK, ReplyOK, Job, Reply, StatPc

\* What a step does to the request of c and to its answer.
LEMMA RequestOn ==
  ASSUME TypeOK, NEW c \in Conn, [Next]_vars
  PROVE  /\ pc'[c] \in StatPc =>
              \/ pc[c] \in StatPc /\ job'[c].base = job[c].base
              \/ JobAsks(c)
         /\ reply'[c] = reply[c] \/ JobReplies(c)
         /\ pc[c] = "packets" /\ pc'[c] = "check" => JobReplies(c)
<1>1. JobRests(c) \/ JobEnds(c) \/ JobAsks(c) \/ JobLists(c) \/ JobScans(c) \/ JobReplies(c)
  BY RequestEffect DEF NoneAnswered, AllRest, OthersRest
<1>2. job[c] \in Job
  BY DEF TypeOK, ThreadTypeOK
<1>3. CASE JobLists(c) \/ JobScans(c)
  BY <1>2, <1>3, RestsAsked DEF JobLists, JobScans
<1>4. CASE JobRests(c) \/ JobEnds(c) \/ JobAsks(c) \/ JobReplies(c)
  BY <1>4 DEF JobRests, JobEnds, JobAsks, JobReplies, StatPc
<1>5. QED
  BY <1>1, <1>3, <1>4

\* When c gets to see its statistics.
Shown(c) == inbox[c] = "statistics" \/ at[c] \in {"close", "closing", "exited"}

LEMMA ShownOn ==
  ASSUME TypeOK, Connected, ClientTypeOK, NEW c \in Conn, StaysInStep(c), [SystemNext]_systemVars,
         Shown(c)'
  PROVE  Shown(c) \/ Mode[c] = "data" \/ (pc[c] = "packets" /\ pc'[c] = "check")
<1> USE AwaitValues
<1>1. CASE UNCHANGED systemVars
  BY <1>1 DEF systemVars, Shown
<1>2. CASE ServerStep
  <2>1. Served(c) /\ at' = at
    BY <1>2, ServerServes, ServerKeeps
  <2>2. inbox'[c] # "statistics" \/ inbox'[c] = inbox[c] \/ (pc[c] = "packets" /\ pc'[c] = "check")
    BY <2>1 DEF Served, GoesOn, Quiet, Welcomes, TakesNext, Answered, Ends, SaysGoodbye, Hears
  <2>3. QED
    BY <2>1, <2>2 DEF Shown
<1>3. ASSUME NEW d \in Conn, OwnStep(d), d # c
      PROVE  Shown(c)
  BY <1>3, OwnLeavesOthers DEF Shown
<1>4. ASSUME NEW here, NEW next, Moved(c, here, next),
             next \in {"close", "closing", "exited"} => here \in {"close", "closing", "exited"}
      PROVE  Shown(c)
  BY <1>4 DEF Moved, Shown
<1>5. CASE Dials(c) \/ Dies(c)
  BY <1>4, <1>5, DialOn, DiesOn
<1>6. CASE Upgrades(c) \/ SendsReading(c) \/ Asks(c) \/ Closes(c)
  <2>1. CASE SendsReading(c)
    BY <2>1, WriteOn DEF Wrote, Moved, StaysInStep
  <2>2. QED
    BY <1>4, <1>6, <2>1, WriteOn DEF Wrote
<1>7. CASE Alone(c)
  <2>1. CASE Moved(c, "body", IF interrupted[c] THEN "close" ELSE "body") \/ Moved(c, "body", "body")
    BY <2>1 DEF Moved, StaysInStep
  <2>2. CASE \/ Got(c, "handshake", IF Mode[c] = "data" THEN "body" ELSE "request")
             \/ Got(c, "reply", "close") \/ Got(c, "closing", "exited")
    BY <2>2 DEF Got, Shown
  <2>3. ASSUME NEW here, Moved(c, here, C!Thrown(here))
        PROVE  Shown(c)
    BY <1>4, <2>3 DEF C!Thrown
  <2>4. QED
    BY <1>7, <2>1, <2>2, <2>3, AloneOn
<1>8. CASE ResetArrives(c) \/ LinkBreaks(c)
  BY <1>8, ResetOn DEF Shown
<1>9. QED
  BY <1>1, <1>2, <1>3, <1>5, <1>6, <1>7, <1>8, SystemKinds DEF OwnStep, ClientStep

\* When c asks, it has no answer, and its thread is in no request.
LEMMA AskSees ==
  ASSUME TypeOK, ClientTypeOK, NEW c \in Conn, Asks(c), StaysInStep(c), [SystemNext]_systemVars
  PROVE  SeesBefore(c)'
<1> USE AwaitValues
<1>1. /\ Wrote(c, "request", "reply")
      /\ before'[c] = {d \in Conn : Mode[d] = "data" /\ at[d] = "exited"}
  BY WriteOn
<1>2. /\ at[c] = "request" /\ at'[c] = "reply" /\ inbox'[c] = "none" /\ Mode[c] = "statistics"
      /\ pc[c] \notin StatPc
  BY <1>1 DEF Wrote, Moved, StaysInStep
<1>3. pc'[c] = pc[c]
  BY OwnLeavesServer DEF threadVars, OwnStep, ClientStep
<1>4. \A d \in before'[c] : Mode[d] = "data" /\ at'[d] = "exited"
  BY <1>1, OverStays
<1>5. QED
  BY <1>2, <1>3, <1>4 DEF SeesBefore

LEMMA SeesBeforeStep ==
  ASSUME TypeOK, ClientTypeOK, Connected, Readings, Requests, Acknowledged, InStep, Lawful,
         NEW c \in Conn, SeesBefore(c), before'[c] = before[c], [SystemNext]_systemVars
  PROVE  SeesBefore(c)'
<1> USE AwaitValues
<1>1. [Next]_vars /\ RequestOK(c) /\ StaysInStep(c)
  BY SystemSteps DEF Requests, InStep
<1>2. \A d \in before[c] : d \in Conn /\ Mode[d] = "data" /\ at[d] = "exited"
  BY DEF SeesBefore, ClientTypeOK
<1>3. \A d \in before'[c] : Mode[d] = "data" /\ at'[d] = "exited"
  BY <1>2, OverStays
<1>4. Len(origin) = Len(packets) /\ Len(packets) \in Nat
  BY DEF Readings, Attribution, TypeOK, DatabaseTypeOK
<1>5. ASSUME NEW n \in 0..Len(packets), Holds(c, n)
      PROVE  Holds(c, n)'
  BY <1>1, <1>2, <1>4, <1>5, HoldsStays
<1>6. ASSUME pc'[c] \in StatPc
      PROVE  Holds(c, job[c].base)'
  <2>1. PICK n \in 0..Len(packets) : Holds(c, n) /\ n = job'[c].base
    <3>1. CASE pc[c] \in StatPc /\ job'[c].base = job[c].base
      BY <1>1, <3>1, JobBases DEF SeesBefore
    <3>2. CASE JobAsks(c)
      <4>1. job'[c].base = Len(packets)
        BY <3>2 DEF JobAsks, TypeOK, ThreadTypeOK, Job
      <4>2. QED
        BY <1>2, <1>4, <4>1, AllHeld
    <3>3. QED
      BY <1>1, <1>6, <3>1, <3>2, RequestOn
  <2>2. Holds(c, n)'
    BY <1>5, <2>1
  <2>3. QED
    BY <2>1, <2>2 DEF Holds
<1>7. ASSUME Shown(c)'
      PROVE  Holds(c, reply[c].base)'
  <2>1. PICK n \in 0..Len(packets) : Holds(c, n) /\ n = reply'[c].base
    <3>1. CASE JobReplies(c)
      <4>1. pc[c] \in StatPc /\ reply'[c].base = job[c].base
        BY <3>1 DEF JobReplies, StatPc
      <4>2. QED
        BY <1>1, <4>1, JobBases DEF SeesBefore
    <3>2. CASE ~JobReplies(c)
      <4>1. reply'[c] = reply[c] /\ (Shown(c) \/ Mode[c] = "data")
        BY <1>1, <1>7, <3>2, RequestOn, ShownOn
      <4>2. Holds(c, reply[c].base)
        BY <4>1 DEF Shown, SeesBefore, Holds
      <4>3. QED
        BY <1>1, <4>1, <4>2, JobBases
    <3>3. QED
      BY <3>1, <3>2
  <2>2. Holds(c, n)'
    BY <1>5, <2>1
  <2>3. QED
    BY <2>1, <2>2 DEF Holds
<1>8. Mode[c] = "data" => before'[c] = {}
  BY DEF SeesBefore
<1>9. QED
  BY <1>3, <1>6, <1>7, <1>8 DEF SeesBefore, Shown

LEMMA SeesStep ==
  ASSUME TypeOK, ClientTypeOK, Cursor, Connected, Readings, Requests, Acknowledged, InStep, Lawful,
         Sees, [SystemNext]_systemVars
  PROVE  Sees'
<1>1. StoredExactly'
  BY SystemSteps, StoredExactlyStep DEF Sees
<1>2. ASSUME NEW c \in Conn
      PROVE  SeesBefore(c)'
  <2>1. CASE Asks(c)
    BY <2>1, AskSees DEF InStep
  <2>2. CASE ~Asks(c)
    <3>1. before'[c] = before[c]
      <4>1. CASE ServerStep \/ UNCHANGED systemVars
        BY <4>1, ServerKeeps DEF systemVars
      <4>2. ASSUME NEW d \in Conn, OwnStep(d), d # c
            PROVE  before'[c] = before[c]
        BY <4>2, OwnLeavesOthers
      <4>3. CASE OwnStep(c)
        BY <2>2, <4>3, DialOn, WriteOn, AloneOn, DiesOn, ResetOn DEF OwnStep, ClientStep
      <4>4. QED
        BY <4>1, <4>2, <4>3, SystemKinds
    <3>2. QED
      BY <3>1, SeesBeforeStep DEF Sees
  <2>3. QED
    BY <2>1, <2>2
<1>3. QED
  BY <1>1, <1>2 DEF Sees

LEMMA InitSees == SystemInit => Sees
<1> SUFFICES ASSUME SystemInit
             PROVE  Sees
  OBVIOUS
<1>1. StoredExactly
  BY DEF SystemInit, Init, DatabaseInit, StoredExactly
<1>2. ASSUME NEW c \in Conn
      PROVE  SeesBefore(c)
  BY DEF SystemInit, Init, C!Init, SeesBefore, StatPc
<1>3. QED
  BY <1>1, <1>2 DEF Sees

\* The inductive invariant of the whole system, for any number of clients.
THEOREM SystemInvCorrect == SystemSpec => []SystemInv
<1>1. TypeOK /\ ClientTypeOK /\ Cursor /\ Connected /\ Readings /\ Requests /\ Acknowledged
        /\ InStep /\ Lawful /\ Sees /\ [SystemNext]_systemVars => Sees'
  BY SeesStep
<1>2. SystemSpec => []Sees
  BY <1>1, InitSees, InStepCorrect, LawfulCorrect, AcknowledgedCorrect, SystemImplementsServer,
     TypeCorrect, ReadingsCorrect, RequestsCorrect, PTL DEF SystemSpec
<1>3. Acknowledged /\ InStep /\ Lawful /\ Sees => SystemInv
  BY DEF SystemInv
<1>4. QED
  BY <1>2, <1>3, InStepCorrect, LawfulCorrect, AcknowledgedCorrect, PTL

\* The readings of d that are in the window of a reply r.
RecentSent(d, r) == {k \in DOMAIN sent[d] : sent[d][k].timestamp >= r.at - Interval2}

\* Each of them is a row of its own, which the scan of d's rows counts.
LEMMA RecentCounted ==
  ASSUME TypeOK, Cursor, Readings, StoredExactly, \A e \in Conn : OwnPackets(e), NEW d \in Conn,
         Mode[d] = "data", NEW r, r.at \in Int, NEW base \in Nat, NEW n \in 0..Len(packets), base <= n,
         \A k \in DOMAIN sent[d] : \E i \in 1..base : origin[i] = <<d, k>>,
         NEW id, id \in DOMAIN clients, clients[id] = CStr[UuidOf[d]]
  PROVE  /\ IsFiniteSet(RecentSent(d, r))
         /\ Cardinality(RecentSent(d, r)) <= Cardinality(RecentOf(id, r.at - Interval2, n))
<1> DEFINE R == RecentSent(d, r)
           Scanned == RecentOf(id, r.at - Interval2, n)
           f == [k \in R |-> CHOOSE i \in 1..base : origin[i] = <<d, k>>]
<1>1. \A k \in R : f[k] \in 1..base /\ origin[f[k]] = <<d, k>>
  BY DEF RecentSent
<1>2. /\ Len(packets) \in Nat /\ DOMAIN packets = 1..Len(packets) /\ r.at - Interval2 \in Int
      /\ 1..base \subseteq 1..n /\ 1..n \subseteq DOMAIN packets
  BY IntervalAssumption DEF TypeOK, DatabaseTypeOK
<1>3. ASSUME NEW k \in R
      PROVE  f[k] \in Scanned
  <2>1. k \in DOMAIN sent[d] /\ sent[d][k].timestamp >= r.at - Interval2
    BY DEF RecentSent
  <2>2. f[k] \in 1..n /\ f[k] \in DOMAIN packets /\ origin[f[k]] = <<d, k>>
    BY <1>1, <1>2
  <2>3. packets[f[k]].timestamp = sent[d][k].timestamp
    BY <2>2 DEF StoredExactly
  <2>4. sent[d][k].uuid = UuidOf[d]
    BY <2>1 DEF OwnPackets, OwnReadings
  <2>5. /\ packets[f[k]].client_id \in DOMAIN clients
        /\ clients[packets[f[k]].client_id] = CStr[UuidOf[d]]
    BY <2>2, <2>4 DEF Readings, Attribution
  <2>6. packets[f[k]].client_id = id
    BY <2>5 DEF Readings, UniqueClients
  <2>7. QED
    BY <2>1, <2>2, <2>3, <2>6 DEF RecentOf
<1>4. IsFiniteSet(Scanned)
  BY <1>2, ClientRowsCount DEF TypeOK
<1>5. ASSUME NEW k \in R, NEW l \in R, f[k] = f[l]
      PROVE  k = l
  <2>1. origin[f[k]] = <<d, k>> /\ origin[f[l]] = <<d, l>>
    BY <1>1
  <2> HIDE DEF f, R
  <2>2. <<d, k>> = <<d, l>>
    BY <1>5, <2>1
  <2>3. QED
    BY <2>2
<1>6. f \in Injection(R, Scanned)
  <2> HIDE DEF Scanned, R
  <2>1. f \in [R -> Scanned]
    BY <1>3
  <2> HIDE DEF f
  <2>2. QED
    BY <1>5, <2>1 DEF Injection, IsInjective
<1>7. QED
  <2> HIDE DEF f, Scanned, R
  <2>1. IsFiniteSet(R) /\ Cardinality(R) <= Cardinality(Scanned)
    BY <1>4, <1>6, FS_Injection DEF ExistsInjection
  <2>2. QED
    BY <2>1 DEF R, Scanned

\* The entry of a client that had exited before c asked.
LEMMA ExitedReported ==
  ASSUME TypeOK, ClientTypeOK, Cursor, Readings, StoredExactly, \A e \in Conn : OwnPackets(e),
         NEW c \in Conn, ReplyOK(reply[c]), ~reply[c].cut, Holds(c, reply[c].base),
         NEW d \in before[c], Mode[d] = "data", RecentSent(d, reply[c]) # {}
  PROVE  \E e \in Statistics(reply[c]) :
           e.uuid = CStr[UuidOf[d]] /\ e.x5[2] >= Cardinality(RecentSent(d, reply[c]))
<1> DEFINE r == reply[c]
           from == r.at - Interval2
<1>1. /\ d \in Conn /\ Len(packets) \in Nat /\ DOMAIN packets = 1..Len(packets)
      /\ r.base \in Nat /\ r.at \in Int /\ from \in Int /\ r.base <= Len(packets)
      /\ r.scans \in SUBSET Scan
  BY IntervalAssumption DEF ClientTypeOK, TypeOK, ThreadTypeOK, DatabaseTypeOK, Reply, ReplyOK
<1>2. PICK k \in DOMAIN sent[d] : sent[d][k].timestamp >= from
  BY DEF RecentSent
<1>3. PICK i \in 1..r.base : origin[i] = <<d, k>>
  BY DEF Holds
<1> DEFINE id == packets[i].client_id
<1>4. i \in DOMAIN packets
  BY <1>1
<1>5. packets[i].timestamp >= from
  BY <1>2, <1>3, <1>4 DEF StoredExactly
<1>6. id \in DOMAIN clients /\ clients[id] = CStr[UuidOf[d]]
  <2>1. sent[d][k].uuid = UuidOf[d]
    BY <1>1 DEF OwnPackets, OwnReadings
  <2>2. QED
    BY <1>3, <1>4, <2>1 DEF Readings, Attribution
<1>7. PICK s \in r.scans : s.id = id
  BY DEF ReplyOK
<1>8. s.upTo \in 0..Len(packets) /\ r.base <= s.upTo /\ i \in 1..s.upTo
  BY <1>1, <1>7 DEF ReplyOK, SoundScans, Scan
<1> DEFINE rows == ClientRows(s.id, s.upTo)
           w == Window(rows, from)
           e == Entry(clients[s.id], rows, r.at)
<1>9. Reported(rows, r.at)
  BY <1>1, <1>5, <1>7, <1>8, ScanReports DEF TypeOK
<1>10. e \in Statistics(r)
  BY <1>7, <1>9 DEF Statistics
<1>11. IsFiniteSet(RecentOf(s.id, from, s.upTo)) /\ w.countX = Cardinality(RecentOf(s.id, from, s.upTo))
  BY <1>1, <1>8, ClientRowsCount DEF TypeOK
<1>12. /\ IsFiniteSet(RecentSent(d, r))
       /\ Cardinality(RecentSent(d, r)) <= Cardinality(RecentOf(s.id, from, s.upTo))
  <2>1. \A l \in DOMAIN sent[d] : \E j \in 1..r.base : origin[j] = <<d, l>>
    BY DEF Holds
  <2>2. QED
    BY <1>1, <1>6, <1>7, <1>8, <2>1, RecentCounted
<1>13. Cardinality(RecentSent(d, r)) \in Nat /\ Cardinality(RecentSent(d, r)) # 0
  BY <1>12, FS_CardinalityType, FS_EmptySet
<1>14. w.countX \in Nat /\ w.countX >= Cardinality(RecentSent(d, r)) /\ w.countX > 0
  BY <1>11, <1>12, <1>13, FS_CardinalityType
<1>15. e.uuid = CStr[UuidOf[d]] /\ e.x5[2] = w.countX
  <2>1. e.uuid = clients[s.id] /\ e.x5 = Average(w)
    BY DEF Entry
  <2> HIDE DEF e, w
  <2>2. Average(w)[2] = w.countX
    BY <1>14 DEF Average
  <2>3. QED
    BY <1>6, <1>7, <2>1, <2>2
<1>16. QED
  <2> HIDE DEF e, w
  <2>1. QED
    BY <1>10, <1>14, <1>15

\* The statistics that a client prints count every recent reading of each
\* client that had exited without an error when they were asked for: what the
\* close handshake acknowledged, no request that comes after it misses.
THEOREM StatisticsSeeExitedCorrect == SystemSpec => []StatisticsSeeExited
<1>1. TypeOK /\ ClientTypeOK /\ Cursor /\ Readings /\ Requests /\ SystemInv => StatisticsSeeExited
  <2> SUFFICES ASSUME TypeOK, ClientTypeOK, Cursor, Readings, Requests, SystemInv, NEW c \in Conn,
                      at[c] \in {"close", "closing", "exited"}, ~reply[c].cut,
                      NEW d \in before[c], RecentSent(d, reply[c]) # {}
               PROVE  \E e \in Statistics(reply[c]) :
                        e.uuid = CStr[UuidOf[d]] /\ e.x5[2] >= Cardinality(RecentSent(d, reply[c]))
    BY DEF StatisticsSeeExited, RecentSent
  <2>1. Holds(c, reply[c].base) /\ Mode[d] = "data" /\ StoredExactly
    BY DEF SystemInv, Sees, SeesBefore
  <2>2. ReplyOK(reply[c]) /\ \A e \in Conn : OwnPackets(e)
    BY DEF Requests, RequestOK, SystemInv, Lawful
  <2>3. QED
    BY <2>1, <2>2, ExitedReported
<1>2. QED
  BY <1>1, SystemInvCorrect, AcknowledgedCorrect, SystemImplementsServer, TypeCorrect,
     ReadingsCorrect, RequestsCorrect, PTL

=============================================================================
