--------------------------------- MODULE TZ ---------------------------------
(***************************************************************************)
(* The whole system: the server with the clients of Client as its peers.   *)
(* A client's write is the peer's step in Server; a step of the server     *)
(* answers a client or hangs up in Client.  What a client writes after     *)
(* its connection's thread has ended is lost, and nobody tells it at once. *)
(***************************************************************************)
EXTENDS ServerInvariant

CONSTANTS
  Mode,      \* what each client does: "data" or "statistics"
  UuidOf,    \* the random uuid of each client
  Fragile    \* the clients whose link may break

ASSUME ModeAssumption == Mode \in [Conn -> {"data", "statistics"}]

\* Textual uuids hold no NUL, and random ones differ.
ASSUME UuidAssumption ==
  /\ UuidOf \in [Conn -> Uuid] /\ Fragile \subseteq Conn
  /\ \A c, d \in Conn : CStr[UuidOf[c]] = CStr[UuidOf[d]] => c = d

VARIABLES
  at, interrupted, inbox, eof,   \* of Client
  lost,      \* whether something a client wrote reached no thread
  before     \* history: the clients that had exited when c asked for the statistics

C == INSTANCE Client

systemVars == <<vars, at, interrupted, inbox, eof, lost, before>>

ClientTypeOK ==
  /\ at \in [Conn -> C!ClientPc] /\ interrupted \in [Conn -> BOOLEAN]
  /\ inbox \in [Conn -> {"none"} \cup C!Answer]
  /\ eof \in [Conn -> {"none", "fin", "reset"}]
  /\ lost \in [Conn -> BOOLEAN] /\ before \in [Conn -> SUBSET Conn]

SystemInit ==
  /\ Init /\ C!Init
  /\ lost = [c \in Conn |-> FALSE] /\ before = [c \in Conn |-> {}]
-----------------------------------------------------------------------------
(* The server's steps, and what the clients see of them. *)

\* The connections whose socket the step closes.
HungUp == {c \in Conn : pc[c] # "done" /\ pc'[c] = "done"}

\* A step of the server that answers nobody.
Unanswered == C!Serve({}, "close", HungUp) /\ UNCHANGED <<lost, before>>

MainServes == MainStep /\ Unanswered

MainMishap == (Boot \/ MainFails \/ Interrupt \/ Crash) /\ Unanswered

\* ws.accept answers the upgrade request, ws.write sends the statistics, and
\* ws.read answers a close frame before it throws.
Replies(c, answer) ==
  \/ answer = "upgraded" /\ pc[c] = "handshake" /\ pc'[c] = "check"
  \/ answer = "statistics" /\ pc[c] = "packets" /\ pc'[c] = "check"
  \/ answer = "close" /\ pc[c] = "read" /\ pc'[c] = "done" /\ peer[c] = "closed"

ThreadServes(c) ==
  /\ ThreadStep(c)
  /\ \/ \E answer \in C!Answer : Replies(c, answer) /\ C!Serve({c}, answer, HungUp)
     \/ (~ \E answer \in C!Answer : Replies(c, answer)) /\ C!Serve({}, "close", HungUp)
  /\ UNCHANGED <<lost, before>>

ThreadMishap(c) == SqlError(c) /\ Unanswered
-----------------------------------------------------------------------------
(* The clients' steps, and what the server sees of them. *)

Live(c) == pc[c] # "done" /\ peer[c] \in {"dialed", "open"}

\* A write reaches the connection's thread (or the backlog), or is lost.
ToServer(c, A) ==
  IF Live(c) THEN A /\ UNCHANGED lost
  ELSE lost' = [lost EXCEPT ![c] = TRUE] /\ UNCHANGED vars

OwnReadings(c) == {p \in Packet : IsReading(p) /\ p.uuid = UuidOf[c] /\ ~NotNullViolated(p)}

Dials(c) ==
  \/ C!Dial(c) /\ PeerConnect(c) /\ UNCHANGED <<lost, before>>
  \/ main \notin Listening /\ C!DialFails(c) /\ UNCHANGED <<vars, lost, before>>

Upgrades(c) == C!Upgrade(c) /\ ToServer(c, PeerUpgrade(c)) /\ UNCHANGED before

SendsReading(c) ==
  /\ C!Send(c)
  /\ ToServer(c, \E p \in OwnReadings(c) : PeerSend(c, p))
  /\ UNCHANGED before

Asks(c) ==
  /\ C!Request(c)
  /\ ToServer(c, \E p \in Packet : p.type = "STATISTICS" /\ PeerSend(c, p))
  /\ before' = [before EXCEPT ![c] = {d \in Conn : Mode[d] = "data" /\ at[d] = "exited"}]

Closes(c) == C!Close(c) /\ ToServer(c, PeerLeave(c, "closed")) /\ UNCHANGED before

\* The operating system closes or resets the connection of a dead process.
Dies(c) ==
  /\ C!Kill(c)
  /\ (\E how \in {"closed", "reset"} : PeerLeave(c, how)) \/ (~Live(c) /\ UNCHANGED vars)
  /\ UNCHANGED <<lost, before>>

Alone(c) == C!Alone(c) /\ UNCHANGED <<vars, lost, before>>

\* A closed socket answers what was written to it, or was left unread, with a
\* reset, and so may the operating system of a process that died.
ResetArrives(c) ==
  /\ eof[c] = "fin" /\ (lost[c] \/ rd[c] < Len(sent[c]) \/ peer[c] = "reset")
  /\ C!Reset(c) /\ UNCHANGED <<vars, lost, before>>

\* Either end may notice long before the other, or alone.
LinkBreaks(c) ==
  /\ c \in Fragile
  /\ \/ C!Reset(c) /\ UNCHANGED vars
     \/ PeerLeave(c, "reset") /\ UNCHANGED <<at, interrupted, inbox, eof>>
  /\ UNCHANGED <<lost, before>>
-----------------------------------------------------------------------------
ClientStep(c) ==
  \/ Dials(c) \/ Upgrades(c) \/ SendsReading(c) \/ Asks(c) \/ Closes(c) \/ Alone(c)

\* Nothing is left to happen within the bounds.
AllOver ==
  /\ main \notin Running /\ runs = MaxRuns /\ \A c \in Conn : at[c] \in C!Over
  /\ UNCHANGED systemVars

SystemNext ==
  \/ MainServes \/ MainMishap \/ AllOver
  \/ \E c \in Conn :
       \/ ThreadServes(c) \/ ThreadMishap(c)
       \/ ClientStep(c) \/ Dies(c) \/ ResetArrives(c) \/ LinkBreaks(c)

SystemSpec == SystemInit /\ [][SystemNext]_systemVars

\* A client's thread runs, too, and its next reading becomes due at some time.
Interrupts(c) == C!Interrupt(c) /\ UNCHANGED <<vars, lost, before>>
Works(c) == (ClientStep(c) /\ ~Interrupts(c)) \/ ResetArrives(c)

SystemFairness ==
  /\ WF_systemVars(MainServes)
  /\ \A c \in Conn : WF_systemVars(ThreadServes(c)) /\ WF_systemVars(Works(c))

FairSystemSpec == SystemSpec /\ SystemFairness
-----------------------------------------------------------------------------
(* Safety *)

\* Client and server never get out of step: what arrives is the answer that
\* the client waits for at that moment.
RightAnswer ==
  \A c \in Conn : inbox[c] # "none" /\ at[c] \notin C!Over =>
    at[c] \in DOMAIN C!Await /\ inbox[c] = C!Await[at[c]]

AllStored(c) ==
  \A k \in DOMAIN sent[c] : IsReading(sent[c][k]) =>
    \E i \in DOMAIN origin : origin[i] = <<c, k>>

\* What a client that ended without an error wrote is all in the database: the
\* close frame it waited for acknowledges every reading before it, although no
\* reading has an acknowledgement of its own.
ExitedIsStored ==
  \A c \in Conn : at[c] = "exited" => ~lost[c] /\ AllStored(c)

\* The statistics that a client prints count all recent readings of every client
\* that had ended without an error when they were asked for, unless a failing
\* step of the server hid rows.
StatisticsSeeExited ==
  \A c \in Conn : at[c] \in {"close", "closing", "exited"} /\ ~reply[c].cut =>
    \A d \in before[c] :
      LET recent == {k \in DOMAIN sent[d] : sent[d][k].timestamp >= reply[c].at - Interval2}
      IN  recent # {} => \E e \in Statistics(reply[c]) :
                           e.uuid = CStr[UuidOf[d]] /\ e.x5[2] >= Cardinality(recent)

\* A client whose link holds fails, or aborts in its destructor, only if the
\* server was stopped or ended, or a call of it failed: no interleaving of the
\* clients alone makes the server drop one.
FailureHasCause ==
  \A c \in Conn \ Fragile : at[c] \in {"failed", "aborted"} /\ peer[c] # "none" =>
    needExit \/ main \in Ended \/ runs > 1 \/ faults > 0
-----------------------------------------------------------------------------
(* Liveness, under FairSystemSpec *)

\* The bound stops a data client that the code lets go on.
Exhausted == \E c \in Conn : Mode[c] = "data" /\ Len(sent[c]) = MaxSent

\* stop() ends a server whose peers are these clients: each data client sends
\* again, or goes, and so lets its thread see m_needExit.
ClientsLetServerStop == needExit /\ ~Exhausted ~> main \in Ended

\* No client waits for ever: the upgrade, the statistics and the close frame
\* come, or the server hangs up, also when it stops meanwhile.
AnswersCome ==
  \A c \in Conn :
    at[c] \in DOMAIN C!Await ~> at[c] \notin DOMAIN C!Await \/ (needExit /\ Exhausted)

\* A client that is interrupted, or that nobody reads any more, comes to an end,
\* though its next write may still seem to succeed.
ClientEnds ==
  \A c \in Conn : interrupted[c] \/ pc[c] = "done" ~> at[c] \in C!Over
=============================================================================
