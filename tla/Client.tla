------------------------------- MODULE Client -------------------------------
(***************************************************************************)
(* The client processes (Client/Client.cpp, Client/main.cpp), each on its  *)
(* own connection: one that sends readings until SIGINT, or one that asks  *)
(* for the statistics and ends.  The server is the environment: it answers *)
(* what a client waits for, and it hangs up.                               *)
(***************************************************************************)
CONSTANTS
  Conn,   \* the connections, and the clients that open them
  Mode    \* "data", or "statistics" for a client started with --statistic

VARIABLES
  at,            \* where a client's main thread is
  interrupted,   \* m_needExit
  inbox,         \* the answer that has arrived, "none" before
  eof            \* "fin": the server closed its end; "reset": the connection is gone

clientVars == <<at, interrupted, inbox, eof>>

\* The answer that each blocking read of a client waits for.
Await == [handshake |-> "upgraded", reply |-> "statistics", closing |-> "close"]

Answer == {"upgraded", "statistics", "close"}

Writing == {"upgrade", "body", "request", "close"}
Over == {"exited", "failed", "aborted", "killed"}
ClientPc == {"off"} \cup Writing \cup DOMAIN Await \cup Over

Init ==
  /\ at = [c \in Conn |-> "off"] /\ interrupted = [c \in Conn |-> FALSE]
  /\ inbox = [c \in Conn |-> "none"] /\ eof = [c \in Conn |-> "none"]

To(c, here, next) == at[c] = here /\ at' = [at EXCEPT ![c] = next]

\* A step that changes nothing but where the client is.
Goes(c, here, next) == To(c, here, next) /\ UNCHANGED <<interrupted, inbox, eof>>

\* A write that the connection takes, whether or not the server still reads it.
Writes(c, here, next) == Goes(c, here, next) /\ eof[c] # "reset"

\* A read that returns the answer the client waits for.
Reads(c, here, next) ==
  /\ To(c, here, next) /\ inbox[c] = Await[here]
  /\ inbox' = [inbox EXCEPT ![c] = "none"]
  /\ UNCHANGED <<interrupted, eof>>
-----------------------------------------------------------------------------
(* The constructor: connect(). *)

Dial(c) == Goes(c, "off", "upgrade")

DialFails(c) == Goes(c, "off", "failed")

\* handshake writes the upgrade request, then reads the answer.
Upgrade(c) == Writes(c, "upgrade", "handshake")

Upgraded(c) == Reads(c, "handshake", IF Mode[c] = "data" THEN "body" ELSE "request")

(* start(): one step per turn of the loop.  An interrupt between its write and *)
(* its test of m_needExit is one before a next turn in which no reading is due. *)

AfterTurn(c) == IF interrupted[c] THEN "close" ELSE "body"

Send(c) == Writes(c, "body", AfterTurn(c))

\* Faulty: the loop does not look at m_needExit.
NotDueNever(c) == Goes(c, "body", "body")

NotDue(c) == Goes(c, "body", AfterTurn(c))

\* The first SIGINT while the handler of start() is installed: stop().
Interrupt(c) ==
  /\ Mode[c] = "data" /\ at[c] = "body" /\ ~interrupted[c]
  /\ interrupted' = [interrupted EXCEPT ![c] = TRUE]
  /\ UNCHANGED <<at, inbox, eof>>

(* getStatistics() *)

\* Faulty: getStatistics does not read the answer.
RequestUnread(c) == Writes(c, "request", "close")

Request(c) == Writes(c, "request", "reply")

GetReply(c) == Reads(c, "reply", "close")

(* The destructor: disconnect() sends a close frame and reads until the server's. *)

Close(c) == Writes(c, "close", "closing")

Closed(c) == Reads(c, "closing", "exited")

\* Where an exception leads: the destructor must not throw, so disconnect()
\* ends in std::terminate.  Elsewhere main prints the error, and the stream is
\* no longer open when the destructor runs.
Thrown(here) == IF here \in {"close", "closing"} THEN "aborted" ELSE "failed"

\* Faulty: start() ignores that a write failed and goes on.
WriteFailsIgnored(c) ==
  /\ eof[c] = "reset"
  /\ \E here \in Writing : Goes(c, here, IF here = "body" THEN AfterTurn(c) ELSE Thrown(here))

WriteFails(c) ==
  /\ eof[c] = "reset"
  /\ \E here \in Writing : Goes(c, here, Thrown(here))

\* The end of the stream comes after what the server wrote; a reset overtakes it.
ReadFails(c) ==
  /\ eof[c] = "reset" \/ (eof[c] = "fin" /\ inbox[c] = "none")
  /\ \E here \in DOMAIN Await : Goes(c, here, Thrown(here))

\* A SIGINT without a handler, or a second one (the Windows runtime resets it),
\* or any other death of the process.
Kill(c) == \E here \in ClientPc \ (Over \cup {"off"}) : Goes(c, here, "killed")
-----------------------------------------------------------------------------
(* The environment. *)

\* A step of the server sends an answer to the clients in S, whom it reaches
\* while their connection is there, and ends the connections in T.
Serve(S, answer, T) ==
  /\ inbox' = [c \in Conn |-> IF c \in S /\ at[c] \notin Over /\ eof[c] # "reset"
                              THEN answer ELSE inbox[c]]
  /\ eof' = [c \in Conn |-> IF c \in T /\ eof[c] = "none" THEN "fin" ELSE eof[c]]
  /\ UNCHANGED <<at, interrupted>>

\* The client learns that nobody takes what it writes.
Reset(c) ==
  /\ at[c] \notin Over \cup {"off"} /\ eof[c] # "reset"
  /\ eof' = [eof EXCEPT ![c] = "reset"]
  /\ UNCHANGED <<at, interrupted, inbox>>

\* The steps of a client that its connection does not take part in.
Alone(c) ==
  \/ Upgraded(c) \/ NotDue(c) \/ Interrupt(c)
  \/ GetReply(c) \/ Closed(c) \/ WriteFails(c) \/ ReadFails(c)

Next ==
  \/ \E c \in Conn :
       \/ Dial(c) \/ DialFails(c) \/ Upgrade(c) \/ Send(c) \/ Request(c) \/ Close(c)
       \/ Alone(c) \/ Kill(c) \/ Reset(c)
  \/ \E S, T \in SUBSET Conn, answer \in Answer : Serve(S, answer, T)

Spec == Init /\ [][Next]_clientVars
=============================================================================
