------------------------------- MODULE Service ------------------------------
(***************************************************************************)
(* What TZ promises its users, who see clients and no server: readings are *)
(* stored in the order they are written, statistics report what is stored, *)
(* and an end without an error means that the client's work is done.       *)
(***************************************************************************)
EXTENDS Statistics

CONSTANTS
  Conn,      \* the clients
  Mode,      \* "data" or "statistics"
  Reading,   \* Reading[c] = the readings that c may take
  Name,      \* Name[c] = the name under which the statistics report c
  Fragile,   \* the clients that may lose their connection at any time
  Time       \* the moments that statistics may be made for

VARIABLES
  phase,     \* how far a client is
  sent,      \* the readings a client wrote, but for those that were lost
  lost,      \* whether one was lost
  stored,    \* how many of them are stored
  asked,     \* asked[c][d] = how many of d's were stored when c asked
  told,      \* the statistics that a client was given
  failure,   \* a call of the server failed
  trouble    \* one did, or the server was stopped, or ended

vars == <<phase, sent, lost, stored, asked, told, failure, trouble>>

\* The first n readings of c, as they are stored.
Prefix(c, n) ==
  [k \in 1..n |->
     [timestamp |-> sent[c][k].timestamp, x |-> sent[c][k].x, y |-> sent[c][k].y]]

\* The statistics, at a time, of the first upTo[d] readings of each client d.
Report(upTo, now) ==
  {Entry(Name[d], Prefix(d, upTo[d]), now) :
     d \in {e \in Conn : Reported(Prefix(e, upTo[e]), now)}}

\* How many readings of each client are stored, or were at an earlier moment.
Marks == {upTo \in [Conn -> UNION {0..stored[d] : d \in Conn}] :
            \A d \in Conn : upTo[d] <= stored[d]}

\* What may keep a client from its goal.
Hindered(c) == c \in Fragile \/ trouble

Init ==
  /\ phase = [c \in Conn |-> "off"]
  /\ sent = [c \in Conn |-> <<>>] /\ lost = [c \in Conn |-> FALSE]
  /\ stored = [c \in Conn |-> 0] /\ asked = [c \in Conn |-> [d \in Conn |-> 0]]
  /\ told = [c \in Conn |-> {}]
  /\ failure = FALSE /\ trouble = FALSE

Moves(c, here, next) == phase[c] = here /\ phase' = [phase EXCEPT ![c] = next]

OnlyPhase == UNCHANGED <<sent, lost, stored, asked, told, failure, trouble>>
-----------------------------------------------------------------------------
Start(c) == Moves(c, "off", "working") /\ OnlyPhase

\* There is no server.
Refused(c) == Moves(c, "off", "failed") /\ OnlyPhase

\* Nothing is written after a reading that was lost, so no gap is ever stored.
Write(c) ==
  /\ Mode[c] = "data" /\ phase[c] = "working" /\ ~lost[c]
  /\ \E r \in Reading[c] : sent' = [sent EXCEPT ![c] = Append(@, r)]
  /\ UNCHANGED <<phase, lost, stored, asked, told, failure, trouble>>

Lose(c) ==
  /\ Mode[c] = "data" /\ phase[c] = "working" /\ Hindered(c)
  /\ lost' = [lost EXCEPT ![c] = TRUE]
  /\ UNCHANGED <<phase, sent, stored, asked, told, failure, trouble>>

\* The client that wrote the reading may have failed, or died, since.
Store(c) ==
  /\ stored[c] < Len(sent[c])
  /\ stored' = [stored EXCEPT ![c] = @ + 1]
  /\ UNCHANGED <<phase, sent, lost, asked, told, failure, trouble>>

Ask(c) ==
  /\ Mode[c] = "statistics" /\ Moves(c, "working", "asking")
  /\ asked' = [asked EXCEPT ![c] = stored]
  /\ UNCHANGED <<sent, lost, stored, told, failure, trouble>>

\* Of each client the statistics report all that was stored at some moment
\* since they were asked for, unless a call failed; it need not be the same
\* moment for two of them.
Tell(c) ==
  /\ Moves(c, "asking", "told")
  /\ \E upTo \in Marks, now \in Time :
       /\ failure \/ \A d \in Conn : asked[c][d] <= upTo[d]
       /\ told' = [told EXCEPT ![c] = Report(upTo, now)]
  /\ UNCHANGED <<sent, lost, stored, asked, failure, trouble>>

\* An end without an error: all that a client wrote is stored, or it has the
\* statistics it asked for.
Finish(c) ==
  /\ \/ Mode[c] = "data" /\ Moves(c, "working", "exited") /\ ~lost[c] /\ stored[c] = Len(sent[c])
     \/ Moves(c, "told", "exited")
  /\ OnlyPhase

Underway == {"working", "asking", "told"}

Fail(c) == Hindered(c) /\ (\E here \in Underway : Moves(c, here, "failed")) /\ OnlyPhase

Kill(c) == (\E here \in Underway : Moves(c, here, "killed")) /\ OnlyPhase

\* The server is stopped or ends, or a call of it fails.
Disturb ==
  /\ failure' \in BOOLEAN /\ trouble' \in BOOLEAN
  /\ (failure => failure') /\ (trouble => trouble')
  /\ UNCHANGED <<phase, sent, lost, stored, asked, told>>

Next ==
  \/ Disturb
  \/ \E c \in Conn :
       \/ Start(c) \/ Refused(c) \/ Write(c) \/ Lose(c) \/ Store(c) \/ Ask(c) \/ Tell(c)
       \/ Finish(c) \/ Fail(c) \/ Kill(c)

Spec == Init /\ [][Next]_vars
=============================================================================
