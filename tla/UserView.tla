------------------------------ MODULE UserView ------------------------------
(***************************************************************************)
(* What the users of the system see of it.  Two history variables record   *)
(* what is gone when it is needed: what was stored when a client asked,    *)
(* and the statistics that it was told.                                    *)
(***************************************************************************)
EXTENDS SystemInvariant

VARIABLES
  seen,   \* history: how many rows there were when c asked for the statistics
  told    \* history: the statistics that getStatistics of c returned

viewVars == <<systemVars, seen, told>>

ViewInit == SystemInit /\ seen = [c \in Conn |-> 0] /\ told = [c \in Conn |-> {}]

Passes(c, here, next) == at[c] = here /\ at'[c] = next

\* What a step leaves in the history.
Records ==
  /\ seen' = [c \in Conn |-> IF Passes(c, "request", "reply") THEN Len(packets) ELSE seen[c]]
  /\ told' = [c \in Conn |-> IF Passes(c, "reply", "close") THEN Statistics(reply[c]) ELSE told[c]]

ViewNext == SystemNext /\ Records

ViewSpec == ViewInit /\ [][ViewNext]_viewVars
-----------------------------------------------------------------------------
\* How many of the first n rows are readings of d.
RowsOf(d, n) == {i \in 1..n : origin[i][1] = d}
Count(d, n) == Cardinality(RowsOf(d, n))

\* The rows of a client are its first readings, one after the other.
InSequence ==
  \A i \in DOMAIN origin :
    Mode[origin[i][1]] = "data" /\ origin[i][2] = Count(origin[i][1], i)

\* A client's thread has stored all it settled while it runs, and never more.
Tallied ==
  \A c \in Conn : Mode[c] = "data" =>
    /\ Count(c, Len(origin)) <= Settled[c]
    /\ pc[c] # "done" => Count(c, Len(origin)) = Settled[c]

\* A request is read, and its scans start, after it was made, and only a call
\* that fails cuts them short.
Timely(c) ==
  /\ seen[c] \in 0..Len(packets)
  /\ pc[c] \in StatPc => seen[c] <= job[c].base
  /\ inbox[c] = "statistics" => seen[c] <= reply[c].base /\ reply[c].at \in Time
  /\ pc[c] = "packets" => job[c].at \in Time
  /\ job[c].cut \/ reply[c].cut => faults > 0

\* What the users see follows from this part of the inductive invariant.
ViewInv == InSequence /\ Tallied /\ \A c \in Conn : Timely(c)
-----------------------------------------------------------------------------
\* How far a client is for its user, who does not see its handshakes.
PhaseOf(here, mode) ==
  CASE here \in {"off", "exited", "killed"} -> here
    [] here \in {"failed", "aborted"} -> "failed"
    [] here = "reply" -> "asking"
    [] here \in {"close", "closing"} /\ mode = "statistics" -> "told"
    [] OTHER -> "working"

Offer == INSTANCE Service WITH
  Reading <- [c \in Conn |-> OwnReadings(c)],
  Name <- [c \in Conn |-> CStr[UuidOf[c]]],
  phase <- [c \in Conn |-> PhaseOf(at[c], Mode[c])],
  sent <- [c \in Conn |-> IF Mode[c] = "data" THEN sent[c] ELSE <<>>],
  lost <- [c \in Conn |-> Mode[c] = "data" /\ lost[c]],
  stored <- [c \in Conn |-> Count(c, Len(origin))],
  asked <- [c \in Conn |-> [d \in Conn |-> Count(d, seen[c])]],
  told <- [c \in Conn |-> told[c]],
  failure <- (faults > 0),
  trouble <- Cause

\* The system keeps the promise of Service.
ImplementsService == Offer!Spec
=============================================================================
