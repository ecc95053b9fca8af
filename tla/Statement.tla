------------------------------ MODULE Statement ------------------------------
(***************************************************************************)
(* What Server takes one call of the SQLite wrapper to be.  An insertion   *)
(* happens at one moment, or is refused and leaves no row.  A selection    *)
(* sees all rows that were there when it began, and of those inserted      *)
(* meanwhile some.  A call that a failure touched may be refused, and, what *)
(* is worse, a selection may then return some of the rows as if all.       *)
(***************************************************************************)
EXTENDS Integers, Sequences

CONSTANTS
  Thread, Key,
  All,      \* the key of a selection without a WHERE clause
  Unique    \* whether the column is UNIQUE

VARIABLES
  rows,     \* the column's value in each row
  call,     \* call[t] = the call of t, with the rows that were there; NoCall
  done,     \* the threads whose insertion has happened
  result    \* result[t] = what the last call returned, and whether a failure touched it

vars == <<rows, call, done, result>>

Call ==
  [op : {"insert"}, key : Key, one : BOOLEAN, base : Nat] \cup
  [op : {"select"}, key : Key \cup {All}, one : BOOLEAN, base : Nat]
NoCall == [op |-> "none", key |-> All, one |-> FALSE, base |-> 0]

Matches(k, n) == {i \in 1..n : k = All \/ rows[i] = k}
Refused(k) == Unique /\ Matches(k, Len(rows)) # {}

\* The ids may answer c, now.  Without UNIQUE a scan goes through the table in
\* the order of its rows; with it SQLite may read the column's index instead.
Faithful(ids, c, failed) ==
  /\ ids \subseteq Matches(c.key, Len(rows))
  /\ c.one => \A i, j \in ids : i = j
  /\ ~failed => IF c.one THEN Matches(c.key, c.base) # {} => ids # {}
                         ELSE Matches(c.key, c.base) \subseteq ids
  /\ ~c.one /\ ~Unique => \E n \in 0..Len(rows) : ids = Matches(c.key, n)

Init ==
  /\ rows = <<>> /\ call = [t \in Thread |-> NoCall] /\ done = {}
  /\ result = [t \in Thread |-> [ids |-> {}, failed |-> FALSE]]

Begin(t) ==
  /\ call[t] = NoCall /\ call'[t] \in Call /\ call'[t].base = Len(rows)
  /\ call' = [call EXCEPT ![t] = call'[t]]
  /\ UNCHANGED <<rows, done, result>>

Insert(t) ==
  /\ call[t].op = "insert" /\ t \notin done /\ ~Refused(call[t].key)
  /\ rows' = Append(rows, call[t].key) /\ done' = done \cup {t}
  /\ UNCHANGED <<call, result>>

Ends(t) ==
  /\ call' = [call EXCEPT ![t] = NoCall] /\ done' = done \ {t}
  /\ result' = [result EXCEPT ![t] = result'[t]]
  /\ UNCHANGED rows

Returns(t) ==
  /\ \/ call[t].op = "insert" /\ t \in done
     \/ call[t].op = "select" /\ Faithful(result'[t].ids, call[t], result'[t].failed)
  /\ Ends(t)

Throws(t) ==
  /\ t \notin done
  /\ (call[t].op = "insert" /\ Refused(call[t].key)) \/ (call[t] # NoCall /\ result'[t].failed)
  /\ Ends(t)

Next == \E t \in Thread : Begin(t) \/ Insert(t) \/ Returns(t) \/ Throws(t)

Spec == Init /\ [][Next]_vars
=============================================================================
