------------------------------- MODULE Wrapper -------------------------------
(***************************************************************************)
(* SQLite::insertOne, selectOne and selectMany (Server/SQLite.cpp), called *)
(* by several threads on one connection: one step per call of sqlite3.     *)
(* SQLITE_OPEN_FULLMUTEX makes each of these calls atomic, not the method, *)
(* so that another thread can insert between two steps of a scan.  The     *)
(* table is any one of the server's, reduced to the column that is         *)
(* compared: clients.uuid, which is UNIQUE, or packets.client_id.          *)
(***************************************************************************)
EXTENDS Integers, Sequences

CONSTANTS
  Thread, Key,
  All,         \* the key of a selection without a WHERE clause
  Unique,      \* whether the column is UNIQUE
  MaxRows,     \* bound: no insertion begins when there are so many rows
  MaxFaults    \* bound: failing calls of sqlite3

VARIABLES
  rows,       \* the column's value in each row; row i has the id i
  pc,         \* the next sqlite3 call of a thread
  call,       \* the arguments of its method, and the rows there were when it was called
  open,       \* the threads whose pstmt is not null
  got,        \* rows, as ids
  failed,     \* history: whether a failing call touched the method
  result,     \* what its last method left: rows, and `failed`
  faults      \* counter for MaxFaults

vars == <<rows, pc, call, open, got, failed, result, faults>>

WrapperPc == {"idle", "prepare", "bind", "step", "finalize", "catch"}

\* The abstract statements; a call is over for its caller when it is idle.
S == INSTANCE Statement WITH
  done <- {t \in Thread : call[t].op = "insert" /\ pc[t] = "finalize"}

WrapperTypeOK ==
  /\ rows \in Seq(Key) /\ pc \in [Thread -> WrapperPc]
  /\ call \in [Thread -> S!Call \cup {S!NoCall}] /\ open \in SUBSET Thread
  /\ got \in [Thread -> SUBSET Nat] /\ failed \in [Thread -> BOOLEAN]
  /\ result \in [Thread -> [ids : SUBSET Nat, failed : BOOLEAN]] /\ faults \in Nat

\* A method asks for what Statement lets it return or throw, at every step of it.
MethodOK(t) ==
  /\ pc[t] = "idle" <=> call[t] = S!NoCall
  /\ pc[t] # "idle" => call[t] \in S!Call /\ call[t].base <= Len(rows)
  /\ pc[t] \in {"prepare", "bind"} => got[t] = {}
  /\ call[t].op = "insert" /\ pc[t] = "catch" => failed[t] \/ S!Refused(call[t].key)
  /\ call[t].op = "select" =>
       /\ got[t] \subseteq S!Matches(call[t].key, Len(rows))
       /\ pc[t] = "catch" => failed[t]
       /\ pc[t] = "finalize" => S!Faithful(got[t], call[t], failed[t])
       /\ call[t].one /\ pc[t] = "step" => got[t] = {}
       /\ ~call[t].one /\ ~Unique => \E n \in 0..Len(rows) : got[t] = S!Matches(call[t].key, n)

\* The inductive invariant of the methods.
Methods == \A t \in Thread : MethodOK(t)

Init ==
  /\ S!Init /\ pc = [t \in Thread |-> "idle"] /\ open = {} /\ got = [t \in Thread |-> {}]
  /\ failed = [t \in Thread |-> FALSE] /\ faults = 0

Goes(t, here, next) == pc[t] = here /\ pc' = [pc EXCEPT ![t] = next]

\* A call of sqlite3 fails, which the method notices or not.
Fails(t) ==
  /\ faults < MaxFaults /\ faults' = faults + 1
  /\ failed' = [failed EXCEPT ![t] = TRUE]

Works == UNCHANGED <<failed, faults>>
-----------------------------------------------------------------------------
\* A method is called.  rowCount is 1 or, for `one` = FALSE, size_t's largest.
Called(t, op, k, one) ==
  /\ Goes(t, "idle", "prepare")
  /\ call' = [call EXCEPT ![t] = [op |-> op, key |-> k, one |-> one, base |-> Len(rows)]]
  /\ got' = [got EXCEPT ![t] = {}] /\ failed' = [failed EXCEPT ![t] = FALSE]
  /\ UNCHANGED <<rows, open, result, faults>>

InsertOne(t) == Len(rows) < MaxRows /\ \E k \in Key : Called(t, "insert", k, FALSE)

SelectMany(t) == \E k \in Key \cup {All}, one \in BOOLEAN : Called(t, "select", k, one)

\* pstmt stays null when sqlite3_prepare_v2 fails.
Prepare(t) ==
  /\ \/ Goes(t, "prepare", "bind") /\ Works /\ open' = open \cup {t}
     \/ Goes(t, "prepare", "catch") /\ Fails(t) /\ UNCHANGED open
  /\ UNCHANGED <<rows, call, got, result>>

Bind(t) ==
  /\ \/ Goes(t, "bind", "step") /\ Works
     \/ Goes(t, "bind", "catch") /\ Fails(t)
  /\ UNCHANGED <<rows, call, open, got, result>>

\* Faulty: the result of sqlite3_step is not compared with SQLITE_DONE.
InsertStepUnchecked(t) ==
  /\ call[t].op = "insert" /\ Goes(t, "step", "finalize")
  /\ IF S!Refused(call[t].key) THEN UNCHANGED rows ELSE rows' = Append(rows, call[t].key)
  /\ Works /\ UNCHANGED <<call, open, got, result>>

\* The one sqlite3_step of insertOne: anything but SQLITE_DONE throws.
InsertStep(t) ==
  /\ call[t].op = "insert"
  /\ \/ /\ Goes(t, "step", "finalize") /\ ~S!Refused(call[t].key)
        /\ rows' = Append(rows, call[t].key) /\ Works
     \/ Goes(t, "step", "catch") /\ S!Refused(call[t].key) /\ UNCHANGED rows /\ Works
     \/ Goes(t, "step", "catch") /\ UNCHANGED rows /\ Fails(t)
  /\ UNCHANGED <<call, open, got, result>>

\* The rows that a scan may come to next.
Ahead(t) ==
  {i \in S!Matches(call[t].key, Len(rows)) \ got[t] : Unique \/ \A j \in got[t] : j < i}

\* Faulty: rowCount is not counted down.
RowUncounted(t) ==
  /\ Goes(t, "step", "step")
  /\ \E i \in Ahead(t) :
       /\ Unique \/ \A j \in Ahead(t) : i <= j
       /\ got' = [got EXCEPT ![t] = @ \cup {i}]
  /\ Works

\* SQLITE_ROW: the row is copied, and rowCount counted down.
Row(t) ==
  /\ Goes(t, "step", IF call[t].one THEN "finalize" ELSE "step")
  /\ \E i \in Ahead(t) :
       /\ Unique \/ \A j \in Ahead(t) : i <= j
       /\ got' = [got EXCEPT ![t] = @ \cup {i}]
  /\ Works

\* The loop takes all results but SQLITE_ROW for the end of the rows.
NoRow(t) ==
  /\ Goes(t, "step", "finalize") /\ UNCHANGED got
  /\ \/ S!Matches(call[t].key, call[t].base) \subseteq got[t] /\ (Unique \/ Ahead(t) = {}) /\ Works
     \/ Fails(t)

SelectStep(t) ==
  /\ call[t].op = "select"
  /\ \/ Row(t) \/ NoRow(t)
     \/ Goes(t, "step", "catch") /\ Fails(t) /\ UNCHANGED got   \* the copy of a row fails
  /\ UNCHANGED <<rows, call, open, result>>

\* Faulty: the catch block rethrows at once.
CatchLeaks(t) ==
  /\ Goes(t, "catch", "idle") /\ UNCHANGED open
  /\ call' = [call EXCEPT ![t] = S!NoCall]
  /\ result' = [result EXCEPT ![t] = [ids |-> {}, failed |-> failed[t]]]
  /\ Works /\ UNCHANGED <<rows, got>>

Leave(t, ids) ==
  /\ open' = open \ {t} /\ call' = [call EXCEPT ![t] = S!NoCall]
  /\ result' = [result EXCEPT ![t] = [ids |-> ids, failed |-> failed[t]]]
  /\ Works /\ UNCHANGED <<rows, got>>

\* sqlite3_finalize at the end of the method, which returns.
Finalize(t) == Goes(t, "finalize", "idle") /\ Leave(t, got[t])

\* The catch block finalizes what was prepared, and throws.
Catch(t) == Goes(t, "catch", "idle") /\ Leave(t, {})

Next ==
  \E t \in Thread :
    \/ InsertOne(t) \/ SelectMany(t) \/ Prepare(t) \/ Bind(t)
    \/ InsertStep(t) \/ SelectStep(t) \/ Finalize(t) \/ Catch(t)

Spec == Init /\ [][Next]_vars
-----------------------------------------------------------------------------
\* No method leaves its statement behind, whatever fails in it: sqlite3_close_v2
\* would keep the database open for it.
NoStatementLeaks ==
  /\ open \subseteq {t \in Thread : pc[t] \in {"bind", "step", "finalize", "catch"}}
  /\ {t \in Thread : pc[t] \in {"bind", "step", "finalize"}} \subseteq open

\* Each method, though it makes several calls that other threads interleave, is
\* what Server and Database take it for.
ImplementsStatement == S!Spec
=============================================================================
