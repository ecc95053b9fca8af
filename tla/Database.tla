------------------------------ MODULE Database ------------------------------
(***************************************************************************)
(* The SQLite wrapper (Server/SQLite.cpp) and the two tables the server    *)
(* keeps through it.  Every sqlite3_step runs under the connection's mutex *)
(* (SQLITE_OPEN_FULLMUTEX) in its own autocommit transaction, so each      *)
(* INSERT, and each single-row SELECT, is one atomic step.  Rows are only  *)
(* ever appended, hence the i-th row of a table has the id i.              *)
(***************************************************************************)
EXTENDS Protocol, Sequences

CONSTANT CStr   \* what sqlite3_bind_text(.., c_str(), -1, ..) keeps of a text: all up to its first NUL

ASSUME CStrAssumption == CStr \in [Uuid -> Uuid]

VARIABLES
  tables,    \* names of the tables that exist
  clients,   \* clients[i] = uuid of the row with id i
  packets    \* packets[i] = the row with id i

dbVars == <<tables, clients, packets>>

Schema == {"clients", "packets"}

Row == [client_id : Nat, timestamp : Int, x : Int, y : Int]

DatabaseTypeOK ==
  /\ tables \in SUBSET Schema
  /\ clients \in Seq(Uuid)
  /\ packets \in Seq(Row)

DatabaseInit == tables = {} /\ clients = <<>> /\ packets = <<>>

\* CREATE TABLE IF NOT EXISTS: a table that exists is kept with its rows.
CreateTable(t) == tables' = tables \cup {t} /\ UNCHANGED <<clients, packets>>

\* Faulty: the uuid is compared beyond its NUL, too.
ClientIdsUncut(u) == {i \in DOMAIN clients : clients[i] = u}

\* SELECT id FROM clients WHERE uuid = ?
ClientIds(u) == {i \in DOMAIN clients : clients[i] = CStr[u]}

\* Faulty: the uuid column without UNIQUE.
UniqueViolatedNever(u) == FALSE

\* INSERT INTO clients(uuid): the UNIQUE column refuses a uuid it already has.
UniqueViolated(u) == ClientIds(u) # {}

InsertClientRow(u) == clients' = Append(clients, CStr[u]) /\ UNCHANGED <<tables, packets>>

\* Faulty: the x and y columns without NOT NULL.
NotNullViolatedNever(d) == FALSE

\* INSERT INTO packets: a NaN is bound as NULL, which the NOT NULL columns refuse.
NotNullViolated(d) == NaN \in {d.x, d.y}

InsertPacketRow(id, d) ==
  /\ packets' = Append(packets,
       [client_id |-> id, timestamp |-> d.timestamp, x |-> d.x, y |-> d.y])
  /\ UNCHANGED <<tables, clients>>

\* SELECT timestamp, x, y FROM packets WHERE client_id = ?, row by row.
Selected(id) ==
  LET s[n \in 0..Len(packets)] ==
        IF n = 0 THEN <<>>
        ELSE IF packets[n].client_id = id
        THEN Append(s[n - 1], [timestamp |-> packets[n].timestamp,
                               x |-> packets[n].x, y |-> packets[n].y])
        ELSE s[n - 1]
  IN  s

\* What it yields when the scan of the table ended after its first n rows.
ClientRows(id, n) == Selected(id)[n]
=============================================================================
