# TZ: specification and proofs

TZ is a telemetry server with its client. A client connects over a WebSocket,
names itself with a random uuid and sends readings (a timestamp and two
doubles); the server stores them in SQLite and, on request, answers with
statistics of the last minute and the last five minutes per client. This
directory holds TLA+ modules of the server, its database wrapper, its clients and
the system they make, TLC configurations that check them, and TLAPS proofs of
the safety properties.

## The system

| Part | Source | State | Operations | Interacts by |
|---|---|---|---|---|
| Server process | `Server/main.cpp`, `Server::start`, `stop`, constructor | `m_needExit`, `m_threads`, the acceptor | start, create tables, accept, join, stop (SIGINT) | starts one thread per connection; shares `m_needExit` and the database with them |
| Connection thread | `Server::clientThread`, `saveClientPacket` | its socket and locals | upgrade, read, look up / register a client, insert a packet, reply | messages of its peer; SQL statements |
| Statistics | `Server::collectStatistics` | locals | list clients, read the clock, scan packets per client, fold, average | SQL statements between those of other threads |
| SQLite wrapper | `Server/SQLite.cpp` | the database file | `createTable`, `insertOne`, `selectOne`, `selectMany` | one connection in serialized mode, used by all threads |
| Message format | `protobuf/tz.proto` | none | encode, decode | between client and server |
| Client | `Client/Client.cpp`, `Client/main.cpp` | uuid, `m_needExit`, the socket | connect, send every 5 to 30 s, ask for statistics, stop (SIGINT), disconnect | WebSocket messages |
| Generated protobuf code, vendored SQLite, build files | `protobuf/tz.pb.*`, `sqlite3/`, `*.vcxproj` | | | third-party or generated: not modelled |

What is hard, and what makes each part correct:

- **Registration** is a lookup, an insertion and a second lookup, three
  statements without a transaction. Threads with the same uuid race; the loser
  gets a UNIQUE error. There must be one row per uuid, and every packet must be
  stored for the client it names.
- **Failure.** Every SQL call can fail; `selectMany` even hides a failing
  `sqlite3_step` as the end of the rows. A failure must end the connection, never
  pass a reading over.
- **Crash and restart.** SQLite keeps what was inserted; the process can die
  between any two statements, the two `createTable` calls among them.
- **Shutdown.** `stop` only sets a flag, which threads look at between blocking
  calls. What is still handled afterwards must be bounded, no thread may outlive
  `start`, and the server should stop unless a peer keeps it.
- **Statistics** are no snapshot. They must be exact for rows that were there
  when the request was read, have one entry per client and never divide by zero.
- **Statements** are several calls of `sqlite3`, and only each call holds the
  connection's mutex. A method must still be one statement for its caller, and
  finalize what it prepared on every path.
- **No acknowledgements.** A reading has none: the client learns only from the close
  handshake at its end that all was taken. The first write to a server that is
  gone may still succeed. The client's destructor, which runs that handshake, may
  throw, and the process then aborts.
- **Two shutdowns.** Server and clients stop by flags that each looks at between
  blocking calls, some of which wait for the other side.

## Modules

| Module | Models |
|---|---|
| `Protocol` | the decoded packets |
| `Database` | the two tables and the four calls of the wrapper, as operators; UNIQUE and NOT NULL; text cut at a NUL |
| `Statistics` | the arithmetic of `collectStatistics` for one client |
| `Server` | the process, its threads, its peers, failures, death and restart; the properties |
| `Telemetry` | what the server promises of readings, without threads or a database |
| `Survey` | what the server promises of statistics requests |
| `Wrapper` | `insertOne`, `selectOne` and `selectMany`, one step per call of `sqlite3` |
| `Statement` | what `Server` takes such a call for: one statement |
| `Client` | the client processes, with the server as their environment |
| `TZ` | the whole system: `Server` with the clients of `Client` as its peers |
| `Service` | what the system promises its users, who see clients and no server |
| `UserView` | `TZ` with two history variables, and the mapping that makes it a `Service` |
| `Entries` | what one client's entry is, without a loop, for `Statistics` to be compared with |
| `ServerInvariant`, `SystemInvariant` | the inductive invariants of `Server` and of `TZ` |
| `StatisticsProofs`, `EntriesProofs` | the proofs about `Statistics` |
| `ServerProofs`, `SurveyProofs` | the proofs about `Server` |
| `WrapperProofs` | the proofs about `Wrapper` |
| `SystemProofs`, `AnswerProofs` | the proofs about `TZ` |
| `ServiceProofs` | the proof that the system implements `Service` |
| `MCServer`, `MCStatistics`, `MCTZ`, `MCView` | instances for TLC |

`Server` extends `Database` and `Statistics`, which extend or stand beside
`Protocol`; it instantiates `Telemetry` and `Survey` with refinement mappings.
`Entries` extends `Statistics`. `Wrapper` instantiates `Statement`. `TZ` extends `Server` (through `ServerInvariant`)
and instantiates `Client`; `UserView` extends it (through `SystemInvariant`) and instantiates
`Service`.

### Server and its code

`main` is where the main thread is: `createClients`, `createPackets` (the
constructor), `listen`, `check` (the `while` of `start`), `accept`, `join`, or one
of the ways to be over. `pc[c]` is where the thread of connection `c` is; `none`
before it was accepted, `done` when the thread (or the connection, when it is
dropped) has ended. A step is one call whose effect another thread can see: a
socket call, a load of `m_needExit`, one SQL statement. In serialized mode SQLite
runs each `sqlite3_step` under the connection's mutex, so an INSERT and a
one-row SELECT are atomic; a many-row SELECT is not, and a scan may or may not see
rows inserted while it runs.

| Action | Code |
|---|---|
| `CreateTables`, `StartupFails` | the constructor; `main` catches what it throws |
| `Listen`, `LoopCheck`, `Accept`, `AcceptNothing`, `AcceptFails` | the accept loop; `would_block` and failing accepts are swallowed |
| `ThreadFails` | `std::thread` throws `std::system_error`, which `start` does not catch; destroying the joinable threads ends in `std::terminate` |
| `Join`, `Return`, `Interrupt` | the join loop, the end of `start`, `stop` |
| `Crash`, `Boot` | the process dies, or gets a SIGINT that nobody handles; it is started again on the same file |
| `Handshake`, `ThreadCheck`, `Receive...`, `ReadFails` | `ws.accept`, the `while`, `ws.read` and the `switch`; an exception ends the thread |
| `Select`, `InsertClient`, `Reselect`, `InsertPacket`, `SqlError` | `saveClientPacket`, one statement each |
| `ReceiveRequest`, `ListClients`, `ScanPackets`, `WriteReply` | `collectStatistics` and `ws.write` |
| `PeerConnect`, `PeerUpgrade`, `PeerSend`, `PeerDeafens`, `PeerLeave` | the environment: a client, or any other peer, one that reads nothing more among them |

`sent[c]` keeps all packets of a connection and `rd[c]` counts those read, so the
history a property needs is there. `origin` and `atStop` are history variables
that no action reads. The operators marked *Faulty* are variants of the operator
after them, with a plausible mistake; the properties are tested by putting one in
the other's place.

`job[c]` holds the locals of `collectStatistics`: the rows there were when the
request was read (`base`), the clients still to scan, the scans done, and `cut`, a
history of whether a failing step hid rows. `reply[c]` is what was written last.
`WriteReply` waits while its peer is deaf and the reply has more than `Buffer`
entries.

### Wrapper and its code

`pc[t]` is the next call of `sqlite3` that a thread's method makes: `prepare`,
`bind`, `step`, `finalize`, or `catch` for the finalization in the catch block.
`open` holds the threads whose `pstmt` is not null. The table is reduced to the column
that is compared, so one instance stands for `clients` (`Unique`, where SQLite may
walk the index and come to new rows in any order) and one for `packets` (a scan
in the order of the rows). `SelectMany` with `one` is `selectOne`. Any call may
fail; `NoRow` with `Fails` is the failing `sqlite3_step` that ends the loop as if the rows
had ended. In `Statement` a call begins, an insertion happens at one moment, and
the call returns or throws; a selection has seen all rows that were there when it
began. `SelectFound`, `InsertClient`, `InsertPacket`, `ListClients` and `ScanPackets` of `Server`
are such statements.

### Client, TZ and their code

`at[c]` is the call a client is about to make (`upgrade`, `body`, `request`, `close`)
or the answer it waits for (`handshake`, `reply`, `closing`), or how it ended:
`exited`, `failed` (main printed an error), `aborted` (the destructor threw),
`killed`. A turn of `start`'s loop is one step, since between its write and its test
of `m_needExit` nothing another process does is looked at. `inbox[c]` is an answer
that has arrived, `eof[c]` whether the server closed its end or the connection is
gone.

| Action | Code |
|---|---|
| `Dial`, `DialFails`, `Upgrade`, `Upgraded` | `connect`, from the constructor |
| `Send`, `NotDue`, `Interrupt` | a turn of `start`, with or without a reading due; SIGINT |
| `Request`, `GetReply` | `getStatistics` |
| `Close`, `Closed` | the destructor's `disconnect` |
| `WriteFails`, `ReadFails`, `Thrown` | the exceptions and where they lead |
| `Kill` | SIGINT without a handler, a second one, or another death |

In `TZ` a client's write is the peer's step of `Server` (`PeerConnect`, `PeerUpgrade`,
`PeerSend`, `PeerLeave`) while its thread lives; afterwards it is `lost`. A step of the
server that accepts the upgrade, sends statistics or ends its thread puts an
answer in the `inbox` or the `eof` of the client. What was lost, or was left unread when a
socket was closed, is answered by a reset that comes at some later time
(`ResetArrives`). The clients in `Fragile` may lose their link at any moment: each
end notices at a time of its own, or never (`LinkBreaks`). `UuidOf` gives each client its random uuid; `UuidAssumption` says that
they differ and hold no NUL. `before[c]` is a history variable: the clients that had
ended when `c` asked.

### Service and the system

`Service` has no server, connection, handshake or database. A client writes readings,
which are stored later, one by one and in order; or it asks for statistics and is
told a `Report`. A report counts, of each client, the readings stored at some moment since
it was asked for, which need not be the same moment for two clients, and may count fewer only
after a call of the server failed. A client may end without an error only when all it wrote is
stored, or when it was told what it asked for; it may fail, or lose a reading, only when its link is
fragile or the server failed or was stopped; and nothing it writes after a lost reading is stored.
What a dead client wrote may still be stored.

`UserView` records what is gone when the mapping needs it: `seen[c]`, the number of rows when `c`
asked, and `told[c]`, the statistics that `getStatistics` of `c` returned. `stored` is mapped to the
number of rows that are readings of a client, `failure` to a failing call, `trouble` to `Cause`,
and `at[c]` to a phase that hides the handshakes. `Statistics` of `Server` is what
`collectStatistics` does with its rows, so `Tell` says that the reply a client reads is
the report of real prefixes of what was written, computed by the code's loop.

## Checks

| Configuration | Question | Bounds |
|---|---|---|
| `MCIngest` | `TypeOK`, `UniqueClients`, `NoSilentDrop`, `StoredOnceInOrder`; `ImplementsTelemetry` | 2 connections, 2 packets each (a reading, and one of a uuid with a NUL whose y is NaN), 1 failing call, 1 start |
| `MCRestart` | `Attribution`, `SchemaReady`, `Inv`; `RefusedForCause` | 2 connections, 1 packet each (a reading of one of three uuids, of which two are one for SQLite, or a DATA packet without data), 1 failing call, 2 starts |
| `MCStatisticsRequest` | `OneEntryPerClient`, `StatisticsCoverRequest`, `Requests`; `ImplementsSurvey` | 2 connections, 2 packets each, 1 failing step that a scan takes for its end, nobody stops the server |
| `MCStop` | `LastCall`, `OnlyPeersPreventStop`, `NoThreadOutlivesStart` | 2 connections, 2 packets each (readings, requests and packets of unknown type), replies that do not fit in the buffers, no failing call |
| `MCLive` | `StopTerminates`, `PacketsHandled`, `ConnectionServed`; `StopDescends` | 2 connections, 1 packet each (a reading, a request, or a DATA packet without data), no failing call |
| `MCSystem` | `StatisticsSeeExited`, `FailureHasCause`, `ViewInv`; `ImplementsService` | a client that sends up to 2 readings and one that asks, no failing call; clients die, SIGINT and crashes at any moment |
| `MCSystemFaults` | `RightAnswer`, `ExitedIsStored`, `SystemInv` | the same with 1 reading, 1 failing call of the server, a link that may break at either end, nobody kills a client |
| `MCSystemLive` | `ClientsLetServerStop`, `AnswersCome`, `ClientEnds` | the same with 1 reading, no failing call, nobody kills a client |
| `MCWrapperUnique` | `NoStatementLeaks`; `ImplementsStatement` | 2 threads, 2 keys, a UNIQUE column, 1 failing call, insertions until there are 2 rows |
| `MCWrapperScan` | `Methods`; `ImplementsStatement` | the same without UNIQUE (up to 3 rows) |
| `MCStatistics` | `EntryIsExact`, `ReportedIffRecent` | every sequence of up to 3 rows, timestamps on both sides of both windows' bounds |
| `MCCommentQuery` | `MatchesCommentQuery`, which is violated | 2 rows |

Two connections are enough for every race in this code: a thread shares with
the others only the two tables and the flag, and each conflict is between two of
them. The races between more threads are covered by the proofs, which have no
bound. Two packets let a connection go on after its first; one failing call
shows each failure on its own, at every place. `MCStatisticsRequest` has two
packets so that a request can come before, between and after readings of
the other connection. One client of each kind is enough in `TZ`: clients share
nothing but the server, and what the two kinds do to each other, a reading that
must be in a reply, needs one of each; `SystemImplementsServer` brings all that is
proved of more. `MCSystem`, an instance of `UserView`, has two readings so that
their order shows; that the system implements `Service` also while links and calls fail is proved,
not checked by a run. `Buffer` is 0 where a reply should not fit, so that every reply with an entry
waits for a deaf peer. `MaxSent`, `MaxFaults`, `MaxRuns` and `MaxRows` are the only bounds in the
actions. The configurations of `MCServer`, `MCTZ`, `MCView` and `Wrapper` check for deadlock: `Finished`,
and `AllOver` in `TZ`, are the only ways to stop, when the process is down, no start is
left and every client has ended.

What the runs of `TZ` show together: a client's exit without an error is an
acknowledgement of all its readings, although the protocol has none for any of them;
statistics asked for after that exit count them; a client fails or aborts only
when the server was stopped, died, or a call of it failed; and neither side waits
for the other for ever.

`MCCommentQuery` records that the SELECT in the comment above
`collectStatistics`, with `HAVING p.timestamp > 123`, is not what the loop
computes: HAVING keeps or drops a client with all its rows, the loop selects
rows. A client with one old and one recent row shows it.

### Fairness

`FairSpec` assumes of the server that the main thread, and each connection's
thread, takes a step when it can: the operating system schedules threads, the
accept loop polls every 200 ms, and no lock of the program is held across a
blocking call. It assumes of the peers that none is silent or deaf for ever: each sends or
leaves in the end (one that closed its connection need not even reset it). The code has no timeout, so without that assumption
`StopTerminates` is false; `OnlyPeersPreventStop` says that nothing else is to
blame, and `StopDescends` that no step undoes another: every step of a thread or of `start`
after `stop` lowers a rank. Nothing is assumed of SIGINT, failures or crashes.

`FairSystemSpec` needs no such assumption of the peers, since they are the clients:
it assumes that each client's thread takes a step when it can, that its next reading
becomes due at some time (a step of its loop in which none is due changes nothing),
and that the reset of a closed socket arrives. The bound `MaxSent` stops a client
that the code lets go on, so the two properties that wait for its next write except
that case (`Exhausted`). `MCSystemLive` leaves out clients that are killed and links
that break: a link that breaks unseen leaves a thread in `ws.read` for ever, since the
code sets no timeout.

## Proofs

All theorems hold for every set of connections, uuids, packets, clients and clock
readings, and for all bounds, under the named assumptions: `NaN` is no integer, the packets are packets
of the protocol, `CStr` maps uuids to uuids, clock readings are integers, the intervals are natural numbers and the
short one is not longer than the long one, the values in `Entries` are integers, and,
for `TZ`, each client has a mode and a uuid of its own.

| Theorem | Says |
|---|---|
| `TypeCorrect` | `TypeOK`, with `Cursor` and `Connected` |
| `ReadingsCorrect` | the inductive invariant of the rows |
| `UniqueClientsCorrect`, `AttributionCorrect`, `StoredOnceInOrderCorrect`, `NoSilentDropCorrect` | the properties of that name |
| `RefusedForCauseCorrect` | no reading is refused, and no connection ended for it, but for a failing call, a NaN or another connection that named the same client |
| `SchemaReadyCorrect`, `LastCallCorrect`, `NoThreadOutlivesStartCorrect`, `StopDescendsCorrect` | the properties of that name |
| `InvCorrect` | the whole invariant `Inv` |
| `Implements` | `Server` implements `Telemetry` |
| `RequestsCorrect`, `OneEntryPerClientCorrect`, `ImplementsSurveyCorrect` | the invariant of statistics requests; one entry per client; `Server` implements `Survey` |
| `StatisticsCoverRequestCorrect` | a reply that was not cut short has an exact entry of each client with a recent row |
| `EntryIsExactCorrect`, `ReportedIffRecentCorrect` | for any rows, the loop of `collectStatistics` computes what `Entries` defines |
| `MethodsCorrect`, `NoStatementLeaksCorrect`, `WrapperImplementsStatement` | the invariant of the wrapper's methods; no statement leaks; `Wrapper` implements `Statement` |
| `SystemImplementsServer`, `SystemImplementsClients` | `TZ` restricts `Server` and `Client`, so that what is proved of them holds of it |
| `AcknowledgedCorrect`, `ExitedIsStoredCorrect` | a client that ends without an error lost nothing |
| `InStepCorrect`, `RightAnswerCorrect` | client and thread stay in step: each answer is the one awaited |
| `LawfulCorrect`, `FailureHasCauseCorrect` | clients alone never make the server drop one |
| `SystemInvCorrect`, `StatisticsSeeExitedCorrect` | the whole invariant of `TZ`; statistics count what clients that had exited wrote |
| `ViewInvCorrect`, `ImplementsServiceCorrect` | the invariant of what users see; the system implements `Service` |

The argument about `Server` has four layers.

1. `TypeOK` is not inductive alone: what `InsertClient` appends to `clients` is a
   uuid only if `Msg(c)` is a packet. `Cursor` says that it is: a thread has read only
   what was sent, and in `saveClientPacket` it holds a reading.
2. For the rows, the thirty actions are first reduced to six kinds of steps
   (lemma `Effect`): `Keeps`, `Reads`, `Finds`, `Registers`, `Stores`, `Sends`.
   `Attribution` needs `RowIsClient`, that the id a thread found still names its
   packet's uuid when it is used: rows are never changed, so it does. `NoSilentDrop`
   and `StoredOnceInOrder` need the two halves of one fact: what is stored are exactly
   the readings a live thread is done with (`StoredAreSettled`,
   `SettledAreStored`). The same facts make each step map to a step of `Telemetry`.
   `RefusedForCause` needs `LookupsHold`, what a lookup's result is still worth when the
   thread acts on it: at `insertClient` its client is not there, unless a step
   failed or a rival came by; at `reselect` it is. A rival, once its packet was read, stays one
   (`RivalsStay`).
3. For the process, `LastCallPending` says who may still receive or
   accept after `stop`, and `ThreadsTracked` that `m_threads` holds every running
   thread and that joined ones have ended. `StopDescends` is the safety half of
   `StopTerminates`: with `m_needExit` set, every step of a thread takes it to a call that is
   nearer to its end, or scans one more client of those it listed (`Nearer`), and
   every step of the main thread takes it nearer to the last join (`MainNearer`). It needs
   `StopServes`: the flag is set only when the constructor is done, so all that is left of the
   main thread is the rest of `start`.
4. For statistics, `RequestOK` relates a thread's locals to the tables: while it lists
   clients, those of the request's rows are among the first `from`; while it scans
   packets, each of them is scanned or still to be scanned, and no scan ended before
   the request's rows. Inserts of other threads only add rows and keep this, also
   for a reply that was written (`ReplyOK`), which `StatisticsCoverRequest` needs. It
   makes the step of `WriteReply` the step `Answer` of `Survey`. The steps are
   first reduced to seven kinds (`JobRests`, `JobAsks`, `JobLists`, ...), as for the rows.

In `TZ` every step is a step of `Server` (lemma `SystemSteps`), so its theorems
carry over. `Acknowledged` adds what only the clients guarantee: nothing is written
after the close frame; a write is lost only when no thread reads any more; and the
thread answers a close frame only when it has read everything before it, which by
`StoredAreSettled` and `SettledAreStored` of `Server` means that every reading is stored.
Rows are never removed, so what a client was told at its end stays true. Three
more invariants, in `SystemInvariant`, carry the rest.

- `InStep`, for `RightAnswer`. That what arrived is what the client awaits is not
  inductive: nothing in it says that a thread answers only once. So `InStep` follows
  the requests: a client that has not asked has none in `sent`, no two requests are
  in one connection, and while one is unread or unanswered its client is at `reply` with
  nothing in its `inbox`. A thread is beyond `handshake` only for a client that was
  or is waiting for the upgrade.
- `Lawful`, for `FailureHasCause`. While there is no cause (no stop, end, restart or
  failing call), a thread must not end before its client closed or died. It would
  for a NaN (`OwnPackets`: clients send none), for a uuid that another thread
  registered between lookup and insertion (`LooksUp`: uuids differ, so only the
  client's own thread registers its own), or for a reset (`EndsWell`). Once there is
  a cause there always will be one: only `Boot` takes back `needExit`, and it
  counts as a second run (`Started`).
- `Sees`, for `StatisticsSeeExited`, joins the three layers. A client in `before[c]` had
  exited, so by `Acknowledged` all its readings are stored; the thread of `c` reads the
  request after that, so they are among the first `base` rows; by `InStep` the
  reply that `c` reads is the one to that request; and by `Requests` of `Server` each of these
  rows is scanned. `StoredExactly` says that the row has the timestamp of the packet, and
  distinct readings are distinct rows, so the entry counts at least as many.

`ServiceProofs` maps every step of the system to a step of `Service`, or to none. That asks for
more than the invariants above: `Service` speaks of numbers of readings and of what was told,
`TZ` of rows, locals and replies. `ViewInv` is the bridge, in three parts.

- `InSequence`: the k-th row of a client is its k-th reading. With it the rows of a client
  among the first n rows are a prefix of what it wrote, and a scan of them, which takes the client's
  rows out of everybody's (`ScanTakes`, by induction over the rows), is the prefix
  `Service` reports (`PrefixTaken`).
- `Tallied`: a client has as many rows as its thread has settled readings, while the
  thread runs. A clean exit, which `Acknowledged` makes a sign that the thread settled
  everything, is therefore the step `Finish`, whose guard is that all is stored.
- `Timely`: a request is read and served after it was made, so the moments of its scans
  are moments since then, and only a failing call can cut a scan short.

The step that reads the reply joins them: `RightAnswer` says that it is the answer to this
client's request, `Requests` that each scan covers a moment between the request and the reply, and
uuids differ, so that the clients of the database are the clients of the system
(`StatisticsReport`). The steps `Fail` and `Lose` are allowed only to a hindered client:
by `Lawful` no other fails, or writes to a thread that has ended.

The last step of `Sees`, and `StatisticsCoverRequest`, speak of the rows that were filtered and
folded. `Database` and `Statistics` define both by a recursive function over the rows
(`Selected`, `Turns`), and `StatisticsProofs` proves by induction over the rows, stated as
an induction over a set of numbers, what a window yields: its counter is the number
of its rows, and a longer window counts no fewer. `SurveyProofs` does it for the rows that
a scan selects.
`EntriesProofs` does the same for the sums over a set of rows, which the definition adds
up in any order: the sum of a set with one more row is larger by that row
(`TotalAdd`), so each turn of the loop keeps its sums equal to those of the
rows passed.

In `Wrapper`, `MethodOK` says what a method's locals are worth at each of its
calls: what it collected is a part of the rows, with all that were there when it
was called once it is about to return, and a thrown exception has a reason. The
refinement mapping takes an insertion as done between its `sqlite3_step` and its
`sqlite3_finalize`; the other calls of `sqlite3` are stutters.

TLC checks the same invariants: `Inv` on `MCRestart`, where the process starts twice,
`Requests` on `MCStatisticsRequest`, `ViewInv` on `MCSystem`, `SystemInv`, which begins
with `Acknowledged`, on `MCSystemFaults`, `Methods` on `MCWrapperScan`.

Only model-checked: the liveness properties, which rest on fairness, and
`OnlyPeersPreventStop`, which speaks of ENABLED: both are outside the prover's
reach. `StopDescends` proves what can be said of stopping without them. Every other invariant,
action property and refinement that a run checks is a theorem.

## What is abstracted

- A double is an integer or `NaN`; averages are fractions. Rounding and infinities
  are not modelled.
- A message is what it decodes to. One that was cut short is a packet like any
  other, which is why packets without data (`MCRestart`, `MCLive`) and of unknown type (`MCStop`) are sent.
- What fits in the socket buffers is counted in entries of a reply (`Buffer`).
- A thread that gets a close frame answers it and ends in one step, also in `Server`, where
  the peer's close and the end of its connection are one.
- A peer sends nothing before `ws.accept` has answered its upgrade, and one that
  upgrades and leaves before the answer ends its thread in the handshake, a step earlier than
  in the code. No property depends on either.
- The order of the backlog is not kept: `ConnectionServed` says that what waits is served
  or closed, of two connections that each come once, not that service is fair
  among ever more of them.
- A write that fails at once and one whose failure shows at the next write are told
  apart by `ResetArrives`, which comes at any later time. A half-open connection
  is a `LinkBreaks` at one end only; safety alone is checked then.
- A client's clock is a choice of when a reading is due, its uuid a constant.
- A row id is the row's position; ids are not reused since rows are never deleted.
- A failing call is any call: its reason and the text of its error are left out.
  A failing `sqlite3_step` that `selectMany` takes for the end of the rows is
  modelled as that.
- The 200 ms pauses are not: they change when, not what.

## Not modelled

- `sqlite3/` is vendored and `protobuf/tz.pb.*` is generated by protoc. They are 99 % of
  the lines of the repository, and none of it is the program's own logic:
  `Database` and `Wrapper` model what the wrapper relies on, `Protocol` what the
  generated parser yields. The lines that these modules map are therefore a small share of the
  repository, though they are nearly all of `Server/` and `Client/`.
- The wire encoding: what a message decodes to is modelled, not how.
- Static destruction of the server after `main` (a SIGINT at that moment uses a
  destroyed object), the text of queries, errors and output, and the clauses
  `ORDER BY`, `<` and `>` of the wrapper, which no caller uses.
- The command line: a client or server that is called wrongly prints its usage and ends.
- A link that breaks without either side noticing, in the liveness runs; see Fairness.
- A scan that never ends because other threads insert as fast as it reads: the
  clients send one reading in 5 to 30 s.
- Build files.

## State of the plan

All modules planned are written: `Protocol`, `Database`, `Statistics`, `Server`,
`Telemetry`, then `Survey`, `Client`, `TZ`, `Wrapper` and `Statement`, then `UserView` and `Service`,
with their runs and the proofs above. What could still be added: that
`OnlyPeersPreventStop` holds of a formula that spells out when each step can be taken, in
place of ENABLED; and a model of the parser that shows which packets a message cut
short decodes to.
