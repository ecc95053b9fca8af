---------------------------- MODULE ServiceProofs ----------------------------
(***************************************************************************)
(* Proofs that the system keeps the promise of Service to its users: the   *)
(* rows of each client are its first readings, its statistics report such  *)
(* prefixes, and each step is one that Service allows.                     *)
(***************************************************************************)
EXTENDS UserView, AnswerProofs

-----------------------------------------------------------------------------
(* Counting the rows of a client. *)

\* The count goes up by one at each row of the client.
LEMMA CountStep ==
  ASSUME NEW d, NEW n \in Nat
  PROVE  /\ IsFiniteSet(RowsOf(d, n)) /\ Count(d, n) \in Nat /\ Count(d, 0) = 0
         /\ Count(d, n + 1) = IF origin[n + 1][1] = d THEN Count(d, n) + 1 ELSE Count(d, n)
<1>1. IsFiniteSet(1..n) /\ RowsOf(d, n) \subseteq 1..n
  BY FS_Interval DEF RowsOf
<1>2. IsFiniteSet(RowsOf(d, n)) /\ Count(d, n) \in Nat
  BY <1>1, FS_Subset, FS_CardinalityType DEF Count
<1>3. Count(d, 0) = 0
  <2>1. RowsOf(d, 0) = {}
    BY DEF RowsOf
  <2>2. QED
    BY <2>1, FS_EmptySet DEF Count
<1>4. CASE origin[n + 1][1] = d
  <2>1. RowsOf(d, n + 1) = RowsOf(d, n) \cup {n + 1} /\ n + 1 \notin RowsOf(d, n)
    BY <1>4 DEF RowsOf
  <2>2. QED
    BY <1>2, <1>3, <1>4, <2>1, FS_AddElement DEF Count
<1>5. CASE origin[n + 1][1] # d
  <2>1. RowsOf(d, n + 1) = RowsOf(d, n)
    BY <1>5 DEF RowsOf
  <2>2. QED
    BY <1>2, <1>3, <1>5, <2>1 DEF Count
<1>6. QED
  BY <1>4, <1>5

\* More rows hold no fewer of a client.
LEMMA CountMonotone ==
  ASSUME NEW d, NEW m \in Nat, NEW n \in Nat, m <= n
  PROVE  Count(d, m) \in Nat /\ Count(d, n) \in Nat /\ Count(d, m) <= Count(d, n)
<1>1. RowsOf(d, m) \subseteq RowsOf(d, n)
  BY DEF RowsOf
<1>2. QED
  BY <1>1, CountStep, FS_Subset DEF Count

\* Later rows change nothing about the first ones.
LEMMA CountStays ==
  ASSUME TypeOK, Connected, [Next]_vars, NEW d, NEW n \in 0..Len(origin)
  PROVE  Count(d, n)' = Count(d, n)
<1>1. Len(origin) \in Nat /\ DOMAIN origin = 1..Len(origin)
  BY DEF TypeOK
<1>2. \A i \in 1..n : origin'[i] = origin[i]
  BY <1>1, OriginGrows
<1>3. RowsOf(d, n)' = RowsOf(d, n)
  BY <1>2 DEF RowsOf
<1>4. QED
  BY <1>3 DEF Count

-----------------------------------------------------------------------------
(* The rows of a client are its readings, in sequence. *)

\* What a client of data writes it means to have stored; the others write none.
LEMMA OwnReading ==
  ASSUME NEW c \in Conn, OwnPackets(c), NEW k \in DOMAIN sent[c]
  PROVE  IF Mode[c] = "data" THEN IsReading(sent[c][k]) /\ sent[c][k].uuid = UuidOf[c]
         ELSE ~IsReading(sent[c][k])
BY DEF OwnPackets, OwnReadings, IsReading

LEMMA SettledType ==
  ASSUME TypeOK, Cursor, NEW c \in Conn
  PROVE  /\ Settled[c] \in Nat /\ rd[c] \in Nat /\ Settled[c] <= rd[c] /\ rd[c] <= Len(sent[c])
         /\ Settled[c] = IF pc[c] \in SavePc THEN rd[c] - 1 ELSE rd[c]
         /\ Settled[c]' = IF pc'[c] \in SavePc THEN rd'[c] - 1 ELSE rd'[c]
BY DEF TypeOK, ThreadTypeOK, Cursor, Settled

\* The row that a thread stores is its client's next reading.
LEMMA StoresNext ==
  ASSUME TypeOK, Cursor, Connected, Readings, InSequence, Tallied, \A d \in Conn : OwnPackets(d),
         NEW c \in Conn, Stores(c)
  PROVE  /\ Mode[c] = "data" /\ rd[c] = Count(c, Len(origin)) + 1
         /\ rd[c] \in DOMAIN sent[c]
<1>1. pc[c] = "insertPacket" /\ rd[c] \in DOMAIN sent[c] /\ IsReading(Msg(c))
  BY MsgType DEF Stores, SavePc, Cursor, TypeOK, NetTypeOK
<1>2. Mode[c] = "data"
  BY <1>1, OwnReading DEF Msg
<1>3. Settled[c] = rd[c] - 1 /\ rd[c] \in Nat
  BY <1>1, SettledType DEF SavePc
<1>4. QED
  BY <1>1, <1>2, <1>3 DEF Tallied

\* What the counts become.
LEMMA StoresCount ==
  ASSUME TypeOK, Connected, NEW c \in Conn, Stores(c), [Next]_vars, NEW d
  PROVE  Count(d, Len(origin))' =
           IF d = c THEN Count(d, Len(origin)) + 1 ELSE Count(d, Len(origin))
<1>1. /\ Len(origin) \in Nat /\ Len(origin') = Len(origin) + 1
      /\ origin'[Len(origin) + 1] = <<c, rd[c]>>
      /\ \A i \in 1..Len(origin) : origin'[i] = origin[i]
  BY StoresAppends
<1>2. Count(d, Len(origin))' = Cardinality({i \in 1..(Len(origin) + 1) : origin'[i][1] = d})
  BY <1>1 DEF Count, RowsOf
<1>3. {i \in 1..(Len(origin) + 1) : origin'[i][1] = d} =
        IF d = c THEN RowsOf(d, Len(origin)) \cup {Len(origin) + 1} ELSE RowsOf(d, Len(origin))
  BY <1>1 DEF RowsOf
<1>4. Len(origin) + 1 \notin RowsOf(d, Len(origin))
  BY <1>1 DEF RowsOf
<1>5. IsFiniteSet(RowsOf(d, Len(origin)))
  BY <1>1, CountStep
<1>6. QED
  BY <1>2, <1>3, <1>4, <1>5, FS_AddElement DEF Count

LEMMA RestCount ==
  ASSUME UNCHANGED origin, NEW d, NEW n
  PROVE  Count(d, n)' = Count(d, n) /\ Count(d, Len(origin))' = Count(d, Len(origin))
BY DEF Count, RowsOf

LEMMA InSequenceStep ==
  ASSUME TypeOK, Cursor, Connected, Readings, InSequence, Tallied, \A d \in Conn : OwnPackets(d),
         [Next]_vars
  PROVE  InSequence'
<1>1. CASE UNCHANGED origin
  BY <1>1 DEF InSequence, Count, RowsOf
<1>2. ASSUME NEW c \in Conn, Stores(c)
      PROVE  InSequence'
  <2> SUFFICES ASSUME NEW i \in DOMAIN origin'
               PROVE  /\ Mode[origin'[i][1]] = "data"
                      /\ origin'[i][2] = Cardinality({j \in 1..i : origin'[j][1] = origin'[i][1]})
    BY DEF InSequence, Count, RowsOf
  <2>1. /\ Len(origin) \in Nat /\ DOMAIN origin = 1..Len(origin)
        /\ DOMAIN origin' = 1..(Len(origin) + 1) /\ Len(origin') = Len(origin) + 1
        /\ origin'[Len(origin) + 1] = <<c, rd[c]>>
        /\ \A j \in 1..Len(origin) : origin'[j] = origin[j]
    BY <1>2, StoresAppends
  <2>2. CASE i \in 1..Len(origin)
    <3>1. {j \in 1..i : origin'[j][1] = origin'[i][1]} = RowsOf(origin[i][1], i)
      BY <2>1, <2>2 DEF RowsOf
    <3>2. QED
      BY <2>1, <2>2, <3>1 DEF InSequence, Count
  <2>3. CASE i = Len(origin) + 1
    <3>1. Count(c, Len(origin))' = Count(c, Len(origin)) + 1
      BY <1>2, StoresCount
    <3>2. Count(c, Len(origin))' = Cardinality({j \in 1..i : origin'[j][1] = c})
      BY <2>1, <2>3 DEF Count, RowsOf
    <3>3. Mode[c] = "data" /\ rd[c] = Count(c, Len(origin)) + 1
      BY <1>2, StoresNext
    <3>4. origin'[i][1] = c /\ origin'[i][2] = rd[c]
      BY <2>1, <2>3
    <3>5. QED
      BY <3>1, <3>2, <3>3, <3>4
  <2>4. QED
    BY <2>1, <2>2, <2>3
<1>3. UNCHANGED origin \/ \E c \in Conn : Stores(c)
  BY Effect DEF Keeps, Reads, Finds, Registers, Sends
<1>4. QED
  BY <1>1, <1>2, <1>3

LEMMA TalliedStep ==
  ASSUME TypeOK, TypeOK', Cursor, Cursor', Connected, Readings, InSequence, Tallied,
         \A d \in Conn : OwnPackets(d), [Next]_vars
  PROVE  Tallied'
<1> SUFFICES ASSUME NEW c \in Conn, Mode[c] = "data"
             PROVE  /\ Count(c, Len(origin))' <= Settled[c]'
                    /\ pc'[c] # "done" => Count(c, Len(origin))' = Settled[c]'
  BY DEF Tallied
<1>1. /\ Count(c, Len(origin)) <= Settled[c]
      /\ pc[c] # "done" => Count(c, Len(origin)) = Settled[c]
      /\ Count(c, Len(origin)) \in Nat
  BY CountStep DEF Tallied, TypeOK
<1>2. /\ Settled[c] \in Nat /\ rd[c] \in Nat /\ rd'[c] \in Nat
      /\ Settled[c] = IF pc[c] \in SavePc THEN rd[c] - 1 ELSE rd[c]
      /\ Settled[c]' = IF pc'[c] \in SavePc THEN rd'[c] - 1 ELSE rd'[c]
  BY SettledType DEF TypeOK, ThreadTypeOK
<1>3. ASSUME UNCHANGED origin,
             pc'[c] # "done" => pc[c] # "done" /\ Settled[c]' = Settled[c],
             Settled[c]' >= Settled[c]
      PROVE  /\ Count(c, Len(origin))' <= Settled[c]'
             /\ pc'[c] # "done" => Count(c, Len(origin))' = Settled[c]'
  <2>1. Count(c, Len(origin))' = Count(c, Len(origin))
    BY <1>3, RestCount
  <2>2. Settled[c]' \in Int
    BY <1>2
  <2>3. QED
    BY <1>1, <1>2, <1>3, <2>1, <2>2
<1>4. CASE Keeps
  <2>1. /\ rd'[c] = rd[c] /\ UNCHANGED origin
        /\ pc'[c] # "done" => pc[c] # "done" /\ (pc'[c] \in SavePc <=> pc[c] \in SavePc)
        /\ pc'[c] = "done" => pc'[c] \notin SavePc
    BY <1>4 DEF Keeps, SavePc
  <2>2. QED
    BY <1>2, <1>3, <2>1
<1>5. ASSUME NEW d \in Conn, Reads(d)
      PROVE  UNCHANGED origin /\ (pc'[c] # "done" => pc[c] # "done") /\ Settled[c]' = Settled[c]
  <2>1. CASE d # c
    <3>1. pc'[c] = pc[c] /\ rd'[c] = rd[c] /\ UNCHANGED origin
      BY <1>5, <2>1 DEF Reads, Moves, TypeOK, ThreadTypeOK
    <3>2. QED
      BY <1>2, <3>1
  <2>2. CASE d = c
    <3>1. /\ pc[c] = "read" /\ rd'[c] = rd[c] + 1 /\ rd[c] + 1 \in DOMAIN sent[c] /\ UNCHANGED origin
      BY <1>2, <1>5, <2>2 DEF Reads, TypeOK, ThreadTypeOK, NetTypeOK
    <3>2. IsReading(sent[c][rd[c] + 1])
      BY <3>1, OwnReading
    <3>3. pc'[c] = "select"
      BY <1>5, <2>2, <3>2 DEF Reads, Moves, TypeOK, ThreadTypeOK
    <3>4. QED
      BY <1>2, <3>1, <3>3 DEF SavePc
  <2>3. QED
    BY <2>1, <2>2
<1>6. ASSUME NEW d \in Conn, Finds(d) \/ Registers(d) \/ Sends(d)
      PROVE  UNCHANGED origin /\ (pc'[c] # "done" => pc[c] # "done") /\ Settled[c]' = Settled[c]
  <2>1. /\ rd'[c] = rd[c] /\ UNCHANGED origin /\ (pc'[c] # "done" => pc[c] # "done")
        /\ pc'[c] \in SavePc <=> pc[c] \in SavePc
    BY <1>6 DEF Finds, Registers, Sends, Moves, SavePc, TypeOK, ThreadTypeOK
  <2>2. QED
    BY <1>2, <2>1
<1>7. ASSUME NEW d \in Conn, Stores(d)
      PROVE  /\ Count(c, Len(origin))' <= Settled[c]'
             /\ pc'[c] # "done" => Count(c, Len(origin))' = Settled[c]'
  <2>1. CASE d # c
    <3>1. pc'[c] = pc[c] /\ rd'[c] = rd[c]
      BY <1>7, <2>1 DEF Stores, Moves, TypeOK, ThreadTypeOK
    <3>2. Count(c, Len(origin))' = Count(c, Len(origin))
      BY <1>7, <2>1, StoresCount
    <3>3. QED
      BY <1>1, <1>2, <3>1, <3>2
  <2>2. CASE d = c
    <3>1. pc[c] = "insertPacket" /\ pc'[c] = "check" /\ rd'[c] = rd[c]
      BY <1>7, <2>2 DEF Stores, Moves, TypeOK, ThreadTypeOK
    <3>2. Count(c, Len(origin))' = Count(c, Len(origin)) + 1
      BY <1>7, <2>2, StoresCount
    <3>3. QED
      BY <1>1, <1>2, <3>1, <3>2 DEF SavePc
  <2>3. QED
    BY <2>1, <2>2
<1>8. QED
  BY <1>2, <1>3, <1>4, <1>5, <1>6, <1>7, Effect

-----------------------------------------------------------------------------
(* When the statistics were asked for, collected and answered. *)

\* No step of its own gives a client an answer.
LEMMA OwnHearsNothing ==
  ASSUME TypeOK, ClientTypeOK, NEW c \in Conn, OwnStep(c)
  PROVE  inbox'[c] \in {inbox[c], "none"}
BY DialOn, WriteOn, AloneOn, DiesOn, ResetOn
DEF OwnStep, ClientStep, Wrote, Moved, Got

\* A step of c that makes it ask finds its thread in no request.
LEMMA PassesAsking ==
  ASSUME TypeOK, ClientTypeOK, NEW c \in Conn, StaysInStep(c), [SystemNext]_systemVars,
         Passes(c, "request", "reply")
  PROVE  /\ pc'[c] = pc[c] /\ pc[c] \notin StatPc /\ inbox'[c] = "none"
         /\ UNCHANGED <<job, reply, faults, packets, origin>>
<1>1. OwnStep(c)
  BY SystemKinds, ServerKeeps, OwnLeavesOthers DEF Passes, systemVars
<1>2. pc[c] \notin StatPc /\ inbox[c] = "none"
  BY AwaitValues DEF Passes, StaysInStep
<1>3. inbox'[c] = "none"
  BY <1>1, <1>2, OwnHearsNothing
<1>4. QED
  BY <1>1, <1>2, <1>3, OwnLeavesServer DEF threadVars, dbVars

\* What a step does to the times of c's request and of its answer.
LEMMA JobOn ==
  ASSUME TypeOK, NEW c \in Conn, [Next]_vars
  PROVE  \/ JobRests(c) \/ JobEnds(c) \/ JobAsks(c) \/ JobLists(c) \/ JobScans(c) \/ JobReplies(c)
BY RequestEffect DEF NoneAnswered, AllRest, OthersRest

LEMMA JobCut ==
  ASSUME TypeOK, TypeOK', NEW c \in Conn, RequestOK(c), [Next]_vars,
         job[c].cut \/ reply[c].cut => faults > 0
  PROVE  job'[c].cut \/ reply'[c].cut => faults' > 0
<1>1. faults \in Nat /\ faults' \in Nat /\ faults' >= faults /\ job[c] \in Job
  BY MainChange DEF TypeOK, ThreadTypeOK
<1>2. CASE JobRests(c)
  BY <1>1, <1>2 DEF JobRests
<1>3. CASE JobEnds(c)
  BY <1>1, <1>3 DEF JobEnds, NoJob
<1>4. CASE JobAsks(c)
  BY <1>1, <1>4 DEF JobAsks, Job
<1>5. CASE JobLists(c)
  BY <1>1, <1>5 DEF JobLists, Job
<1>6. CASE JobScans(c)
  BY <1>1, <1>6 DEF JobScans, Job
<1>7. CASE JobReplies(c)
  BY <1>1, <1>7 DEF JobReplies, NoJob
<1>8. QED
  BY <1>2, <1>3, <1>4, <1>5, <1>6, <1>7, JobOn

LEMMA JobTime ==
  ASSUME TypeOK, NEW c \in Conn, [Next]_vars, pc[c] = "packets" => job[c].at \in Time,
         pc'[c] = "packets"
  PROVE  job'[c].at \in Time
<1>1. job[c] \in Job
  BY DEF TypeOK, ThreadTypeOK
<1>2. CASE JobRests(c) \/ JobEnds(c) \/ JobAsks(c) \/ JobReplies(c)
  BY <1>2 DEF JobRests, JobEnds, JobAsks, JobReplies, StatPc
<1>3. CASE JobLists(c)
  BY <1>1, <1>3 DEF JobLists, Job
<1>4. CASE JobScans(c)
  BY <1>1, <1>4 DEF JobScans, Job
<1>5. QED
  BY <1>2, <1>3, <1>4, JobOn

\* Statistics come to a client only from its thread's reply.
LEMMA GivesStatistics ==
  ASSUME TypeOK, Connected, ClientTypeOK, NEW c \in Conn, [SystemNext]_systemVars,
         inbox'[c] = "statistics", ~(pc[c] = "packets" /\ pc'[c] = "check")
  PROVE  inbox[c] = "statistics"
<1>1. CASE UNCHANGED systemVars
  BY <1>1 DEF systemVars
<1>2. CASE ServerStep
  <2>1. Served(c)
    BY <1>2, ServerServes
  <2>2. QED
    BY <2>1 DEF Served, GoesOn, Quiet, Welcomes, TakesNext, Answered, Ends, SaysGoodbye, Hears
<1>3. ASSUME NEW d \in Conn, OwnStep(d)
      PROVE  inbox[c] = "statistics"
  BY <1>3, OwnLeavesOthers, OwnHearsNothing
<1>4. QED
  BY <1>1, <1>2, <1>3, SystemKinds

LEMMA TimelyStep ==
  ASSUME TypeOK, TypeOK', Connected, ClientTypeOK, NEW c \in Conn, RequestOK(c), StaysInStep(c),
         Timely(c), [ViewNext]_viewVars
  PROVE  Timely(c)'
<1>1. [SystemNext]_systemVars /\ [Next]_vars
  BY SystemSteps DEF ViewNext, viewVars
<1>2. /\ Len(packets) \in Nat /\ Len(packets') \in Nat /\ Len(packets) <= Len(packets')
  BY <1>1, GrowsStep DEF TypeOK, DatabaseTypeOK, Grows
<1>3. job'[c].cut \/ reply'[c].cut => faults' > 0
  BY <1>1, JobCut DEF Timely
<1>4. pc'[c] = "packets" => job'[c].at \in Time
  BY <1>1, JobTime DEF Timely
<1>5. CASE Passes(c, "request", "reply")
  <2>1. /\ pc'[c] \notin StatPc /\ inbox'[c] = "none" /\ UNCHANGED packets
    BY <1>1, <1>5, PassesAsking
  <2>2. seen'[c] = Len(packets)
    <3>1. at[c] # at'[c]
      BY <1>5 DEF Passes
    <3>2. QED
      BY <1>5, <3>1 DEF ViewNext, Records, viewVars, systemVars
  <2>3. QED
    BY <1>2, <1>3, <1>4, <2>1, <2>2 DEF Timely
<1>6. CASE ~Passes(c, "request", "reply")
  <2>1. seen'[c] = seen[c]
    BY <1>6 DEF ViewNext, Records, viewVars
  <2>2. pc'[c] \in StatPc => seen'[c] <= job'[c].base
    <3>1. CASE JobAsks(c)
      <4>1. job'[c].base = Len(packets)
        BY <3>1 DEF JobAsks, TypeOK, ThreadTypeOK, Job
      <4>2. QED
        BY <2>1, <4>1 DEF Timely
    <3>2. CASE ~JobAsks(c)
      BY <1>1, <2>1, <3>2, RequestOn DEF Timely
    <3>3. QED
      BY <3>1, <3>2
  <2>3. ASSUME inbox'[c] = "statistics"
        PROVE  seen'[c] <= reply'[c].base /\ reply'[c].at \in Time
    <3>1. CASE JobReplies(c)
      BY <2>1, <3>1 DEF JobReplies, Timely, StatPc
    <3>2. CASE ~JobReplies(c)
      <4>1. reply'[c] = reply[c] /\ ~(pc[c] = "packets" /\ pc'[c] = "check")
        BY <1>1, <3>2, RequestOn
      <4>2. inbox[c] = "statistics"
        BY <1>1, <2>3, <4>1, GivesStatistics
      <4>3. QED
        BY <2>1, <4>1, <4>2 DEF Timely
    <3>3. QED
      BY <3>1, <3>2
  <2>4. QED
    BY <1>2, <1>3, <1>4, <2>1, <2>2, <2>3 DEF Timely
<1>7. QED
  BY <1>5, <1>6

-----------------------------------------------------------------------------
(* The invariant of the view. *)

\* All that earlier modules prove of the system's states.
SystemState ==
  /\ TypeOK /\ ClientTypeOK /\ Cursor /\ Connected /\ Readings /\ Requests
  /\ Acknowledged /\ InStep /\ Lawful /\ StoredExactly

\* Every behaviour of the view is one of the system of TZ, so that what is
\* proved of that holds of it.  (seen and told are functions of each step, so
\* they take none away either.)
THEOREM ViewImplementsSystem == ViewSpec => SystemSpec
<1>1. ViewInit => SystemInit
  BY DEF ViewInit
<1>2. [ViewNext]_viewVars => [SystemNext]_systemVars
  BY DEF ViewNext, viewVars
<1>3. QED
  BY <1>1, <1>2, PTL DEF ViewSpec, SystemSpec

LEMMA ViewStates == ViewSpec => []SystemState
<1>1. SystemInv => Acknowledged /\ InStep /\ Lawful /\ StoredExactly
  BY DEF SystemInv, Sees
<1>2. TypeOK /\ ClientTypeOK /\ Cursor /\ Connected /\ Readings /\ Requests
        /\ Acknowledged /\ InStep /\ Lawful /\ StoredExactly => SystemState
  BY DEF SystemState
<1>3. QED
  BY <1>1, <1>2, ViewImplementsSystem, SystemInvCorrect, AcknowledgedCorrect,
     SystemImplementsServer, TypeCorrect, ReadingsCorrect, RequestsCorrect, PTL

LEMMA InitView == ViewInit => ViewInv
<1> SUFFICES ASSUME ViewInit
             PROVE  ViewInv
  OBVIOUS
<1>1. /\ origin = <<>> /\ packets = <<>> /\ faults = 0
      /\ \A c \in Conn : /\ pc[c] = "none" /\ rd[c] = 0 /\ job[c] = NoJob /\ reply[c] = NoReply
                         /\ inbox[c] = "none" /\ seen[c] = 0
  BY DEF ViewInit, SystemInit, Init, DatabaseInit, C!Init
<1>2. InSequence
  BY <1>1 DEF InSequence
<1>3. ASSUME NEW c \in Conn
      PROVE  /\ Count(c, Len(origin)) <= Settled[c]
             /\ pc[c] # "done" => Count(c, Len(origin)) = Settled[c]
             /\ Timely(c)
  <2>1. Count(c, Len(origin)) = 0
    BY <1>1, CountStep
  <2>2. Settled[c] = 0
    BY <1>1 DEF Settled, SavePc
  <2>3. Timely(c)
    BY <1>1 DEF Timely, NoJob, NoReply, StatPc
  <2>4. QED
    BY <2>1, <2>2, <2>3
<1>4. QED
  BY <1>2, <1>3 DEF ViewInv, Tallied

\* The rows are, in the table and in time, what the users are promised of them.
THEOREM ViewInvCorrect == ViewSpec => []ViewInv
<1>1. SystemState /\ SystemState' /\ ViewInv /\ [ViewNext]_viewVars => ViewInv'
  <2> SUFFICES ASSUME SystemState, SystemState', ViewInv, [ViewNext]_viewVars
               PROVE  ViewInv'
    OBVIOUS
  <2>1. [Next]_vars
    BY SystemSteps DEF ViewNext, viewVars
  <2>2. \A d \in Conn : OwnPackets(d)
    BY DEF SystemState, Lawful
  <2>3. InSequence' /\ Tallied'
    BY <2>1, <2>2, InSequenceStep, TalliedStep DEF SystemState, ViewInv
  <2>4. ASSUME NEW c \in Conn
        PROVE  Timely(c)'
    BY TimelyStep DEF SystemState, ViewInv, Requests, InStep
  <2>5. QED
    BY <2>3, <2>4 DEF ViewInv
<1>2. QED
  BY <1>1, InitView, ViewStates, PTL DEF ViewSpec

-----------------------------------------------------------------------------
(* What the statistics are made of. *)

Named(id, d) == id \in DOMAIN clients /\ clients[id] = CStr[UuidOf[d]]

\* A row is registered under the name of the client who wrote it.
LEMMA RowOf ==
  ASSUME SystemState, InSequence, NEW n \in 1..Len(packets)
  PROVE  /\ n \in DOMAIN packets /\ n \in DOMAIN origin /\ origin[n][1] \in Conn
         /\ origin[n][2] = Count(origin[n][1], n)
         /\ Named(packets[n].client_id, origin[n][1])
         /\ Columns(packets[n]) = Columns(sent[origin[n][1]][origin[n][2]])
<1>1. n \in DOMAIN packets /\ n \in DOMAIN origin
  BY DEF SystemState, Readings, Attribution, TypeOK, DatabaseTypeOK
<1>2. /\ origin[n][1] \in Conn /\ origin[n][2] \in 1..Len(sent[origin[n][1]])
  BY <1>1, OriginType DEF SystemState, Readings
<1>3. origin[n][2] \in DOMAIN sent[origin[n][1]]
  BY <1>2 DEF SystemState, TypeOK, NetTypeOK
<1>4. Mode[origin[n][1]] = "data" /\ origin[n][2] = Count(origin[n][1], n)
  BY <1>1 DEF InSequence
<1>5. sent[origin[n][1]][origin[n][2]].uuid = UuidOf[origin[n][1]]
  BY <1>2, <1>3, <1>4, OwnReading DEF SystemState, Lawful
<1>6. Named(packets[n].client_id, origin[n][1])
  BY <1>1, <1>5 DEF Named, SystemState, Readings, Attribution
<1>7. Columns(packets[n]) = Columns(sent[origin[n][1]][origin[n][2]])
  BY <1>1 DEF SystemState, StoredExactly, Columns
<1>8. QED
  BY <1>1, <1>2, <1>4, <1>6, <1>7

\* No two clients have one name, and no name two rows in the table of clients.
LEMMA NamesDiffer ==
  ASSUME SystemState, NEW d \in Conn, NEW id, Named(id, d)
  PROVE  /\ \A e \in Conn : Named(id, e) => e = d
         /\ \A other : Named(other, d) => other = id
<1>1. \A e \in Conn : Named(id, e) => e = d
  BY UuidAssumption DEF Named
<1>2. \A other : Named(other, d) => other = id
  BY DEF Named, SystemState, Readings, UniqueClients
<1>3. QED
  BY <1>1, <1>2

\* The first n readings of d, as rows.
Taken(d, n) == [k \in 1..n |-> Columns(sent[d][k])]

LEMMA TakenAppend ==
  ASSUME NEW d, NEW n \in Nat
  PROVE  Taken(d, 0) = <<>> /\ Taken(d, n + 1) = Append(Taken(d, n), Columns(sent[d][n + 1]))
<1>1. Taken(d, 0) = <<>>
  BY DEF Taken
<1>2. Len(Taken(d, n)) = n /\ DOMAIN Taken(d, n) = 1..n
  BY DEF Taken
<1>3. Append(Taken(d, n), Columns(sent[d][n + 1])) =
        [k \in 1..(n + 1) |-> IF k = n + 1 THEN Columns(sent[d][n + 1]) ELSE Taken(d, n)[k]]
  BY <1>2
<1>4. QED
  BY <1>1, <1>3 DEF Taken

\* A scan for one client yields its first readings, as many as were stored.
LEMMA ScanTakes ==
  ASSUME SystemState, InSequence, NEW d \in Conn, NEW id, Named(id, d), NEW n \in 0..Len(packets)
  PROVE  ClientRows(id, n) = Taken(d, Count(d, n))
<1> DEFINE T == {m \in Nat : m <= Len(packets) => Selected(id)[m] = Taken(d, Count(d, m))}
<1>1. Len(packets) \in Nat /\ DatabaseTypeOK
  BY DEF SystemState, TypeOK, DatabaseTypeOK
<1>2. 0 \in T
  BY <1>1, SelectedStep, CountStep, TakenAppend
<1>3. ASSUME NEW m \in Nat, m \in T
      PROVE  m + 1 \in T
  <2> SUFFICES ASSUME m + 1 <= Len(packets)
               PROVE  Selected(id)[m + 1] = Taken(d, Count(d, m + 1))
    OBVIOUS
  <2>1. Selected(id)[m] = Taken(d, Count(d, m))
    BY <1>1, <1>3
  <2>2. m + 1 \in 1..Len(packets) /\ (m + 1) - 1 = m
    BY <1>1
  <2>3. Selected(id)[m + 1] =
          IF packets[m + 1].client_id = id THEN Append(Selected(id)[m], Columns(packets[m + 1]))
          ELSE Selected(id)[m]
    BY <1>1, <2>2, SelectedStep
  <2>4. /\ origin[m + 1][1] \in Conn /\ origin[m + 1][2] = Count(origin[m + 1][1], m + 1)
        /\ Named(packets[m + 1].client_id, origin[m + 1][1])
        /\ Columns(packets[m + 1]) = Columns(sent[origin[m + 1][1]][origin[m + 1][2]])
    BY <2>2, RowOf
  <2>5. packets[m + 1].client_id = id <=> origin[m + 1][1] = d
    BY <2>4, NamesDiffer
  <2>6. CASE origin[m + 1][1] = d
    <3>1. Count(d, m + 1) = Count(d, m) + 1 /\ Count(d, m) \in Nat
      BY <2>6, CountStep
    <3>2. Columns(packets[m + 1]) = Columns(sent[d][Count(d, m) + 1])
      BY <2>4, <2>6, <3>1
    <3>3. Selected(id)[m + 1] = Append(Taken(d, Count(d, m)), Columns(sent[d][Count(d, m) + 1]))
      BY <2>1, <2>3, <2>5, <2>6, <3>2
    <3>4. QED
      BY <3>1, <3>3, TakenAppend
  <2>7. CASE origin[m + 1][1] # d
    BY <2>1, <2>3, <2>5, <2>7, CountStep
  <2>8. QED
    BY <2>6, <2>7
<1>4. n \in T
  <2> HIDE DEF T
  <2>1. QED
    BY <1>1, <1>2, <1>3, SetInduction
<1>5. QED
  BY <1>4 DEF ClientRows

\* Service's definitions of the arithmetic are those of Statistics.
LEMMA SameEntry ==
  ASSUME NEW u, NEW rows, NEW now
  PROVE  /\ Offer!Entry(u, rows, now) = Entry(u, rows, now)
         /\ Offer!Reported(rows, now) = Reported(rows, now)
<1>1. Offer!Entry(u, rows, now) = Entry(u, rows, now)
  BY DEF Offer!Entry, Entry, Offer!Average, Average, Offer!Window, Window, Offer!Turns, Turns,
     Offer!EmptyWindow, EmptyWindow, Offer!Accumulate, Accumulate, Offer!Abs, Abs
<1>2. Offer!Reported(rows, now) = Reported(rows, now)
  BY DEF Offer!Reported, Reported, Offer!Window, Window, Offer!Turns, Turns,
     Offer!EmptyWindow, EmptyWindow, Offer!Accumulate, Accumulate, Offer!Abs, Abs
<1>3. QED
  BY <1>1, <1>2

\* Service's prefixes are the rows of data clients.
LEMMA PrefixTaken ==
  ASSUME SystemState, InSequence, NEW d \in Conn, NEW n \in 0..Len(packets)
  PROVE  Offer!Prefix(d, Count(d, n)) = Taken(d, Count(d, n))
<1>1. CASE Mode[d] = "data"
  BY <1>1 DEF Offer!Prefix, Taken, Columns
<1>2. CASE Mode[d] # "data"
  <2>1. \A i \in 1..n : i \in DOMAIN origin
    BY DEF SystemState, Readings, Attribution, TypeOK, DatabaseTypeOK
  <2>2. RowsOf(d, n) = {}
    BY <1>2, <2>1 DEF RowsOf, InSequence
  <2>3. Count(d, n) = 0
    BY <2>2, FS_EmptySet DEF Count
  <2>4. QED
    BY <2>3 DEF Offer!Prefix, Taken
<1>3. QED
  BY <1>1, <1>2

\* How far the scans of a reply got.
UpTo(r) ==
  [d \in Conn |-> IF \E s \in r.scans : Named(s.id, d)
                  THEN Count(d, (CHOOSE s \in r.scans : Named(s.id, d)).upTo) ELSE 0]

LEMMA UpToScan ==
  ASSUME SystemState, NEW c \in Conn, NEW s \in reply[c].scans, NEW d \in Conn, Named(s.id, d)
  PROVE  UpTo(reply[c])[d] = Count(d, s.upTo) /\ s.upTo \in 0..Len(packets)
<1>1. SoundScans(reply[c].scans) /\ reply[c].scans \subseteq Scan /\ Len(packets) \in Nat
  BY DEF SystemState, Requests, RequestOK, ReplyOK, TypeOK, ThreadTypeOK, Reply, DatabaseTypeOK
<1>2. \A t \in reply[c].scans : Named(t.id, d) => t = s
  BY <1>1, NamesDiffer DEF SoundScans
<1>3. (CHOOSE t \in reply[c].scans : Named(t.id, d)) = s
  BY <1>2
<1>4. s.upTo \in 0..Len(packets)
  BY <1>1 DEF SoundScans, Scan
<1>5. QED
  BY <1>3, <1>4 DEF UpTo

\* A scan that has something to report found a row, and its client.
LEMMA ReportedNamed ==
  ASSUME SystemState, InSequence, NEW id, NEW n \in 0..Len(packets), NEW now \in Int,
         Reported(ClientRows(id, n), now)
  PROVE  \E d \in Conn : Named(id, d)
<1>1. PICK from \in Int : Window(ClientRows(id, n), from).countX > 0
  BY IntervalAssumption DEF Reported
<1>2. IsFiniteSet(RecentOf(id, from, n)) /\ Cardinality(RecentOf(id, from, n)) > 0
  BY <1>1, ClientRowsCount DEF SystemState, TypeOK
<1>3. PICK i \in RecentOf(id, from, n) : TRUE
  BY <1>2, FS_EmptySet
<1>4. i \in 1..Len(packets) /\ packets[i].client_id = id
  BY <1>3 DEF RecentOf, SystemState, TypeOK, DatabaseTypeOK
<1>5. QED
  BY <1>4, RowOf

\* A reply reports a prefix of each client's readings, and nothing else.
LEMMA StatisticsReport ==
  ASSUME SystemState, InSequence, NEW c \in Conn
  PROVE  Statistics(reply[c]) = Offer!Report(UpTo(reply[c]), reply[c].at)
<1> DEFINE r == reply[c]
           Part(d) == Offer!Prefix(d, UpTo(r)[d])
<1>1. r.at \in Int /\ SoundScans(r.scans) /\ Len(packets) \in Nat
  BY DEF SystemState, Requests, RequestOK, ReplyOK, TypeOK, ThreadTypeOK, Reply, DatabaseTypeOK
<1>2. ASSUME NEW s \in r.scans, NEW d \in Conn, Named(s.id, d)
      PROVE  ClientRows(s.id, s.upTo) = Part(d)
  BY <1>2, UpToScan, ScanTakes, PrefixTaken
<1>3. Offer!Report(UpTo(r), r.at) =
        {Entry(CStr[UuidOf[d]], Part(d), r.at) : d \in {e \in Conn : Reported(Part(e), r.at)}}
  BY SameEntry DEF Offer!Report
<1>4. ASSUME NEW e \in Statistics(r)
      PROVE  e \in Offer!Report(UpTo(r), r.at)
  <2>1. PICK s \in r.scans : /\ Reported(ClientRows(s.id, s.upTo), r.at)
                             /\ e = Entry(clients[s.id], ClientRows(s.id, s.upTo), r.at)
    BY <1>4 DEF Statistics
  <2>2. s.upTo \in 0..Len(packets)
    BY <1>1 DEF SoundScans, SystemState, TypeOK, ThreadTypeOK, Reply, Scan
  <2>3. PICK d \in Conn : Named(s.id, d)
    BY <1>1, <2>1, <2>2, ReportedNamed
  <2>4. clients[s.id] = CStr[UuidOf[d]] /\ ClientRows(s.id, s.upTo) = Part(d)
    BY <1>2, <2>3 DEF Named
  <2>5. QED
    BY <1>3, <2>1, <2>4
<1>5. ASSUME NEW e \in Offer!Report(UpTo(r), r.at)
      PROVE  e \in Statistics(r)
  <2>1. PICK d \in Conn : Reported(Part(d), r.at) /\ e = Entry(CStr[UuidOf[d]], Part(d), r.at)
    BY <1>3, <1>5
  <2>2. PICK s \in r.scans : Named(s.id, d)
    <3>1. SUFFICES ASSUME ~ \E s \in r.scans : Named(s.id, d)
                   PROVE  FALSE
      OBVIOUS
    <3>2. UpTo(r)[d] = 0
      BY <3>1 DEF UpTo
    <3>3. Part(d) = <<>>
      BY <3>2 DEF Offer!Prefix
    <3>4. QED
      BY <1>1, <2>1, <3>3, WindowEmpty, IntervalAssumption DEF Reported, EmptyWindow
  <2>3. clients[s.id] = CStr[UuidOf[d]] /\ ClientRows(s.id, s.upTo) = Part(d)
    BY <1>2, <2>2 DEF Named
  <2>4. QED
    BY <2>1, <2>2, <2>3 DEF Statistics
<1>6. QED
  BY <1>4, <1>5

\* Every scan is of what was stored by now.
LEMMA UpToMarks ==
  ASSUME SystemState, NEW c \in Conn
  PROVE  UpTo(reply[c]) \in Offer!Marks
<1> DEFINE r == reply[c]
           N == Len(origin)
<1>1. N \in Nat /\ N = Len(packets)
  BY DEF SystemState, Readings, Attribution, TypeOK
<1>2. ASSUME NEW d \in Conn
      PROVE  UpTo(r)[d] \in 0..Count(d, N)
  <2>1. CASE \E s \in r.scans : Named(s.id, d)
    <3>1. PICK s \in r.scans : Named(s.id, d)
      BY <2>1
    <3>2. UpTo(r)[d] = Count(d, s.upTo) /\ s.upTo \in 0..N
      BY <1>1, <3>1, UpToScan
    <3>3. QED
      BY <1>1, <3>2, CountMonotone
  <2>2. CASE ~ \E s \in r.scans : Named(s.id, d)
    <3>1. UpTo(r)[d] = 0
      BY <2>2 DEF UpTo
    <3>2. QED
      BY <1>1, <3>1, CountStep
  <2>3. QED
    BY <2>1, <2>2
<1> DEFINE Counts == UNION {0..Count(d, N) : d \in Conn}
<1>3. UpTo(r) \in [Conn -> Counts]
  <2>1. \A d \in Conn : UpTo(r)[d] \in Counts
    BY <1>2
  <2> HIDE DEF Counts
  <2>2. QED
    BY <2>1 DEF UpTo
<1>4. \A d \in Conn : UpTo(r)[d] <= Count(d, N)
  BY <1>2
<1>5. QED
  BY <1>3, <1>4 DEF Offer!Marks

\* What was stored when c asked is in what the scans of its reply found.
LEMMA UpToSince ==
  ASSUME SystemState, InSequence, NEW c \in Conn, ~reply[c].cut, NEW m \in 0..reply[c].base,
         NEW d \in Conn
  PROVE  Count(d, m) <= UpTo(reply[c])[d]
<1> DEFINE r == reply[c]
<1>1. r.base \in Nat /\ r.base <= Len(packets) /\ Len(packets) \in Nat /\ ReplyOK(r)
  <2>1. r \in Reply /\ Len(packets) \in Nat
    BY DEF SystemState, TypeOK, ThreadTypeOK, DatabaseTypeOK
  <2>2. ReplyOK(r)
    BY DEF SystemState, Requests, RequestOK
  <2>3. QED
    BY <2>1, <2>2 DEF ReplyOK, Reply
<1>2. CASE \E s \in r.scans : Named(s.id, d)
  <2>1. PICK s \in r.scans : Named(s.id, d)
    BY <1>2
  <2>2. UpTo(r)[d] = Count(d, s.upTo) /\ s.upTo \in Nat /\ m <= s.upTo
    BY <1>1, <2>1, UpToScan DEF ReplyOK
  <2>3. QED
    BY <2>2, CountMonotone
<1>3. CASE ~ \E s \in r.scans : Named(s.id, d)
  <2>1. ASSUME NEW i \in 1..m, origin[i][1] = d
        PROVE  FALSE
    <3>1. i \in 1..Len(packets) /\ i \in 1..r.base
      BY <1>1
    <3>2. Named(packets[i].client_id, d)
      BY <2>1, <3>1, RowOf
    <3>3. \E s \in r.scans : s.id = packets[i].client_id
      BY <1>1, <3>1 DEF ReplyOK
    <3>4. QED
      BY <1>3, <3>2, <3>3
  <2>2. RowsOf(d, m) = {}
    BY <2>1 DEF RowsOf
  <2>3. Count(d, m) = 0 /\ UpTo(r)[d] = 0
    BY <1>3, <2>2, FS_EmptySet DEF Count, UpTo
  <2>4. QED
    BY <2>3
<1>4. QED
  BY <1>2, <1>3

-----------------------------------------------------------------------------
(* Each step of the system is one that Service allows. *)

LEMMA PhaseValues ==
  ASSUME NEW mode \in {"data", "statistics"}
  PROVE  /\ \A here \in {"off", "exited", "killed"} : PhaseOf(here, mode) = here
         /\ \A here \in {"failed", "aborted"} : PhaseOf(here, mode) = "failed"
         /\ \A here \in {"upgrade", "handshake", "body", "request"} : PhaseOf(here, mode) = "working"
         /\ PhaseOf("reply", mode) = "asking"
         /\ \A here \in {"close", "closing"} :
              PhaseOf(here, mode) = IF mode = "data" THEN "working" ELSE "told"
BY DEF PhaseOf

\* What a client's step leaves as it is.
OthersIdle(c) ==
  \A d \in Conn \ {c} : /\ at'[d] = at[d] /\ sent'[d] = sent[d] /\ lost'[d] = lost[d]
                        /\ seen'[d] = seen[d] /\ told'[d] = told[d]

ServerRests == UNCHANGED <<origin, faults, needExit, main, runs>>

LEMMA OwnRests ==
  ASSUME SystemState, NEW c \in Conn, OwnStep(c), [ViewNext]_viewVars
  PROVE  OthersIdle(c) /\ ServerRests
<1>1. ASSUME NEW d \in Conn \ {c}
      PROVE  at'[d] = at[d] /\ sent'[d] = sent[d]
  BY OwnLeavesOthers DEF SystemState
<1>2. ASSUME NEW d \in Conn \ {c}
      PROVE  lost'[d] = lost[d]
  BY DEF SystemState, ClientTypeOK, OwnStep, ClientStep, Dials, Upgrades, SendsReading, Asks, Closes,
     Alone, Dies, ResetArrives, LinkBreaks, ToServer
<1>3. ASSUME NEW d \in Conn \ {c}
      PROVE  seen'[d] = seen[d] /\ told'[d] = told[d]
  BY <1>1 DEF ViewNext, Records, viewVars, Passes
<1>4. UNCHANGED <<procVars, origin, faults>>
  BY OwnLeavesServer
<1>5. ServerRests
  BY <1>4 DEF ServerRests, procVars
<1>6. QED
  BY <1>1, <1>2, <1>3, <1>5 DEF OthersIdle

\* What of the view stays as it is when nothing is recorded, sent, or stored.
StaysPut(c) ==
  /\ OthersIdle(c) /\ ServerRests
  /\ sent'[c] = sent[c] /\ (Mode[c] = "data" => lost'[c] = lost[c])
  /\ seen'[c] = seen[c] /\ told'[c] = told[c]

LEMMA PutPhase ==
  ASSUME NEW c \in Conn, StaysPut(c)
  PROVE  Offer!OnlyPhase
<1>1. \A d \in Conn : /\ sent'[d] = sent[d] /\ (Mode[d] = "data" => lost'[d] = lost[d])
                      /\ seen'[d] = seen[d] /\ told'[d] = told[d]
  BY DEF StaysPut, OthersIdle
<1>2. \A d \in Conn : /\ Count(d, Len(origin))' = Count(d, Len(origin))
                      /\ \A n : Count(d, n)' = Count(d, n)
  BY RestCount DEF StaysPut, ServerRests
<1>3. \A d, e \in Conn : Count(d, seen[e])' = Count(d, seen[e])
  BY <1>1, <1>2
<1>4. (faults > 0)' = (faults > 0) /\ Cause' = Cause
  BY DEF StaysPut, ServerRests, Cause
<1>5. QED
  BY <1>1, <1>2, <1>3, <1>4 DEF Offer!OnlyPhase

LEMMA MovesPhase ==
  ASSUME NEW c \in Conn, OthersIdle(c), NEW here, NEW next, at[c] = here, at'[c] = next,
         PhaseOf(here, Mode[c]) # PhaseOf(next, Mode[c])
  PROVE  Offer!Moves(c, PhaseOf(here, Mode[c]), PhaseOf(next, Mode[c]))
BY DEF OthersIdle, Offer!Moves

\* A step in which nothing of the view changes.
LEMMA PutStutters ==
  ASSUME NEW c \in Conn, StaysPut(c), PhaseOf(at'[c], Mode[c]) = PhaseOf(at[c], Mode[c])
  PROVE  UNCHANGED Offer!vars
<1>1. \A d \in Conn : PhaseOf(at'[d], Mode[d]) = PhaseOf(at[d], Mode[d])
  BY DEF StaysPut, OthersIdle
<1>2. QED
  BY <1>1, PutPhase DEF Offer!vars, Offer!OnlyPhase

\* A client whose link holds finds its thread there, unless something happened
\* to the server.
LEMMA LiveUnlessHindered ==
  ASSUME SystemState, NEW c \in Conn, at[c] \in {"upgrade", "body", "close"}, ~Live(c)
  PROVE  Offer!Hindered(c)
<1> SUFFICES ASSUME c \notin Fragile, ~Cause
             PROVE  FALSE
  BY DEF Offer!Hindered
<1>1. EndsWell(c) /\ Acknowledges(c)
  BY DEF SystemState, Lawful, Acknowledged
<1>2. pc[c] # "done" /\ peer[c] \notin {"none", "deaf", "closed", "reset"}
  BY <1>1, AwaitValues DEF EndsWell, Acknowledges
<1>3. QED
  BY <1>2 DEF Live, SystemState, TypeOK, NetTypeOK

\* An error has a cause, too.
LEMMA FailsHindered ==
  ASSUME SystemState, SystemState', NEW c \in Conn, ServerRests, peer'[c] = peer[c],
         at[c] \in C!Writing \cup DOMAIN C!Await, at'[c] \in {"failed", "aborted"}
  PROVE  Offer!Hindered(c)
<1> SUFFICES ASSUME c \notin Fragile, ~Cause
             PROVE  FALSE
  BY DEF Offer!Hindered
<1>1. ~Cause'
  BY DEF ServerRests, Cause
<1>2. EndsWell(c)' /\ Acknowledges(c)
  BY <1>1 DEF SystemState, Lawful, Acknowledged
<1>3. QED
  BY <1>2 DEF EndsWell, Acknowledges

\* What a write does to the connection.
LEMMA WriteArrives ==
  ASSUME SystemState, NEW c \in Conn,
         Upgrades(c) \/ SendsReading(c) \/ Asks(c) \/ Closes(c)
  PROVE  \/ Live(c) /\ ~lost[c] /\ lost'[c] = lost[c]
         \/ ~Live(c) /\ lost'[c] = TRUE /\ sent'[c] = sent[c]
<1>1. lost \in [Conn -> BOOLEAN]
  BY DEF SystemState, ClientTypeOK
<1>2. \/ Live(c) /\ lost'[c] = lost[c]
      \/ ~Live(c) /\ lost'[c] = TRUE /\ sent'[c] = sent[c]
  BY <1>1 DEF Upgrades, SendsReading, Asks, Closes, ToServer, vars, netVars
<1>3. Live(c) => ~lost[c]
  BY DEF Live, SystemState, Acknowledged, Acknowledges
<1>4. QED
  BY <1>2, <1>3

\* A write that is no reading, or that is lost, of a client that goes on.
LEMMA WriteLoses ==
  ASSUME SystemState, NEW c \in Conn, OthersIdle(c), ServerRests, sent'[c] = sent[c],
         Upgrades(c) \/ SendsReading(c) \/ Closes(c), at[c] \in {"upgrade", "body", "close"},
         seen'[c] = seen[c], told'[c] = told[c],
         PhaseOf(at'[c], Mode[c]) = PhaseOf(at[c], Mode[c]),
         Mode[c] = "data" => PhaseOf(at[c], Mode[c]) = "working"
  PROVE  Offer!Lose(c) \/ UNCHANGED Offer!vars
<1>1. CASE Mode[c] = "data" => lost'[c] = lost[c]
  BY <1>1, PutStutters DEF StaysPut
<1>2. CASE Mode[c] = "data" /\ lost'[c] # lost[c]
  <2>1. lost'[c] = TRUE /\ Offer!Hindered(c)
    BY <1>2, WriteArrives, LiveUnlessHindered
  <2>2. /\ \A d \in Conn : /\ sent'[d] = sent[d] /\ seen'[d] = seen[d] /\ told'[d] = told[d]
                           /\ PhaseOf(at'[d], Mode[d]) = PhaseOf(at[d], Mode[d])
        /\ \A d \in Conn \ {c} : lost'[d] = lost[d]
    BY DEF OthersIdle
  <2>3. /\ \A d \in Conn : Count(d, Len(origin))' = Count(d, Len(origin))
        /\ \A d, e \in Conn : Count(d, seen[e])' = Count(d, seen[e])
    BY <2>2, RestCount DEF ServerRests
  <2>4. (faults > 0)' = (faults > 0) /\ Cause' = Cause
    BY DEF ServerRests, Cause
  <2>5. [d \in Conn |-> Mode[d] = "data" /\ lost[d]]' =
          [[d \in Conn |-> Mode[d] = "data" /\ lost[d]] EXCEPT ![c] = TRUE]
    BY <1>2, <2>1, <2>2
  <2>6. QED
    BY <1>2, <2>1, <2>2, <2>3, <2>4, <2>5 DEF Offer!Lose
<1>3. QED
  BY <1>1, <1>2

\* A reading that is written and arrives.
LEMMA WriteWrites ==
  ASSUME SystemState, NEW c \in Conn, OthersIdle(c), ServerRests,
         Mode[c] = "data", ~lost[c], lost'[c] = lost[c],
         NEW p \in OwnReadings(c), sent'[c] = Append(sent[c], p),
         seen'[c] = seen[c], told'[c] = told[c],
         PhaseOf(at[c], Mode[c]) = "working", PhaseOf(at'[c], Mode[c]) = "working"
  PROVE  Offer!Write(c)
<1>1. /\ \A d \in Conn : /\ seen'[d] = seen[d] /\ told'[d] = told[d] /\ lost'[d] = lost[d]
                         /\ PhaseOf(at'[d], Mode[d]) = PhaseOf(at[d], Mode[d])
      /\ \A d \in Conn \ {c} : sent'[d] = sent[d]
  BY DEF OthersIdle
<1>2. /\ \A d \in Conn : Count(d, Len(origin))' = Count(d, Len(origin))
      /\ \A d, e \in Conn : Count(d, seen[e])' = Count(d, seen[e])
  BY <1>1, RestCount DEF ServerRests
<1>3. (faults > 0)' = (faults > 0) /\ Cause' = Cause
  BY DEF ServerRests, Cause
<1>4. [d \in Conn |-> IF Mode[d] = "data" THEN sent[d] ELSE <<>>]' =
        [[d \in Conn |-> IF Mode[d] = "data" THEN sent[d] ELSE <<>>] EXCEPT ![c] = Append(@, p)]
  BY <1>1
<1>5. \E r \in [d \in Conn |-> OwnReadings(d)][c] :
        [d \in Conn |-> IF Mode[d] = "data" THEN sent[d] ELSE <<>>]' =
          [[d \in Conn |-> IF Mode[d] = "data" THEN sent[d] ELSE <<>>] EXCEPT ![c] = Append(@, r)]
  BY <1>4
<1>6. [d \in Conn |-> PhaseOf(at[d], Mode[d])]' = [d \in Conn |-> PhaseOf(at[d], Mode[d])]
  BY <1>1
<1>7. [d \in Conn |-> Mode[d] = "data" /\ lost[d]]' = [d \in Conn |-> Mode[d] = "data" /\ lost[d]]
  BY <1>1
<1>8. [d \in Conn |-> Count(d, Len(origin))]' = [d \in Conn |-> Count(d, Len(origin))]
  BY <1>2
<1>9. [d \in Conn |-> [e \in Conn |-> Count(e, seen[d])]]' =
        [d \in Conn |-> [e \in Conn |-> Count(e, seen[d])]]
  BY <1>2
<1>10. [d \in Conn |-> told[d]]' = [d \in Conn |-> told[d]]
  BY <1>1
<1>11. /\ [d \in Conn |-> PhaseOf(at[d], Mode[d])][c] = "working"
       /\ ~[d \in Conn |-> Mode[d] = "data" /\ lost[d]][c]
  OBVIOUS
<1>12. QED
  BY <1>3, <1>5, <1>6, <1>7, <1>8, <1>9, <1>10, <1>11, ZenonT(60) DEF Offer!Write

\* What a step records: only a request and a reply do.
LEMMA RecordsOn ==
  ASSUME [ViewNext]_viewVars, NEW c \in Conn
  PROVE  /\ ~Passes(c, "request", "reply") => seen'[c] = seen[c]
         /\ ~Passes(c, "reply", "close") => told'[c] = told[c]
         /\ Passes(c, "request", "reply") => seen'[c] = Len(packets)
         /\ Passes(c, "reply", "close") => told'[c] = Statistics(reply[c])
<1>1. CASE UNCHANGED viewVars
  BY <1>1 DEF viewVars, systemVars, Passes
<1>2. CASE ViewNext
  BY <1>2 DEF ViewNext, Records
<1>3. QED
  BY <1>1, <1>2

\* What a client's step leaves of the rows and of the server.
LEMMA SameRows ==
  ASSUME ServerRests
  PROVE  /\ \A d, n : Count(d, n)' = Count(d, n)
         /\ [d \in Conn |-> Count(d, Len(origin))]' = [d \in Conn |-> Count(d, Len(origin))]
         /\ (faults > 0)' = (faults > 0) /\ Cause' = Cause
BY RestCount DEF ServerRests, Cause

\* A request: what is stored at this moment will be in the statistics.
LEMMA AskAsks ==
  ASSUME SystemState, NEW c \in Conn, Asks(c), OthersIdle(c), ServerRests, [ViewNext]_viewVars
  PROVE  Offer!Ask(c)
<1>1. at[c] = "request" /\ at'[c] = "reply"
  BY WriteOn DEF SystemState, Wrote, Moved
<1>2. Mode[c] = "statistics"
  BY <1>1 DEF SystemState, InStep, StaysInStep
<1>3. PhaseOf(at[c], Mode[c]) = "working" /\ PhaseOf(at'[c], Mode[c]) = "asking"
  BY <1>1, <1>2, PhaseValues
<1>4. Offer!Moves(c, "working", "asking")
  BY <1>1, <1>3, MovesPhase
<1>5. seen'[c] = Len(packets) /\ told'[c] = told[c] /\ Len(packets) = Len(origin)
  BY <1>1, RecordsOn DEF Passes, SystemState, Readings, Attribution
<1>6. [d \in Conn |-> IF Mode[d] = "data" THEN sent[d] ELSE <<>>]' =
        [d \in Conn |-> IF Mode[d] = "data" THEN sent[d] ELSE <<>>]
  BY <1>2 DEF OthersIdle
<1>7. [d \in Conn |-> Mode[d] = "data" /\ lost[d]]' = [d \in Conn |-> Mode[d] = "data" /\ lost[d]]
  BY <1>2 DEF OthersIdle
<1>8. [d \in Conn |-> told[d]]' = [d \in Conn |-> told[d]]
  BY <1>5 DEF OthersIdle
<1>9. [d \in Conn |-> [e \in Conn |-> Count(e, seen[d])]]' =
        [[d \in Conn |-> [e \in Conn |-> Count(e, seen[d])]] EXCEPT
           ![c] = [e \in Conn |-> Count(e, Len(origin))]]
  <2>1. \A d \in Conn \ {c} : seen'[d] = seen[d]
    BY DEF OthersIdle
  <2>2. \A d, e \in Conn : Count(e, seen[d])' =
          IF d = c THEN Count(e, Len(origin)) ELSE Count(e, seen[d])
    BY <1>5, <2>1, SameRows
  <2>3. QED
    BY <2>2
<1>10. QED
  BY <1>2, <1>4, <1>6, <1>7, <1>8, <1>9, SameRows, ZenonT(60) DEF Offer!Ask

\* A reply: the statistics are those of prefixes that had all that was stored
\* when the client asked.
LEMMA TellTells ==
  ASSUME SystemState, ViewInv, NEW c \in Conn, Got(c, "reply", "close"), OthersIdle(c), ServerRests,
         sent'[c] = sent[c], lost'[c] = lost[c], [ViewNext]_viewVars
  PROVE  Offer!Tell(c)
<1>1. at[c] = "reply" /\ at'[c] = "close" /\ inbox[c] = "statistics"
  BY AwaitValues DEF Got
<1>2. Mode[c] = "statistics"
  BY <1>1 DEF SystemState, InStep, StaysInStep
<1>3. PhaseOf(at[c], Mode[c]) = "asking" /\ PhaseOf(at'[c], Mode[c]) = "told"
  BY <1>1, <1>2, PhaseValues
<1>4. Offer!Moves(c, "asking", "told")
  BY <1>1, <1>3, MovesPhase
<1>5. seen'[c] = seen[c] /\ told'[c] = Statistics(reply[c])
  BY <1>1, RecordsOn DEF Passes
<1>6. InSequence /\ Timely(c)
  BY DEF ViewInv
<1>7. told'[c] = Offer!Report(UpTo(reply[c]), reply[c].at) /\ UpTo(reply[c]) \in Offer!Marks
  BY <1>5, <1>6, StatisticsReport, UpToMarks
<1>8. reply[c].at \in Time
  BY <1>1, <1>6 DEF Timely
<1>9. faults > 0 \/ \A d \in Conn :
        [e \in Conn |-> [d_1 \in Conn |-> Count(d_1, seen[e])]][c][d] <= UpTo(reply[c])[d]
  <2> SUFFICES ASSUME ~(faults > 0), NEW d \in Conn
               PROVE  Count(d, seen[c]) <= UpTo(reply[c])[d]
    OBVIOUS
  <2>1. ~reply[c].cut /\ seen[c] \in 0..Len(packets) /\ seen[c] <= reply[c].base
    BY <1>1, <1>6 DEF Timely
  <2>2. reply[c].base \in Nat /\ Len(packets) \in Nat
    BY DEF SystemState, TypeOK, ThreadTypeOK, Reply, DatabaseTypeOK
  <2>3. QED
    BY <1>6, <2>1, <2>2, UpToSince
<1>10. [d \in Conn |-> told[d]]' =
         [[d \in Conn |-> told[d]] EXCEPT ![c] = Offer!Report(UpTo(reply[c]), reply[c].at)]
  BY <1>7 DEF OthersIdle
<1>11. [d \in Conn |-> IF Mode[d] = "data" THEN sent[d] ELSE <<>>]' =
         [d \in Conn |-> IF Mode[d] = "data" THEN sent[d] ELSE <<>>]
  BY DEF OthersIdle
<1>12. [d \in Conn |-> Mode[d] = "data" /\ lost[d]]' = [d \in Conn |-> Mode[d] = "data" /\ lost[d]]
  BY DEF OthersIdle
<1>13. [d \in Conn |-> [e \in Conn |-> Count(e, seen[d])]]' =
         [d \in Conn |-> [e \in Conn |-> Count(e, seen[d])]]
  <2>1. \A d \in Conn : seen'[d] = seen[d]
    BY <1>5 DEF OthersIdle
  <2>2. \A d, e \in Conn : Count(e, seen[d])' = Count(e, seen[d])
    BY <2>1, SameRows
  <2>3. QED
    BY <2>2
<1> DEFINE Bound(upTo) == \/ faults > 0
                          \/ \A d \in Conn :
                               [e \in Conn |-> [d_1 \in Conn |-> Count(d_1, seen[e])]][c][d] <= upTo[d]
           Given(upTo, now) ==
             [d \in Conn |-> told[d]]' =
               [[d \in Conn |-> told[d]] EXCEPT ![c] = Offer!Report(upTo, now)]
<1>14. \E upTo \in Offer!Marks, now \in Time : Bound(upTo) /\ Given(upTo, now)
  BY <1>7, <1>8, <1>9, <1>10
<1>15. QED
  BY <1>4, <1>11, <1>12, <1>13, <1>14, SameRows, ZenonT(60) DEF Offer!Tell

\* A client of data ends well only when all that it wrote is stored.
LEMMA ExitedCounts ==
  ASSUME SystemState, ViewInv, NEW c \in Conn, Mode[c] = "data", inbox[c] = "close"
  PROVE  ~lost[c] /\ Count(c, Len(origin)) = Len(sent[c])
<1>1. ~lost[c] /\ AllStored(c)
  BY DEF SystemState, Acknowledged, Acknowledges
<1>2. /\ Len(origin) \in Nat /\ DOMAIN origin = 1..Len(origin) /\ Len(sent[c]) \in Nat
      /\ DOMAIN sent[c] = 1..Len(sent[c])
  BY DEF SystemState, TypeOK, NetTypeOK
<1>3. Count(c, Len(origin)) \in Nat
  BY <1>2, CountStep
<1>4. Count(c, Len(origin)) <= Len(sent[c])
  <2>1. Count(c, Len(origin)) <= Settled[c]
    BY DEF ViewInv, Tallied
  <2>2. Settled[c] \in Nat /\ rd[c] \in Nat /\ Settled[c] <= rd[c] /\ rd[c] <= Len(sent[c])
    BY SettledType DEF SystemState
  <2>3. QED
    BY <1>2, <1>3, <2>1, <2>2
<1>5. CASE Len(sent[c]) = 0
  BY <1>1, <1>3, <1>4, <1>5
<1>6. CASE Len(sent[c]) # 0
  <2>1. Len(sent[c]) \in DOMAIN sent[c]
    BY <1>2, <1>6
  <2>2. IsReading(sent[c][Len(sent[c])])
    BY <2>1, OwnReading DEF SystemState, Lawful
  <2>3. PICK i \in DOMAIN origin : origin[i] = <<c, Len(sent[c])>>
    BY <1>1, <2>1, <2>2 DEF AllStored
  <2>4. Len(sent[c]) = Count(c, i)
    BY <2>3 DEF ViewInv, InSequence
  <2>5. Count(c, i) <= Count(c, Len(origin))
    BY <1>2, CountMonotone
  <2>6. QED
    BY <1>1, <1>3, <1>4, <2>4, <2>5
<1>7. QED
  BY <1>5, <1>6

LEMMA ExitFinishes ==
  ASSUME SystemState, ViewInv, NEW c \in Conn, Got(c, "closing", "exited"), StaysPut(c)
  PROVE  Offer!Finish(c)
<1>1. at[c] = "closing" /\ at'[c] = "exited" /\ inbox[c] = "close" /\ OthersIdle(c)
  BY AwaitValues DEF Got, StaysPut
<1>2. Offer!OnlyPhase
  BY PutPhase
<1>3. CASE Mode[c] = "data"
  <2>1. PhaseOf(at[c], Mode[c]) = "working" /\ PhaseOf(at'[c], Mode[c]) = "exited"
    BY <1>1, <1>3, PhaseValues
  <2>2. Offer!Moves(c, "working", "exited")
    BY <1>1, <2>1, MovesPhase
  <2>3. ~lost[c] /\ Count(c, Len(origin)) = Len(sent[c])
    BY <1>1, <1>3, ExitedCounts
  <2>4. QED
    BY <1>2, <1>3, <2>2, <2>3 DEF Offer!Finish
<1>4. CASE Mode[c] = "statistics"
  <2>1. PhaseOf(at[c], Mode[c]) = "told" /\ PhaseOf(at'[c], Mode[c]) = "exited"
    BY <1>1, <1>4, PhaseValues
  <2>2. Offer!Moves(c, "told", "exited")
    BY <1>1, <2>1, MovesPhase
  <2>3. QED
    BY <1>2, <2>2 DEF Offer!Finish
<1>5. QED
  BY <1>3, <1>4, ModeAssumption

\* Wherever a client is underway, it is so for its user.
LEMMA UnderwayPhase ==
  ASSUME NEW c \in Conn, at[c] \in C!Writing \cup DOMAIN C!Await
  PROVE  PhaseOf(at[c], Mode[c]) \in Offer!Underway
BY AwaitValues, PhaseValues, ModeAssumption DEF Offer!Underway

LEMMA ErrorFails ==
  ASSUME SystemState, SystemState', NEW c \in Conn,
         NEW here \in C!Writing \cup DOMAIN C!Await, Moved(c, here, C!Thrown(here)),
         StaysPut(c), peer'[c] = peer[c]
  PROVE  Offer!Fail(c)
<1>1. /\ at[c] = here /\ at'[c] \in {"failed", "aborted"}
      /\ OthersIdle(c) /\ ServerRests
  BY DEF Moved, C!Thrown, StaysPut
<1>2. Offer!Hindered(c)
  BY <1>1, FailsHindered
<1>3. PhaseOf(at[c], Mode[c]) \in Offer!Underway /\ PhaseOf(at'[c], Mode[c]) = "failed"
  BY <1>1, UnderwayPhase, PhaseValues, ModeAssumption
<1>4. Offer!Moves(c, PhaseOf(at[c], Mode[c]), "failed")
  BY <1>1, <1>3, MovesPhase DEF Offer!Underway
<1>5. QED
  BY <1>2, <1>3, <1>4, PutPhase DEF Offer!Fail

LEMMA DeathKills ==
  ASSUME SystemState, NEW c \in Conn, Dies(c), StaysPut(c)
  PROVE  Offer!Kill(c)
<1>1. at[c] \notin {"off"} \cup C!Over /\ at'[c] = "killed" /\ OthersIdle(c)
  BY DiesOn DEF SystemState, Moved, StaysPut
<1>2. at[c] \in C!Writing \cup DOMAIN C!Await
  BY <1>1 DEF SystemState, ClientTypeOK, C!ClientPc
<1>3. PhaseOf(at[c], Mode[c]) \in Offer!Underway /\ PhaseOf(at'[c], Mode[c]) = "killed"
  BY <1>1, <1>2, UnderwayPhase, PhaseValues, ModeAssumption
<1>4. Offer!Moves(c, PhaseOf(at[c], Mode[c]), "killed")
  BY <1>1, <1>3, MovesPhase DEF Offer!Underway
<1>5. QED
  BY <1>3, <1>4, PutPhase DEF Offer!Kill

LEMMA DialStarts ==
  ASSUME SystemState, NEW c \in Conn, Dials(c), StaysPut(c)
  PROVE  Offer!Start(c) \/ Offer!Refused(c)
<1>1. at[c] = "off" /\ at'[c] \in {"upgrade", "failed"} /\ OthersIdle(c)
  BY DialOn DEF SystemState, Moved, StaysPut
<1>2. /\ PhaseOf(at[c], Mode[c]) = "off"
      /\ PhaseOf(at'[c], Mode[c]) = IF at'[c] = "failed" THEN "failed" ELSE "working"
  BY <1>1, PhaseValues, ModeAssumption
<1>3. Offer!Moves(c, "off", "failed") \/ Offer!Moves(c, "off", "working")
  BY <1>1, <1>2, MovesPhase
<1>4. QED
  BY <1>3, PutPhase DEF Offer!Start, Offer!Refused

\* What the user of a client sees when it does anything but write.
Quietly(c) ==
  \/ UNCHANGED Offer!vars
  \/ Offer!Start(c) \/ Offer!Refused(c) \/ Offer!Tell(c)
  \/ Offer!Finish(c) \/ Offer!Fail(c) \/ Offer!Kill(c)

LEMMA SilentSteps ==
  ASSUME SystemState, SystemState', ViewInv, NEW c \in Conn, OthersIdle(c), ServerRests,
         Dials(c) \/ Alone(c) \/ Dies(c) \/ ResetArrives(c) \/ LinkBreaks(c), [ViewNext]_viewVars
  PROVE  Quietly(c)
<1>1. TypeOK /\ ClientTypeOK /\ StaysInStep(c)
  BY DEF SystemState, InStep
<1>2. lost'[c] = lost[c] /\ sent'[c] = sent[c]
  BY <1>1, DialOn, AloneOn, DiesOn, ResetOn
  DEF Waits, Dials, Alone, Dies, ResetArrives, LinkBreaks
<1>3. ASSUME ~Passes(c, "request", "reply"), ~Passes(c, "reply", "close")
      PROVE  StaysPut(c)
  BY <1>2, <1>3, RecordsOn DEF StaysPut
<1>4. ASSUME ~Passes(c, "request", "reply"), ~Passes(c, "reply", "close"),
             PhaseOf(at'[c], Mode[c]) = PhaseOf(at[c], Mode[c])
      PROVE  UNCHANGED Offer!vars
  BY <1>3, <1>4, PutStutters
<1>5. CASE Dials(c)
  BY <1>1, <1>3, <1>5, DialOn, DialStarts DEF Moved, Passes, Quietly
<1>6. CASE Dies(c)
  BY <1>1, <1>3, <1>6, DiesOn, DeathKills DEF Moved, Passes, Quietly
<1>7. CASE ResetArrives(c) \/ LinkBreaks(c)
  BY <1>1, <1>4, <1>7, ResetOn DEF Passes, Quietly
<1>8. CASE Alone(c)
  <2>1. CASE Got(c, "handshake", IF Mode[c] = "data" THEN "body" ELSE "request")
    <3>1. at[c] = "handshake" /\ at'[c] \in {"body", "request"}
      BY <2>1 DEF Got
    <3>2. QED
      BY <1>4, <3>1, PhaseValues, ModeAssumption DEF Passes, Quietly
  <2>2. CASE Moved(c, "body", IF interrupted[c] THEN "close" ELSE "body") \/ Moved(c, "body", "body")
    <3>1. at[c] = "body" /\ at'[c] \in {"body", "close"} /\ Mode[c] = "data"
      BY <1>1, <2>2 DEF Moved, StaysInStep
    <3>2. QED
      BY <1>4, <3>1, PhaseValues DEF Passes, Quietly
  <2>3. CASE Got(c, "reply", "close")
    BY <1>2, <2>3, TellTells DEF Quietly
  <2>4. CASE Got(c, "closing", "exited")
    <3>1. StaysPut(c)
      BY <1>3, <2>4 DEF Got, Passes
    <3>2. QED
      BY <2>4, <3>1, ExitFinishes DEF Quietly
  <2>5. ASSUME NEW here \in C!Writing \cup DOMAIN C!Await, Moved(c, here, C!Thrown(here))
        PROVE  Offer!Fail(c)
    <3>1. StaysPut(c)
      BY <1>3, <2>5 DEF Moved, Passes, C!Thrown
    <3>2. peer'[c] = peer[c]
      BY <1>1, <1>8, AloneOn DEF Waits
    <3>3. QED
      BY <2>5, <3>1, <3>2, ErrorFails
  <2>6. QED
    BY <1>1, <1>8, <2>1, <2>2, <2>3, <2>4, <2>5, AloneOn DEF Quietly
<1>9. QED
  BY <1>5, <1>6, <1>7, <1>8

\* What a client writes arrives, or is lost.
LEMMA WriteSteps ==
  ASSUME SystemState, NEW c \in Conn, OthersIdle(c), ServerRests,
         Upgrades(c) \/ SendsReading(c) \/ Asks(c) \/ Closes(c), [ViewNext]_viewVars
  PROVE  UNCHANGED Offer!vars \/ Offer!Write(c) \/ Offer!Lose(c) \/ Offer!Ask(c)
<1>1. TypeOK /\ ClientTypeOK /\ StaysInStep(c)
  BY DEF SystemState, InStep
<1>2. CASE Upgrades(c) \/ Closes(c)
  <2>1. /\ sent'[c] = sent[c]
        /\ (at[c] = "upgrade" /\ at'[c] = "handshake") \/ (at[c] = "close" /\ at'[c] = "closing")
    BY <1>1, <1>2, WriteOn DEF Wrote, Moved, Waits
  <2>2. seen'[c] = seen[c] /\ told'[c] = told[c]
    BY <2>1, RecordsOn DEF Passes
  <2>3. /\ PhaseOf(at'[c], Mode[c]) = PhaseOf(at[c], Mode[c])
        /\ Mode[c] = "data" => PhaseOf(at[c], Mode[c]) = "working"
    BY <2>1, PhaseValues, ModeAssumption
  <2>4. QED
    BY <1>2, <2>1, <2>2, <2>3, WriteLoses
<1>3. CASE SendsReading(c)
  <2>1. at[c] = "body" /\ at'[c] \in {"body", "close"} /\ Mode[c] = "data"
    BY <1>1, <1>3, WriteOn DEF Wrote, Moved, StaysInStep
  <2>2. seen'[c] = seen[c] /\ told'[c] = told[c]
    BY <2>1, RecordsOn DEF Passes
  <2>3. PhaseOf(at'[c], Mode[c]) = "working" /\ PhaseOf(at[c], Mode[c]) = "working"
    BY <2>1, PhaseValues
  <2>4. CASE sent'[c] = sent[c]
    BY <1>3, <2>1, <2>2, <2>3, <2>4, WriteLoses
  <2>5. CASE sent'[c] # sent[c]
    <3>1. PICK p \in OwnReadings(c) : sent'[c] = Append(sent[c], p)
      BY <1>1, <1>3, <2>5, WriteOn DEF Waits
    <3>2. ~lost[c] /\ lost'[c] = lost[c]
      BY <1>3, <2>5, WriteArrives
    <3>3. QED
      BY <2>1, <2>2, <2>3, <3>1, <3>2, WriteWrites
  <2>6. QED
    BY <2>4, <2>5
<1>4. CASE Asks(c)
  BY <1>4, AskAsks
<1>5. QED
  BY <1>2, <1>3, <1>4

-----------------------------------------------------------------------------
(* The server's steps. *)

\* Nothing else happens when a packet is stored.
LEMMA StoreAlone ==
  ASSUME ServerStep, origin' # origin
  PROVE  UNCHANGED <<main, needExit, runs, faults>>
<1>1. \E c \in Conn : InsertPacket(c)
  BY DEF ServerStep, MainServes, MainMishap, ThreadServes, ThreadMishap, Boot, MainStep, MainFails,
     Interrupt, Crash, CreateTables, Listen, LoopCheck, AcceptNothing, Join, Return, Accept,
     StartupFails, AcceptFails, ThreadFails, Down, ThreadStep, SqlError, Handshake, ThreadCheck,
     ReceiveReading, ReceiveRequest, ReceiveIgnored, Receive, ReadFails, Select, SelectFound,
     SelectEmpty, InsertClient, Reselect, ListClients, ScanPackets, WriteReply
<1>2. QED
  BY <1>1 DEF InsertPacket, procVars

\* The clients do not notice that the server goes on.
LEMMA ServerUnseen ==
  ASSUME ServerStep, [ViewNext]_viewVars
  PROVE  /\ UNCHANGED <<at, sent, lost>>
         /\ \A c \in Conn : seen'[c] = seen[c] /\ told'[c] = told[c]
<1>1. UNCHANGED <<at, sent, lost>>
  BY ServerKeeps
<1>2. QED
  BY <1>1, RecordsOn DEF Passes

LEMMA ServerSteps ==
  ASSUME SystemState, SystemState', ViewInv, ServerStep, [ViewNext]_viewVars
  PROVE  Offer!Disturb \/ \E c \in Conn : Offer!Store(c)
<1>1. [Next]_vars /\ TypeOK /\ Connected /\ Cursor /\ Readings
  BY SystemSteps DEF SystemState, ViewNext, viewVars
<1>2. /\ [d \in Conn |-> PhaseOf(at[d], Mode[d])]' = [d \in Conn |-> PhaseOf(at[d], Mode[d])]
      /\ [d \in Conn |-> IF Mode[d] = "data" THEN sent[d] ELSE <<>>]' =
           [d \in Conn |-> IF Mode[d] = "data" THEN sent[d] ELSE <<>>]
      /\ [d \in Conn |-> Mode[d] = "data" /\ lost[d]]' = [d \in Conn |-> Mode[d] = "data" /\ lost[d]]
      /\ [d \in Conn |-> told[d]]' = [d \in Conn |-> told[d]]
  BY ServerUnseen
<1>3. [d \in Conn |-> [e \in Conn |-> Count(e, seen[d])]]' =
        [d \in Conn |-> [e \in Conn |-> Count(e, seen[d])]]
  <2>1. \A d \in Conn : seen'[d] = seen[d] /\ seen[d] \in 0..Len(origin)
    BY ServerUnseen DEF ViewInv, Timely, SystemState, Readings, Attribution
  <2>2. \A d, e \in Conn : Count(e, seen[d])' = Count(e, seen[d])
    <3> TAKE d, e \in Conn
    <3>1. \A n \in 0..Len(origin) : Cardinality({i \in 1..n : origin'[i][1] = e}) = Count(e, n)
      BY <1>1, CountStays DEF Count, RowsOf
    <3>2. QED
      BY <2>1, <3>1 DEF Count, RowsOf
  <2>3. QED
    BY <2>2
<1>4. CASE origin' = origin
  <2>1. [d \in Conn |-> Count(d, Len(origin))]' = [d \in Conn |-> Count(d, Len(origin))]
    BY <1>4, RestCount
  <2>2. (faults > 0 => (faults > 0)') /\ (Cause => Cause')
    BY <1>1, MainChange, CauseStays DEF SystemState, Lawful, TypeOK
  <2>3. (faults > 0)' \in BOOLEAN /\ Cause' \in BOOLEAN
    BY DEF Cause
  <2>4. QED
    BY <1>2, <1>3, <2>1, <2>2, <2>3, ZenonT(60) DEF Offer!Disturb
<1>5. CASE origin' # origin
  <2>1. PICK c \in Conn : Stores(c)
    BY <1>1, <1>5, Effect DEF Keeps, Reads, Finds, Registers, Sends
  <2>2. /\ Mode[c] = "data" /\ rd[c] = Count(c, Len(origin)) + 1 /\ rd[c] \in DOMAIN sent[c]
    BY <1>1, <2>1, StoresNext DEF ViewInv, SystemState, Lawful
  <2>3. Count(c, Len(origin)) < Len(sent[c])
    <3>1. Len(origin) \in Nat /\ Len(sent[c]) \in Nat /\ DOMAIN sent[c] = 1..Len(sent[c])
      BY <1>1 DEF TypeOK, NetTypeOK
    <3>2. Count(c, Len(origin)) \in Nat
      BY <3>1, CountStep
    <3>3. QED
      BY <2>2, <3>1, <3>2
  <2>4. [d \in Conn |-> Count(d, Len(origin))]' =
          [[d \in Conn |-> Count(d, Len(origin))] EXCEPT ![c] = @ + 1]
    BY <1>1, <2>1, StoresCount
  <2>5. (faults > 0)' = (faults > 0) /\ Cause' = Cause
    BY <1>5, StoreAlone DEF Cause
  <2>6. [d \in Conn |-> Count(d, Len(origin))][c] <
          Len([d \in Conn |-> IF Mode[d] = "data" THEN sent[d] ELSE <<>>][c])
    BY <2>2, <2>3
  <2>7. QED
    BY <1>2, <1>3, <2>4, <2>5, <2>6, ZenonT(60) DEF Offer!Store
<1>6. QED
  BY <1>4, <1>5

-----------------------------------------------------------------------------
LEMMA InitOffer == ViewInit => Offer!Init
<1> SUFFICES ASSUME ViewInit
             PROVE  Offer!Init
  OBVIOUS
<1>1. /\ origin = <<>> /\ faults = 0 /\ main = "off" /\ ~needExit /\ runs = 0
      /\ \A c \in Conn : /\ at[c] = "off" /\ sent[c] = <<>> /\ lost[c] = FALSE
                         /\ seen[c] = 0 /\ told[c] = {}
  BY DEF ViewInit, SystemInit, Init, C!Init
<1>2. \A c \in Conn : PhaseOf(at[c], Mode[c]) = "off"
  BY <1>1, PhaseValues, ModeAssumption
<1>3. \A c, d \in Conn : Count(c, Len(origin)) = 0 /\ Count(d, seen[c]) = 0
  BY <1>1, CountStep
<1>4. ~(faults > 0) /\ ~Cause
  BY <1>1 DEF Cause, Ended
<1>5. /\ [c \in Conn |-> PhaseOf(at[c], Mode[c])] = [c \in Conn |-> "off"]
      /\ [c \in Conn |-> IF Mode[c] = "data" THEN sent[c] ELSE <<>>] = [c \in Conn |-> <<>>]
      /\ [c \in Conn |-> Mode[c] = "data" /\ lost[c]] = [c \in Conn |-> FALSE]
      /\ [c \in Conn |-> told[c]] = [c \in Conn |-> {}]
  BY <1>1, <1>2
<1>6. /\ [c \in Conn |-> Count(c, Len(origin))] = [c \in Conn |-> 0]
      /\ [c \in Conn |-> [d \in Conn |-> Count(d, seen[c])]] = [c \in Conn |-> [d \in Conn |-> 0]]
  BY <1>3
<1>7. (faults > 0) = FALSE /\ Cause = FALSE
  BY <1>4
<1>8. QED
  BY <1>5, <1>6, <1>7, ZenonT(60) DEF Offer!Init

LEMMA ViewStep ==
  ASSUME SystemState, SystemState', ViewInv, [ViewNext]_viewVars
  PROVE  [Offer!Next]_(Offer!vars)
<1>1. CASE UNCHANGED systemVars
  <2>1. UNCHANGED <<at, sent, lost, origin, faults, main, needExit, runs>>
    BY <1>1 DEF systemVars, vars, procVars, netVars
  <2>2. \A c \in Conn : seen'[c] = seen[c] /\ told'[c] = told[c]
    BY <2>1, RecordsOn DEF Passes
  <2>3. ServerRests
    BY <2>1 DEF ServerRests
  <2>4. \A d, e \in Conn : Count(e, seen[d])' = Count(e, seen[d])
    BY <2>2, <2>3, SameRows
  <2>5. QED
    BY <2>1, <2>2, <2>3, <2>4, SameRows DEF Offer!vars
<1>2. CASE ServerStep
  BY <1>2, ServerSteps DEF Offer!Next
<1>3. ASSUME NEW c \in Conn, OwnStep(c)
      PROVE  [Offer!Next]_(Offer!vars)
  <2>1. OthersIdle(c) /\ ServerRests
    BY <1>3, OwnRests
  <2>2. CASE Upgrades(c) \/ SendsReading(c) \/ Asks(c) \/ Closes(c)
    BY <2>1, <2>2, WriteSteps DEF Offer!Next
  <2>3. CASE Dials(c) \/ Alone(c) \/ Dies(c) \/ ResetArrives(c) \/ LinkBreaks(c)
    <3>1. Quietly(c)
      BY <2>1, <2>3, SilentSteps
    <3>2. QED
      BY <3>1 DEF Offer!Next, Quietly
  <2>4. QED
    BY <1>3, <2>2, <2>3 DEF OwnStep, ClientStep
<1>4. QED
  BY <1>1, <1>2, <1>3, SystemKinds DEF ViewNext, viewVars

\* The system keeps the promise of Service: whatever the clients, the server
\* and the network do, its users see what Service allows.
THEOREM ImplementsServiceCorrect == ViewSpec => ImplementsService
<1>1. SystemState /\ SystemState' /\ ViewInv /\ [ViewNext]_viewVars => [Offer!Next]_(Offer!vars)
  BY ViewStep
<1>2. QED
  BY <1>1, InitOffer, ViewStates, ViewInvCorrect, PTL DEF ViewSpec, ImplementsService, Offer!Spec

=============================================================================
