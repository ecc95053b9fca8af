---------------------------- MODULE WrapperProofs ----------------------------
(***************************************************************************)
(* Proofs about the SQLite wrapper: no statement leaks, and each method,   *)
(* however its calls of sqlite3 interleave with those of other threads, is *)
(* one statement of Statement.                                             *)
(***************************************************************************)
EXTENDS Wrapper, TLAPS

IInv == WrapperTypeOK /\ Methods

\* The steps of a method between its call and its end.
Middle(t) == Prepare(t) \/ Bind(t) \/ InsertStep(t) \/ SelectStep(t)

-----------------------------------------------------------------------------
\* What the arguments of a call are.
LEMMA CallFacts ==
  ASSUME NEW c \in S!Call
  PROVE  /\ c # S!NoCall /\ c.base \in Nat
         /\ c.op = "select" \/ (c.op = "insert" /\ c.key \in Key)
<1>1. CASE c \in [op : {"insert"}, key : Key, one : BOOLEAN, base : Nat]
  BY <1>1 DEF S!NoCall
<1>2. CASE c \in [op : {"select"}, key : Key \cup {All}, one : BOOLEAN, base : Nat]
  BY <1>2 DEF S!NoCall
<1>3. QED
  BY <1>1, <1>2 DEF S!Call

-----------------------------------------------------------------------------
(* Rows are only appended. *)

LEMMA MatchesStay ==
  ASSUME WrapperTypeOK, NEW k \in Key, rows' = Append(rows, k), NEW key, NEW n \in 0..Len(rows)
  PROVE  /\ S!Matches(key, n)' = S!Matches(key, n)
         /\ Len(rows') = Len(rows) + 1
         /\ S!Matches(key, Len(rows)) \subseteq S!Matches(key, Len(rows))'
BY DEF WrapperTypeOK, S!Matches

LEMMA MatchesGrow ==
  ASSUME WrapperTypeOK, NEW key, NEW m \in 0..Len(rows), NEW n \in m..Len(rows)
  PROVE  S!Matches(key, m) \subseteq S!Matches(key, n)
BY DEF WrapperTypeOK, S!Matches

\* Who holds what is not changed by a row that another thread inserts.
LEMMA MethodRests ==
  ASSUME WrapperTypeOK, NEW t \in Thread, MethodOK(t),
         pc'[t] = pc[t], call'[t] = call[t], got'[t] = got[t], failed'[t] = failed[t],
         rows' = rows \/ \E k \in Key : rows' = Append(rows, k)
  PROVE  MethodOK(t)'
<1>1. CASE rows' = rows
  <2>1. \A key, n : S!Matches(key, n)' = S!Matches(key, n)
    BY <1>1 DEF S!Matches
  <2>2. \A key : S!Refused(key)' = S!Refused(key)
    BY <1>1, <2>1 DEF S!Refused
  <2>3. S!Faithful(got[t], call[t], failed[t])' = S!Faithful(got[t], call[t], failed[t])
    BY <1>1, <2>1 DEF S!Faithful
  <2>4. QED
    BY <1>1, <2>1, <2>2, <2>3 DEF MethodOK
<1>2. ASSUME NEW k \in Key, rows' = Append(rows, k)
      PROVE  MethodOK(t)'
  <2>1. \A n \in 0..Len(rows) : S!Matches(call[t].key, n)' = S!Matches(call[t].key, n)
    BY <1>2, MatchesStay
  <2>2. /\ Len(rows) \in Nat /\ Len(rows') = Len(rows) + 1
        /\ S!Matches(call[t].key, Len(rows)) \subseteq S!Matches(call[t].key, Len(rows))'
    BY <1>2, MatchesStay DEF WrapperTypeOK
  <2>3. S!Refused(call[t].key) => S!Refused(call[t].key)'
    BY <2>2 DEF S!Refused
  <2>4. ASSUME pc[t] # "idle", S!Faithful(got[t], call[t], failed[t])
        PROVE  S!Faithful(got[t], call[t], failed[t])'
    <3>1. call[t].base \in 0..Len(rows)
      BY <2>2, <2>4, CallFacts DEF MethodOK
    <3>2. S!Matches(call[t].key, call[t].base)' = S!Matches(call[t].key, call[t].base)
      BY <2>1, <3>1
    <3>3. (\E n \in 0..Len(rows) : got[t] = S!Matches(call[t].key, n)) =>
            \E n \in 0..Len(rows') : got[t] = S!Matches(call[t].key, n)'
      BY <2>1, <2>2
    <3>4. QED
      BY <2>2, <2>4, <3>2, <3>3 DEF S!Faithful
  <2>5. (\E n \in 0..Len(rows) : got[t] = S!Matches(call[t].key, n)) =>
          \E n \in 0..Len(rows') : got[t] = S!Matches(call[t].key, n)'
    BY <2>1, <2>2
  <2>6. pc[t] # "idle" => call[t].base <= Len(rows')
    BY <2>2, CallFacts DEF MethodOK
  <2>7. QED
    BY <2>2, <2>3, <2>4, <2>5, <2>6 DEF MethodOK
<1>3. QED
  BY <1>1, <1>2

-----------------------------------------------------------------------------
(* The steps of one thread. *)

LEMMA CalledOK ==
  ASSUME WrapperTypeOK, NEW t \in Thread, MethodOK(t), InsertOne(t) \/ SelectMany(t)
  PROVE  WrapperTypeOK' /\ MethodOK(t)' /\ rows' = rows
<1>1. PICK op \in {"insert", "select"}, k \in Key \cup {All}, one \in BOOLEAN :
        Called(t, op, k, one) /\ (op = "insert" => k \in Key)
  BY DEF InsertOne, SelectMany
<1>2. rows' = rows /\ Len(rows) \in Nat
  BY <1>1 DEF Called, WrapperTypeOK
<1>3. /\ pc' = [pc EXCEPT ![t] = "prepare"]
      /\ call' = [call EXCEPT ![t] = [op |-> op, key |-> k, one |-> one, base |-> Len(rows)]]
      /\ got' = [got EXCEPT ![t] = {}] /\ failed' = [failed EXCEPT ![t] = FALSE]
      /\ UNCHANGED <<open, result, faults>>
  BY <1>1 DEF Called, Goes
<1>4. [op |-> op, key |-> k, one |-> one, base |-> Len(rows)] \in S!Call
  BY <1>1, <1>2 DEF S!Call
<1>5. WrapperTypeOK'
  BY <1>2, <1>3, <1>4 DEF WrapperTypeOK, WrapperPc
<1>6. /\ pc'[t] = "prepare" /\ got'[t] = {} /\ call'[t] \in S!Call
      /\ call'[t].base = Len(rows')
  BY <1>2, <1>3, <1>4 DEF WrapperTypeOK
<1>7. call'[t] # S!NoCall
  BY <1>6, CallFacts
<1>8. {} = S!Matches(call[t].key, 0)'
  BY DEF S!Matches
<1>9. QED
  BY <1>2, <1>5, <1>6, <1>7, <1>8 DEF MethodOK

LEMMA FailsType ==
  ASSUME WrapperTypeOK, NEW t \in Thread, Works \/ Fails(t)
  PROVE  /\ failed' \in [Thread -> BOOLEAN] /\ faults' \in Nat
         /\ \A u \in Thread \ {t} : failed'[u] = failed[u]
         /\ Fails(t) => failed'[t]
         /\ failed[t] => failed'[t]
<1>1. ASSUME Works, ~Fails(t)
      PROVE  /\ failed' \in [Thread -> BOOLEAN] /\ faults' \in Nat
             /\ \A u \in Thread : failed'[u] = failed[u]
  BY <1>1 DEF Works, WrapperTypeOK
<1>2. CASE Fails(t)
  <2>1. faults' = faults + 1 /\ faults \in Nat
    BY <1>2 DEF Fails, WrapperTypeOK
  <2>2. failed' = [failed EXCEPT ![t] = TRUE] /\ failed \in [Thread -> BOOLEAN]
    BY <1>2 DEF Fails, WrapperTypeOK
  <2>3. failed' \in [Thread -> BOOLEAN] /\ failed'[t] = TRUE
    BY <2>2
  <2>4. \A u \in Thread \ {t} : failed'[u] = failed[u]
    BY <2>2
  <2>5. QED
    BY <2>1, <2>3, <2>4
<1>3. QED
  BY <1>1, <1>2

\* A step of SelectStep that stays in the loop, or leaves it, with a row.
LEMMA RowOK ==
  ASSUME WrapperTypeOK, NEW t \in Thread, MethodOK(t), call[t].op = "select",
         Row(t), UNCHANGED <<rows, call, open, result>>
  PROVE  WrapperTypeOK' /\ MethodOK(t)'
<1> DEFINE k == call[t].key
<1>1. PICK i \in Ahead(t) :
        /\ Unique \/ \A j \in Ahead(t) : i <= j
        /\ got' = [got EXCEPT ![t] = @ \cup {i}]
  BY DEF Row
<1>2. Len(rows) \in Nat /\ i \in 1..Len(rows) /\ i \in S!Matches(k, Len(rows)) /\ i \notin got[t]
  BY DEF Ahead, S!Matches, WrapperTypeOK
<1>3. /\ pc' = [pc EXCEPT ![t] = IF call[t].one THEN "finalize" ELSE "step"]
      /\ pc[t] = "step" /\ UNCHANGED <<failed, faults>>
  BY DEF Row, Goes, Works
<1>4. WrapperTypeOK'
  BY <1>1, <1>2, <1>3 DEF WrapperTypeOK, WrapperPc
<1>5. /\ pc'[t] = IF call[t].one THEN "finalize" ELSE "step"
      /\ got'[t] = got[t] \cup {i} /\ call'[t] = call[t] /\ failed'[t] = failed[t]
  BY <1>1, <1>3 DEF WrapperTypeOK
<1>6. \A key, n : S!Matches(key, n)' = S!Matches(key, n)
  BY DEF S!Matches
<1>7. ASSUME ~call[t].one, ~Unique
      PROVE  got'[t] = S!Matches(k, i)
  <2>1. PICK n \in 0..Len(rows) : got[t] = S!Matches(k, n)
    BY <1>7 DEF MethodOK
  <2>2. \A j \in got[t] : j < i
    BY <1>7 DEF Ahead
  <2>3. ASSUME NEW j \in S!Matches(k, i), j \notin got[t]
        PROVE  j = i
    <3>1. j \in 1..i /\ j > n /\ j \in S!Matches(k, Len(rows))
      BY <1>2, <2>1, <2>3 DEF S!Matches
    <3>2. \A m \in got[t] : m < j
      BY <2>1, <3>1 DEF S!Matches
    <3>3. j \in Ahead(t)
      BY <2>3, <3>1, <3>2 DEF Ahead
    <3>4. QED
      BY <1>1, <1>2, <1>7, <3>1, <3>3
  <2>4. got[t] \subseteq S!Matches(k, i) /\ i \in S!Matches(k, i)
    BY <1>2, <2>1, <2>2 DEF S!Matches
  <2>5. QED
    BY <1>5, <2>3, <2>4
<1>8. got'[t] \subseteq S!Matches(k, Len(rows))
  BY <1>2, <1>5 DEF MethodOK
<1>9. call[t].one => S!Faithful(got'[t], call[t], failed[t])
  BY <1>3, <1>5, <1>8 DEF S!Faithful, MethodOK
<1>10. S!Faithful(got[t], call[t], failed[t])' = S!Faithful(got'[t], call[t], failed[t])
  BY <1>5, <1>6 DEF S!Faithful
<1>11. QED
  BY <1>2, <1>3, <1>4, <1>5, <1>6, <1>7, <1>8, <1>9, <1>10 DEF MethodOK

LEMMA NoRowOK ==
  ASSUME WrapperTypeOK, NEW t \in Thread, MethodOK(t), call[t].op = "select",
         NoRow(t) \/ (Goes(t, "step", "catch") /\ Fails(t) /\ UNCHANGED got),
         UNCHANGED <<rows, call, open, result>>
  PROVE  WrapperTypeOK' /\ MethodOK(t)'
<1>1. /\ pc[t] = "step" /\ got' = got /\ (Works \/ Fails(t))
      /\ \/ pc' = [pc EXCEPT ![t] = "finalize"]
         \/ pc' = [pc EXCEPT ![t] = "catch"] /\ Fails(t)
  BY DEF NoRow, Goes
<1>2. WrapperTypeOK'
  BY <1>1, FailsType DEF WrapperTypeOK, WrapperPc
<1>3. pc'[t] = "finalize" \/ (pc'[t] = "catch" /\ failed'[t])
  BY <1>1, FailsType DEF WrapperTypeOK
<1>4. \A key, n : S!Matches(key, n)' = S!Matches(key, n)
  BY DEF S!Matches
<1>5. ASSUME pc'[t] = "finalize"
      PROVE  S!Faithful(got[t], call[t], failed'[t])
  <2>1. pc' # [pc EXCEPT ![t] = "catch"]
    BY <1>5 DEF WrapperTypeOK
  <2>2. NoRow(t)
    BY <2>1 DEF Goes
  <2>3. failed'[t] \/ S!Matches(call[t].key, call[t].base) \subseteq got[t]
    BY <2>2, FailsType DEF NoRow
  <2>4. call[t].one => got[t] = {}
    BY <1>1 DEF MethodOK
  <2>5. QED
    BY <2>3, <2>4 DEF S!Faithful, MethodOK
<1>6. S!Faithful(got[t], call[t], failed[t])' = S!Faithful(got[t], call[t], failed'[t])
  BY <1>1, <1>4 DEF S!Faithful
<1>7. call[t] # S!NoCall
  BY <1>1 DEF MethodOK
<1>8. QED
  BY <1>1, <1>2, <1>3, <1>4, <1>5, <1>6, <1>7 DEF MethodOK

LEMMA PrepareOK ==
  ASSUME WrapperTypeOK, NEW t \in Thread, MethodOK(t), Prepare(t) \/ Bind(t)
  PROVE  WrapperTypeOK' /\ MethodOK(t)' /\ rows' = rows
<1>1. /\ pc[t] \in {"prepare", "bind"} /\ UNCHANGED <<rows, call, got, result>>
      /\ \/ pc' = [pc EXCEPT ![t] = "bind"] /\ Works
         \/ pc' = [pc EXCEPT ![t] = "step"] /\ Works
         \/ pc' = [pc EXCEPT ![t] = "catch"] /\ Fails(t)
      /\ open' = open \cup {t} \/ open' = open
  BY DEF Prepare, Bind, Goes
<1>2. WrapperTypeOK'
  BY <1>1, FailsType DEF WrapperTypeOK, WrapperPc
<1>3. pc'[t] \in {"bind", "step"} \/ (pc'[t] = "catch" /\ failed'[t])
  BY <1>1, FailsType DEF WrapperTypeOK
<1>4. \A key, n : S!Matches(key, n)' = S!Matches(key, n)
  BY <1>1 DEF S!Matches
<1>5. QED
  BY <1>1, <1>2, <1>3, <1>4 DEF MethodOK

LEMMA InsertStepOK ==
  ASSUME WrapperTypeOK, NEW t \in Thread, MethodOK(t), InsertStep(t)
  PROVE  /\ WrapperTypeOK' /\ MethodOK(t)'
         /\ rows' = rows \/ \E k \in Key : rows' = Append(rows, k)
<1>1. /\ call[t].op = "insert" /\ pc[t] = "step" /\ UNCHANGED <<call, open, got, result>>
      /\ (Works \/ Fails(t))
      /\ \/ pc' = [pc EXCEPT ![t] = "finalize"] /\ rows' = Append(rows, call[t].key)
         \/ /\ pc' = [pc EXCEPT ![t] = "catch"] /\ rows' = rows
            /\ S!Refused(call[t].key) \/ Fails(t)
  BY DEF InsertStep, Goes
<1>2. call[t] \in S!Call /\ call[t].key \in Key /\ Len(rows) \in Nat
  BY <1>1, CallFacts DEF MethodOK, WrapperTypeOK
<1>3. rows' = rows \/ \E k \in Key : rows' = Append(rows, k)
  BY <1>1, <1>2
<1>4. rows' \in Seq(Key) /\ Len(rows) <= Len(rows')
  <2>1. rows \in Seq(Key)
    BY DEF WrapperTypeOK
  <2>2. QED
    BY <1>2, <1>3, <2>1
<1>5. WrapperTypeOK'
  BY <1>1, <1>4, FailsType DEF WrapperTypeOK, WrapperPc
<1>6. pc'[t] = "finalize" \/ (pc'[t] = "catch" /\ (failed'[t] \/ S!Refused(call[t].key)'))
  <2>1. CASE pc' = [pc EXCEPT ![t] = "finalize"]
    BY <2>1 DEF WrapperTypeOK
  <2>2. CASE pc' = [pc EXCEPT ![t] = "catch"] /\ rows' = rows
    <3>1. S!Refused(call[t].key)' = S!Refused(call[t].key)
      BY <1>1, <2>2 DEF S!Refused, S!Matches
    <3>2. pc'[t] = "catch"
      BY <2>2 DEF WrapperTypeOK
    <3>3. S!Refused(call[t].key) \/ failed'[t]
      <4>1. CASE S!Refused(call[t].key)
        BY <4>1
      <4>2. CASE pc' = [pc EXCEPT ![t] = "finalize"]
        BY <4>2, <3>2 DEF WrapperTypeOK
      <4>3. CASE Fails(t)
        BY <4>3, FailsType
      <4>4. QED
        BY <1>1, <4>1, <4>2, <4>3
    <3>4. QED
      BY <3>1, <3>2, <3>3
  <2>3. QED
    BY <1>1, <2>1, <2>2
<1>7. QED
  BY <1>1, <1>2, <1>3, <1>4, <1>5, <1>6, CallFacts DEF MethodOK

LEMMA LeaveOK ==
  ASSUME WrapperTypeOK, NEW t \in Thread, MethodOK(t), Finalize(t) \/ Catch(t)
  PROVE  WrapperTypeOK' /\ MethodOK(t)' /\ rows' = rows
<1>1. PICK ids \in SUBSET Nat : Leave(t, ids)
  BY DEF Finalize, Catch, WrapperTypeOK
<1>2. pc' = [pc EXCEPT ![t] = "idle"]
  BY DEF Finalize, Catch, Goes
<1>3. WrapperTypeOK'
  BY <1>1, <1>2 DEF Leave, Works, WrapperTypeOK, WrapperPc
<1>4. pc'[t] = "idle" /\ call'[t] = S!NoCall
  BY <1>1, <1>2 DEF Leave, WrapperTypeOK
<1>5. QED
  BY <1>1, <1>3, <1>4 DEF Leave, MethodOK, S!NoCall

\* No step of a thread changes what another thread has.
LEMMA OthersRest ==
  ASSUME WrapperTypeOK, NEW t \in Thread, NEW u \in Thread \ {t},
         \/ InsertOne(t) \/ SelectMany(t) \/ Prepare(t) \/ Bind(t)
         \/ InsertStep(t) \/ SelectStep(t) \/ Finalize(t) \/ Catch(t)
  PROVE  /\ pc'[u] = pc[u] /\ call'[u] = call[u] /\ got'[u] = got[u]
         /\ failed'[u] = failed[u] /\ result'[u] = result[u]
         /\ u \in open' <=> u \in open
<1> USE DEF WrapperTypeOK
<1>1. CASE InsertOne(t) \/ SelectMany(t)
  BY <1>1 DEF InsertOne, SelectMany, Called, Goes
<1>2. CASE Prepare(t) \/ Bind(t)
  BY <1>2, FailsType DEF Prepare, Bind, Goes
<1>3. CASE InsertStep(t)
  BY <1>3, FailsType DEF InsertStep, Goes
<1>4. CASE SelectStep(t)
  BY <1>4, FailsType DEF SelectStep, Row, NoRow, Goes
<1>5. CASE Finalize(t) \/ Catch(t)
  BY <1>5 DEF Finalize, Catch, Leave, Works, Goes
<1>6. QED
  BY <1>1, <1>2, <1>3, <1>4, <1>5

-----------------------------------------------------------------------------
(* The invariant. *)

LEMMA InitMethods == Init => IInv /\ NoStatementLeaks
BY DEF Init, S!Init, IInv, WrapperTypeOK, Methods, MethodOK, NoStatementLeaks, WrapperPc, S!NoCall

LEMMA MethodsStep ==
  ASSUME IInv, [Next]_vars
  PROVE  IInv'
<1> USE DEF IInv, Methods
<1>1. CASE UNCHANGED vars
  BY <1>1 DEF vars, WrapperTypeOK, MethodOK, S!Matches, S!Refused, S!Faithful
<1>2. ASSUME NEW t \in Thread,
             \/ InsertOne(t) \/ SelectMany(t) \/ Prepare(t) \/ Bind(t)
             \/ InsertStep(t) \/ SelectStep(t) \/ Finalize(t) \/ Catch(t)
      PROVE  IInv'
  <2>1. /\ WrapperTypeOK' /\ MethodOK(t)'
        /\ rows' = rows \/ \E k \in Key : rows' = Append(rows, k)
    <3>1. CASE InsertOne(t) \/ SelectMany(t)
      BY <3>1, CalledOK
    <3>2. CASE Prepare(t) \/ Bind(t)
      BY <3>2, PrepareOK
    <3>3. CASE InsertStep(t)
      BY <3>3, InsertStepOK
    <3>4. CASE SelectStep(t)
      BY <3>4, RowOK, NoRowOK DEF SelectStep
    <3>5. CASE Finalize(t) \/ Catch(t)
      BY <3>5, LeaveOK
    <3>6. QED
      BY <1>2, <3>1, <3>2, <3>3, <3>4, <3>5
  <2>2. \A u \in Thread \ {t} : MethodOK(u)'
    BY <1>2, <2>1, OthersRest, MethodRests
  <2>3. QED
    BY <2>1, <2>2
<1>3. QED
  BY <1>1, <1>2 DEF Next

\* The inductive invariant of the methods, for any number of threads, keys and
\* rows, and with any calls of sqlite3 failing.
THEOREM MethodsCorrect == Spec => []Methods
<1>1. Init => IInv
  BY InitMethods
<1>2. IInv /\ [Next]_vars => IInv'
  BY MethodsStep
<1>3. IInv => Methods
  BY DEF IInv
<1>4. QED
  BY <1>1, <1>2, <1>3, PTL DEF Spec

LEMMA TypeAlways == Spec => []IInv
<1>1. Init => IInv
  BY InitMethods
<1>2. IInv /\ [Next]_vars => IInv'
  BY MethodsStep
<1>3. QED
  BY <1>1, <1>2, PTL DEF Spec

-----------------------------------------------------------------------------
(* Statements are finalized. *)

LEMMA NoLeakStep ==
  ASSUME WrapperTypeOK, NoStatementLeaks, [Next]_vars
  PROVE  NoStatementLeaks'
<1>1. CASE UNCHANGED vars
  BY <1>1 DEF vars, NoStatementLeaks
<1>2. ASSUME NEW t \in Thread,
             \/ InsertOne(t) \/ SelectMany(t) \/ Prepare(t) \/ Bind(t)
             \/ InsertStep(t) \/ SelectStep(t) \/ Finalize(t) \/ Catch(t)
      PROVE  NoStatementLeaks'
  <2>1. /\ t \in open' => pc'[t] \in {"bind", "step", "finalize", "catch"}
        /\ pc'[t] \in {"bind", "step", "finalize"} => t \in open'
    <3> USE DEF NoStatementLeaks, WrapperTypeOK
    <3>1. CASE InsertOne(t) \/ SelectMany(t)
      BY <3>1 DEF InsertOne, SelectMany, Called, Goes
    <3>2. CASE Prepare(t) \/ Bind(t)
      BY <3>2 DEF Prepare, Bind, Goes
    <3>3. CASE InsertStep(t) \/ SelectStep(t)
      BY <3>3 DEF InsertStep, SelectStep, Row, NoRow, Goes
    <3>4. CASE Finalize(t) \/ Catch(t)
      BY <3>4 DEF Finalize, Catch, Leave, Goes
    <3>5. QED
      BY <1>2, <3>1, <3>2, <3>3, <3>4
  <2>2. \A u \in Thread \ {t} : pc'[u] = pc[u] /\ (u \in open' <=> u \in open)
    BY <1>2, OthersRest
  <2>3. open' \subseteq Thread
    <3>1. WrapperTypeOK => open \subseteq Thread
      BY DEF WrapperTypeOK
    <3>2. open' \subseteq open \cup {t}
      BY <1>2 DEF InsertOne, SelectMany, Called, Prepare, Bind, InsertStep, SelectStep,
         Finalize, Catch, Leave
    <3>3. QED
      BY <3>1, <3>2
  <2>4. QED
    BY <2>1, <2>2, <2>3 DEF NoStatementLeaks
<1>3. QED
  BY <1>1, <1>2 DEF Next

\* Whatever fails in a method, it finalizes its statement before it ends.
THEOREM NoStatementLeaksCorrect == Spec => []NoStatementLeaks
<1>1. Init => NoStatementLeaks
  BY InitMethods
<1>2. IInv /\ NoStatementLeaks /\ [Next]_vars => NoStatementLeaks'
  BY NoLeakStep DEF IInv
<1>3. QED
  BY <1>1, <1>2, TypeAlways, PTL DEF Spec

-----------------------------------------------------------------------------
(* Each step of a method is a step of its statement, or none of it. *)

\* The threads whose row is in, although insertOne has not returned.
Inserted == {t \in Thread : call[t].op = "insert" /\ pc[t] = "finalize"}

\* A step changes whether its own thread has inserted, and nobody else.
LEMMA InsertedStep ==
  ASSUME WrapperTypeOK, NEW t \in Thread,
         \/ InsertOne(t) \/ SelectMany(t) \/ Prepare(t) \/ Bind(t)
         \/ InsertStep(t) \/ SelectStep(t) \/ Finalize(t) \/ Catch(t)
  PROVE  \A u \in Thread \ {t} : u \in Inserted' <=> u \in Inserted
BY OthersRest DEF Inserted

LEMMA CalledBegins ==
  ASSUME IInv, IInv', NEW t \in Thread, InsertOne(t) \/ SelectMany(t)
  PROVE  S!Begin(t)
<1>1. PICK op, k, one : Called(t, op, k, one)
  BY DEF InsertOne, SelectMany
<1>2. /\ pc[t] = "idle" /\ pc'[t] = "prepare" /\ UNCHANGED <<rows, result>>
      /\ call'[t].base = Len(rows) /\ call' = [call EXCEPT ![t] = call'[t]]
  BY <1>1 DEF Called, Goes, IInv, WrapperTypeOK
<1>3. call[t] = S!NoCall /\ call'[t] \in S!Call
  BY <1>2 DEF IInv, Methods, MethodOK
<1>4. Inserted' = Inserted
  BY <1>2, InsertedStep DEF IInv, Inserted
<1>5. QED
  BY <1>2, <1>3, <1>4 DEF S!Begin, Inserted

LEMMA InsertStepInserts ==
  ASSUME IInv, NEW t \in Thread, InsertStep(t)
  PROVE  S!Insert(t) \/ UNCHANGED S!vars
<1>1. /\ call[t].op = "insert" /\ pc[t] = "step" /\ UNCHANGED <<call, result>>
      /\ \/ /\ pc' = [pc EXCEPT ![t] = "finalize"] /\ rows' = Append(rows, call[t].key)
            /\ ~S!Refused(call[t].key)
         \/ pc' = [pc EXCEPT ![t] = "catch"] /\ rows' = rows
  BY DEF InsertStep, Goes
<1>2. CASE pc' = [pc EXCEPT ![t] = "finalize"] /\ rows' = Append(rows, call[t].key)
           /\ ~S!Refused(call[t].key)
  <2>1. t \notin Inserted /\ pc'[t] = "finalize"
    BY <1>1, <1>2 DEF Inserted, IInv, WrapperTypeOK
  <2>2. Inserted' = Inserted \cup {t}
    BY <1>1, <2>1, InsertedStep DEF IInv, Inserted
  <2>3. QED
    BY <1>1, <1>2, <2>1, <2>2 DEF S!Insert, Inserted
<1>3. CASE pc' = [pc EXCEPT ![t] = "catch"] /\ rows' = rows
  <2>1. t \notin Inserted /\ pc'[t] = "catch"
    BY <1>1, <1>3 DEF Inserted, IInv, WrapperTypeOK
  <2>2. Inserted' = Inserted
    BY <2>1, InsertedStep DEF IInv, Inserted
  <2>3. QED
    BY <1>1, <1>3, <2>2 DEF S!vars, Inserted
<1>4. QED
  BY <1>1, <1>2, <1>3

\* The calls of sqlite3 before the last step are not seen.
LEMMA MiddleStutters ==
  ASSUME IInv, NEW t \in Thread, Prepare(t) \/ Bind(t) \/ SelectStep(t)
  PROVE  UNCHANGED S!vars
<1>1. UNCHANGED <<rows, call, result>>
  BY DEF Prepare, Bind, SelectStep
<1>2. t \notin Inserted /\ t \notin Inserted'
  BY <1>1 DEF Prepare, Bind, SelectStep, Row, NoRow, Goes, Inserted, IInv, WrapperTypeOK
<1>3. Inserted' = Inserted
  BY <1>2, InsertedStep DEF IInv, Inserted
<1>4. QED
  BY <1>1, <1>3 DEF S!vars, Inserted

LEMMA LeaveEnds ==
  ASSUME IInv, NEW t \in Thread, NEW ids, Leave(t, ids), Finalize(t) \/ Catch(t)
  PROVE  /\ S!Ends(t) /\ result'[t] = [ids |-> ids, failed |-> failed[t]]
         /\ t \in Inserted <=> call[t].op = "insert" /\ pc[t] = "finalize"
<1>1. /\ call' = [call EXCEPT ![t] = S!NoCall] /\ UNCHANGED rows
      /\ result' = [result EXCEPT ![t] = [ids |-> ids, failed |-> failed[t]]]
  BY DEF Leave
<1>2. result'[t] = [ids |-> ids, failed |-> failed[t]] /\ call'[t] = S!NoCall
  BY <1>1 DEF IInv, WrapperTypeOK
<1>3. t \notin Inserted'
  BY <1>2 DEF Inserted, S!NoCall
<1>4. Inserted' = Inserted \ {t}
  BY <1>3, InsertedStep DEF IInv, Inserted
<1>5. QED
  BY <1>1, <1>2, <1>4 DEF S!Ends, Inserted

LEMMA FinalizeReturns ==
  ASSUME IInv, NEW t \in Thread, Finalize(t)
  PROVE  S!Returns(t)
<1>1. Leave(t, got[t]) /\ pc[t] = "finalize"
  BY DEF Finalize, Goes
<1>2. S!Ends(t) /\ result'[t] = [ids |-> got[t], failed |-> failed[t]]
  BY <1>1, LeaveEnds
<1>3. call[t] \in S!Call
  BY <1>1 DEF IInv, Methods, MethodOK
<1>4. CASE call[t].op = "insert"
  BY <1>1, <1>2, <1>4 DEF S!Returns
<1>5. CASE call[t].op = "select"
  <2>1. S!Faithful(got[t], call[t], failed[t])
    BY <1>1, <1>5 DEF IInv, Methods, MethodOK
  <2>2. QED
    BY <1>2, <1>5, <2>1 DEF S!Returns
<1>6. QED
  BY <1>3, <1>4, <1>5, CallFacts

LEMMA CatchThrows ==
  ASSUME IInv, NEW t \in Thread, Catch(t)
  PROVE  S!Throws(t)
<1>1. Leave(t, {}) /\ pc[t] = "catch"
  BY DEF Catch, Goes
<1>2. S!Ends(t) /\ result'[t] = [ids |-> {}, failed |-> failed[t]]
  BY <1>1, LeaveEnds
<1>3. call[t] \in S!Call /\ call[t] # S!NoCall
  BY <1>1 DEF IInv, Methods, MethodOK
<1>4. (call[t].op = "insert" /\ S!Refused(call[t].key)) \/ failed[t]
  BY <1>1, <1>3, CallFacts DEF IInv, Methods, MethodOK
<1>5. QED
  BY <1>1, <1>2, <1>3, <1>4 DEF S!Throws

\* insertOne, selectOne and selectMany implement Statement: Server may take each
\* of their calls for one step.
THEOREM WrapperImplementsStatement == Spec => ImplementsStatement
<1>1. Init => S!Init
  <2>1. Init => Inserted = {}
    BY DEF Init, Inserted, S!Init, S!NoCall
  <2>2. QED
    BY <2>1 DEF Init, S!Init, Inserted
<1>2. ASSUME IInv, IInv', [Next]_vars
      PROVE  [S!Next]_(S!vars)
  <2>1. CASE UNCHANGED vars
    BY <2>1 DEF vars, S!vars
  <2>2. ASSUME NEW t \in Thread,
               \/ InsertOne(t) \/ SelectMany(t) \/ Prepare(t) \/ Bind(t)
               \/ InsertStep(t) \/ SelectStep(t) \/ Finalize(t) \/ Catch(t)
        PROVE  S!Begin(t) \/ S!Insert(t) \/ S!Returns(t) \/ S!Throws(t) \/ UNCHANGED S!vars
    BY <1>2, <2>2, CalledBegins, InsertStepInserts, MiddleStutters, FinalizeReturns, CatchThrows
  <2>3. QED
    BY <1>2, <2>1, <2>2 DEF Next, S!Next
<1>3. QED
  BY <1>1, <1>2, TypeAlways, PTL DEF Spec, ImplementsStatement, S!Spec
=============================================================================
