-------------------------- MODULE StatisticsProofs --------------------------
(***************************************************************************)
(* Proofs about collectStatistics's arithmetic for every number of rows:   *)
(* induction over the turns of the loop.                                   *)
(***************************************************************************)
EXTENDS Statistics, FiniteSets, FiniteSetTheorems, WellFoundedInduction, TLAPS

-----------------------------------------------------------------------------
(* Induction and recursion over the naturals, for sets and functions. *)

\* A set that has 0 and the successor of each natural number in it has them all.
LEMMA SetInduction ==
  ASSUME NEW T, 0 \in T, \A n \in Nat : n \in T => n + 1 \in T
  PROVE  Nat \subseteq T
<1>1. SUFFICES ASSUME Nat \ T # {} PROVE FALSE
  OBVIOUS
<1>2. PICK n \in Nat \ T : \A m \in Nat \ T : ~(<<m, n>> \in OpToRel(<, Nat))
  BY <1>1, NatLessThanWellFounded, WFMin
<1>3. n # 0 /\ n - 1 \in Nat
  OBVIOUS
<1>4. <<n - 1, n>> \in OpToRel(<, Nat)
  BY <1>3 DEF OpToRel
<1>5. n - 1 \in T
  BY <1>2, <1>3, <1>4
<1>6. QED
  BY <1>3, <1>5

\* f results from N steps that start from `base`.
Iterates(f, N, base, step) ==
  f = [n \in 0..N |-> IF n = 0 THEN base ELSE step[<<n, f[n - 1]>>]]

LEMMA IteratesExist ==
  ASSUME NEW N \in Nat, NEW S, NEW base \in S, NEW step \in [(1..N) \X S -> S]
  PROVE  \E f \in [0..N -> S] : Iterates(f, N, base, step)
<1> DEFINE T == {m \in Nat : m <= N =>
                   \E f \in [0..m -> S] :
                     f[0] = base /\ \A n \in 1..m : f[n] = step[<<n, f[n - 1]>>]}
<1>1. 0 \in T
  <2>1. [n \in 0..0 |-> base] \in [0..0 -> S] /\ [n \in 0..0 |-> base][0] = base /\ 1..0 = {}
    OBVIOUS
  <2>2. QED
    BY <2>1
<1>2. ASSUME NEW m \in Nat, m \in T
      PROVE  m + 1 \in T
  <2> SUFFICES ASSUME m + 1 <= N
               PROVE  \E f \in [0..(m + 1) -> S] :
                        f[0] = base /\ \A n \in 1..(m + 1) : f[n] = step[<<n, f[n - 1]>>]
    OBVIOUS
  <2>1. PICK f \in [0..m -> S] : f[0] = base /\ \A n \in 1..m : f[n] = step[<<n, f[n - 1]>>]
    BY <1>2
  <2> DEFINE g == [n \in 0..(m + 1) |-> IF n = m + 1 THEN step[<<m + 1, f[m]>>] ELSE f[n]]
  <2>2. step[<<m + 1, f[m]>>] \in S
    OBVIOUS
  <2>3. g \in [0..(m + 1) -> S] /\ g[0] = base
    BY <2>1, <2>2
  <2>4. ASSUME NEW n \in 1..(m + 1)
        PROVE  g[n] = step[<<n, g[n - 1]>>]
    <3>1. n - 1 \in 0..(m + 1) /\ n - 1 # m + 1 /\ g[n - 1] = f[n - 1]
      OBVIOUS
    <3>2. CASE n = m + 1
      BY <3>1, <3>2
    <3>3. CASE n \in 1..m
      BY <2>1, <3>1, <3>3
    <3>4. QED
      BY <3>2, <3>3
  <2>5. QED
    BY <2>3, <2>4
<1>3. N \in T
  <2> HIDE DEF T
  <2>1. QED
    BY <1>1, <1>2, SetInduction
<1>4. PICK f \in [0..N -> S] : f[0] = base /\ \A n \in 1..N : f[n] = step[<<n, f[n - 1]>>]
  BY <1>3
<1>5. Iterates(f, N, base, step)
  BY <1>4 DEF Iterates
<1>6. QED
  BY <1>5

-----------------------------------------------------------------------------
(* The loop over the selected rows. *)

Sample == [timestamp : Int, x : Int, y : Int]
Rows == Seq(Sample)
Windows == [sumX : Int, countX : Nat, y : Int]

LEMMA StampType ==
  ASSUME NEW rows \in Rows, NEW i \in DOMAIN rows
  PROVE  rows[i].timestamp \in Int
<1>1. rows[i] \in Sample
  BY DEF Rows
<1>2. QED
  BY <1>1 DEF Sample

LEMMA AccumulateType ==
  ASSUME NEW w \in Windows, NEW r \in Sample
  PROVE  Accumulate(w, r) \in Windows
BY DEF Accumulate, Abs, Windows, Sample

\* The loop's windows, turn by turn.
LEMMA TurnsStep ==
  ASSUME NEW rows \in Rows, NEW from \in Int
  PROVE  /\ Turns(rows, from) \in [0..Len(rows) -> Windows]
         /\ Turns(rows, from)[0] = EmptyWindow
         /\ \A n \in 1..Len(rows) :
              Turns(rows, from)[n] =
                IF rows[n].timestamp >= from THEN Accumulate(Turns(rows, from)[n - 1], rows[n])
                ELSE Turns(rows, from)[n - 1]
<1> DEFINE N == Len(rows)
           step == [p \in (1..N) \X Windows |->
                      IF rows[p[1]].timestamp >= from THEN Accumulate(p[2], rows[p[1]]) ELSE p[2]]
           Loop(w) == w = [n \in 0..N |->
                             IF n = 0 THEN EmptyWindow
                             ELSE IF rows[n].timestamp >= from THEN Accumulate(w[n - 1], rows[n])
                             ELSE w[n - 1]]
<1>1. N \in Nat /\ \A n \in 1..N : rows[n] \in Sample
  BY DEF Rows
<1>2. step \in [(1..N) \X Windows -> Windows]
  BY <1>1, AccumulateType
<1>3. EmptyWindow \in Windows
  BY DEF EmptyWindow, Windows
<1>4. PICK f \in [0..N -> Windows] : Iterates(f, N, EmptyWindow, step)
  <2> HIDE DEF step, N
  <2>1. QED
    BY <1>1, <1>2, <1>3, IteratesExist
<1>5. \A n \in 1..N : n - 1 \in 0..N /\ <<n, f[n - 1]>> \in (1..N) \X Windows
  BY <1>1
<1>6. Loop(f)
  <2>1. f = [n \in 0..N |-> IF n = 0 THEN EmptyWindow ELSE step[<<n, f[n - 1]>>]]
    BY <1>4 DEF Iterates
  <2>2. \A n \in 1..N : step[<<n, f[n - 1]>>] =
          IF rows[n].timestamp >= from THEN Accumulate(f[n - 1], rows[n]) ELSE f[n - 1]
    BY <1>5
  <2>3. \A n \in 0..N : n # 0 => n \in 1..N
    BY <1>1
  <2> HIDE DEF step
  <2>4. QED
    BY <2>1, <2>2, <2>3
<1>7. Turns(rows, from) = CHOOSE w : Loop(w)
  BY DEF Turns
<1>8. Loop(Turns(rows, from))
  <2> HIDE DEF Loop
  <2>1. QED
    BY <1>6, <1>7
<1> DEFINE t == Turns(rows, from)
<1>9. ASSUME NEW g, Loop(g), NEW n \in 0..N
      PROVE  g[n] = f[n]
  <2> DEFINE T == {m \in Nat : m <= N => g[m] = f[m]}
  <2>1. 0 \in T
    BY <1>1, <1>6, <1>9
  <2>2. ASSUME NEW m \in Nat, m \in T
        PROVE  m + 1 \in T
    <3> SUFFICES ASSUME m + 1 <= N PROVE g[m + 1] = f[m + 1]
      OBVIOUS
    <3>1. m + 1 \in 0..N /\ m + 1 # 0 /\ (m + 1) - 1 = m
      BY <1>1
    <3>2. g[m] = f[m]
      BY <1>1, <2>2
    <3>3. ASSUME NEW w, Loop(w)
          PROVE  w[m + 1] = IF rows[m + 1].timestamp >= from THEN Accumulate(w[m], rows[m + 1])
                            ELSE w[m]
      BY <3>1, <3>3
    <3> HIDE DEF Loop
    <3>4. QED
      BY <1>6, <1>9, <3>2, <3>3
  <2>3. n \in T
    <3> HIDE DEF T
    <3>1. QED
      BY <1>1, <2>1, <2>2, SetInduction
  <2>4. QED
    BY <1>1, <2>3
<1>10. t = f
  <2>1. t = [n \in 0..N |-> f[n]]
    <3>1. DOMAIN t = 0..N /\ t = [n \in DOMAIN t |-> t[n]]
      BY <1>8
    <3>2. \A n \in 0..N : t[n] = f[n]
      BY <1>8, <1>9
    <3>3. QED
      BY <3>1, <3>2
  <2>2. QED
    BY <2>1
<1>11. \A n \in 1..N : n \in 0..N /\ n # 0
  BY <1>1
<1>12. 0 \in 0..N
  BY <1>1
<1>13. QED
  BY <1>4, <1>6, <1>10, <1>11, <1>12

\* What the turns have computed does not depend on the rows to come.
LEMMA TurnsPrefix ==
  ASSUME NEW rows \in Rows, NEW more \in Rows, NEW from \in Int,
         Len(rows) <= Len(more), \A i \in 1..Len(rows) : more[i] = rows[i],
         NEW n \in 0..Len(rows)
  PROVE  Turns(more, from)[n] = Turns(rows, from)[n]
<1> DEFINE T == {m \in Nat : m <= Len(rows) => Turns(more, from)[m] = Turns(rows, from)[m]}
<1>1. Len(rows) \in Nat /\ Len(more) \in Nat
  BY DEF Rows
<1>2. 0 \in T
  BY TurnsStep
<1>3. ASSUME NEW m \in Nat, m \in T
      PROVE  m + 1 \in T
  <2> SUFFICES ASSUME m + 1 <= Len(rows)
               PROVE  Turns(more, from)[m + 1] = Turns(rows, from)[m + 1]
    OBVIOUS
  <2>1. /\ m + 1 \in 1..Len(rows) /\ m + 1 \in 1..Len(more) /\ (m + 1) - 1 = m
        /\ Turns(more, from)[m] = Turns(rows, from)[m]
    BY <1>1, <1>3
  <2>2. /\ Turns(rows, from)[m + 1] =
             IF rows[m + 1].timestamp >= from THEN Accumulate(Turns(rows, from)[m], rows[m + 1])
             ELSE Turns(rows, from)[m]
        /\ Turns(more, from)[m + 1] =
             IF more[m + 1].timestamp >= from THEN Accumulate(Turns(more, from)[m], more[m + 1])
             ELSE Turns(more, from)[m]
    BY <2>1, TurnsStep
  <2>3. QED
    BY <2>1, <2>2
<1>4. n \in T
  <2>1. n \in Nat
    BY <1>1
  <2> HIDE DEF T
  <2>2. QED
    BY <1>2, <1>3, <2>1, SetInduction
<1>5. QED
  BY <1>1, <1>4

LEMMA WindowType ==
  ASSUME NEW rows \in Rows, NEW from \in Int
  PROVE  Window(rows, from) \in Windows
<1>1. Len(rows) \in 0..Len(rows)
  BY DEF Rows
<1>2. QED
  BY <1>1, TurnsStep DEF Window

\* The window over one row more is the window with that row, if it is recent.
LEMMA WindowAppend ==
  ASSUME NEW rows \in Rows, NEW from \in Int, NEW r \in Sample
  PROVE  Window(Append(rows, r), from) =
           IF r.timestamp >= from THEN Accumulate(Window(rows, from), r) ELSE Window(rows, from)
<1> DEFINE more == Append(rows, r)
<1>1. /\ Len(rows) \in Nat /\ more \in Rows /\ Len(more) = Len(rows) + 1
      /\ more[Len(rows) + 1] = r /\ \A i \in 1..Len(rows) : more[i] = rows[i]
  BY DEF Rows
<1>2. /\ Len(rows) + 1 \in 1..Len(more) /\ (Len(rows) + 1) - 1 = Len(rows)
      /\ Len(rows) \in 0..Len(rows) /\ Len(rows) <= Len(more)
  BY <1>1
<1> HIDE DEF more
<1>3. Turns(more, from)[Len(rows) + 1] =
        IF r.timestamp >= from THEN Accumulate(Turns(more, from)[Len(rows)], r)
        ELSE Turns(more, from)[Len(rows)]
  BY <1>1, <1>2, TurnsStep
<1>4. Turns(more, from)[Len(rows)] = Turns(rows, from)[Len(rows)]
  BY <1>1, <1>2, TurnsPrefix
<1>5. Window(more, from) = Turns(more, from)[Len(rows) + 1]
  BY <1>1 DEF Window
<1>6. QED
  BY <1>3, <1>4, <1>5 DEF Window, more

LEMMA WindowEmpty ==
  ASSUME NEW from \in Int
  PROVE  Window(<<>>, from) = EmptyWindow
<1>1. <<>> \in Rows /\ Len(<<>>) = 0
  BY DEF Rows
<1>2. QED
  BY <1>1, TurnsStep DEF Window
-----------------------------------------------------------------------------
(* What the loop counts. *)

\* The rows of the window among the first n.
Recent(rows, from, n) == {i \in 1..n : rows[i].timestamp >= from}

LEMMA RecentStep ==
  ASSUME NEW rows, NEW from, NEW n \in Nat
  PROVE  /\ Recent(rows, from, 0) = {}
         /\ Recent(rows, from, n + 1) =
              IF rows[n + 1].timestamp >= from THEN Recent(rows, from, n) \cup {n + 1}
              ELSE Recent(rows, from, n)
         /\ n + 1 \notin Recent(rows, from, n)
         /\ IsFiniteSet(Recent(rows, from, n))
<1>1. 1..(n + 1) = (1..n) \cup {n + 1} /\ n + 1 \notin 1..n /\ 1..0 = {}
  OBVIOUS
<1>2. IsFiniteSet(1..n)
  BY FS_Interval
<1>3. IsFiniteSet(Recent(rows, from, n))
  BY <1>2, FS_Subset DEF Recent
<1>4. QED
  BY <1>1, <1>3 DEF Recent

LEMMA TurnsCount ==
  ASSUME NEW rows \in Rows, NEW from \in Int, NEW n \in 0..Len(rows)
  PROVE  Turns(rows, from)[n].countX = Cardinality(Recent(rows, from, n))
<1> DEFINE T == {m \in Nat : m <= Len(rows) =>
                   Turns(rows, from)[m].countX = Cardinality(Recent(rows, from, m))}
<1>1. Len(rows) \in Nat /\ n \in Nat
  BY DEF Rows
<1>2. 0 \in T
  <2>1. Turns(rows, from)[0].countX = 0
    BY TurnsStep DEF EmptyWindow
  <2>2. Cardinality(Recent(rows, from, 0)) = 0
    BY RecentStep, FS_EmptySet
  <2>3. QED
    BY <2>1, <2>2
<1>3. ASSUME NEW m \in Nat, m \in T
      PROVE  m + 1 \in T
  <2> SUFFICES ASSUME m + 1 <= Len(rows)
               PROVE  Turns(rows, from)[m + 1].countX = Cardinality(Recent(rows, from, m + 1))
    OBVIOUS
  <2>1. /\ m + 1 \in 1..Len(rows) /\ (m + 1) - 1 = m
        /\ Turns(rows, from)[m].countX = Cardinality(Recent(rows, from, m))
    BY <1>1, <1>3
  <2>2. Turns(rows, from)[m + 1] =
          IF rows[m + 1].timestamp >= from THEN Accumulate(Turns(rows, from)[m], rows[m + 1])
          ELSE Turns(rows, from)[m]
    BY <2>1, TurnsStep
  <2>3. CASE rows[m + 1].timestamp >= from
    <3>1. Turns(rows, from)[m + 1].countX = Turns(rows, from)[m].countX + 1
      BY <2>2, <2>3 DEF Accumulate
    <3>2. Cardinality(Recent(rows, from, m + 1)) = Cardinality(Recent(rows, from, m)) + 1
      <4>1. /\ IsFiniteSet(Recent(rows, from, m)) /\ m + 1 \notin Recent(rows, from, m)
            /\ Recent(rows, from, m + 1) = Recent(rows, from, m) \cup {m + 1}
        BY <2>3, RecentStep
      <4>2. QED
        BY <4>1, FS_AddElement
    <3>3. QED
      BY <2>1, <3>1, <3>2
  <2>4. CASE ~(rows[m + 1].timestamp >= from)
    BY <2>1, <2>2, <2>4, RecentStep
  <2>5. QED
    BY <2>3, <2>4
<1>4. n \in T
  <2> HIDE DEF T
  <2>1. QED
    BY <1>1, <1>2, <1>3, SetInduction
<1>5. QED
  BY <1>1, <1>4

\* countX counts the rows of the window, so that it is 0 only if there are none.
LEMMA WindowCount ==
  ASSUME NEW rows \in Rows, NEW from \in Int
  PROVE  /\ Window(rows, from).countX = Cardinality(Recent(rows, from, Len(rows)))
         /\ IsFiniteSet(Recent(rows, from, Len(rows)))
         /\ Window(rows, from).countX > 0 <=> \E i \in DOMAIN rows : rows[i].timestamp >= from
<1>1. Len(rows) \in Nat /\ Len(rows) \in 0..Len(rows) /\ DOMAIN rows = 1..Len(rows)
  BY DEF Rows
<1> DEFINE R == Recent(rows, from, Len(rows))
<1>2. Window(rows, from).countX = Cardinality(R)
  BY <1>1, TurnsCount DEF Window
<1>3. IsFiniteSet(R)
  BY <1>1, RecentStep
<1>4. Cardinality(R) \in Nat /\ (Cardinality(R) = 0 <=> R = {})
  BY <1>3, FS_CardinalityType, FS_EmptySet
<1>5. R # {} <=> \E i \in DOMAIN rows : rows[i].timestamp >= from
  BY <1>1 DEF Recent
<1>6. QED
  BY <1>2, <1>3, <1>4, <1>5

\* A client is reported when it has a row in the longer window.
LEMMA ReportedRecent ==
  ASSUME NEW rows \in Rows, NEW now \in Int
  PROVE  Reported(rows, now) <=> \E i \in DOMAIN rows : rows[i].timestamp >= now - Interval2
<1>1. now - Interval1 \in Int /\ now - Interval2 \in Int /\ now - Interval2 <= now - Interval1
  BY IntervalAssumption
<1>2. \A i \in DOMAIN rows : rows[i].timestamp \in Int
  BY StampType
<1>3. QED
  BY <1>1, <1>2, WindowCount DEF Reported

\* A window that starts earlier has whatever the later one has.
LEMMA TurnsMonotone ==
  ASSUME NEW rows \in Rows, NEW early \in Int, NEW late \in Int, early <= late,
         NEW n \in 0..Len(rows)
  PROVE  Turns(rows, early)[n].y >= Turns(rows, late)[n].y
<1> DEFINE T == {m \in Nat : m <= Len(rows) =>
                   Turns(rows, early)[m].y >= Turns(rows, late)[m].y}
<1>1. Len(rows) \in Nat /\ n \in Nat
  BY DEF Rows
<1>2. 0 \in T
  BY TurnsStep DEF EmptyWindow
<1>3. ASSUME NEW m \in Nat, m \in T
      PROVE  m + 1 \in T
  <2> SUFFICES ASSUME m + 1 <= Len(rows)
               PROVE  Turns(rows, early)[m + 1].y >= Turns(rows, late)[m + 1].y
    OBVIOUS
  <2> DEFINE e == Turns(rows, early)[m]
             l == Turns(rows, late)[m]
             r == rows[m + 1]
  <2>1. m + 1 \in 1..Len(rows) /\ (m + 1) - 1 = m /\ m \in 0..Len(rows) /\ e.y >= l.y
    BY <1>1, <1>3
  <2>2. e \in Windows /\ l \in Windows /\ r \in Sample
    BY <2>1, TurnsStep DEF Rows
  <2>3. /\ Turns(rows, early)[m + 1] = IF r.timestamp >= early THEN Accumulate(e, r) ELSE e
        /\ Turns(rows, late)[m + 1] = IF r.timestamp >= late THEN Accumulate(l, r) ELSE l
    BY <2>1, TurnsStep
  <2>4. r.timestamp \in Int /\ Abs(r.y) \in Int /\ Abs(r.y) >= 0 /\ e.y \in Int /\ l.y \in Int
    <3> HIDE DEF e, l, r
    <3>1. r.timestamp \in Int /\ r.y \in Int /\ e.y \in Int /\ l.y \in Int
      BY <2>2 DEF Sample, Windows
    <3>2. QED
      BY <3>1 DEF Abs
  <2>5. r.timestamp >= late => r.timestamp >= early
    BY <2>4
  <2>6. Accumulate(e, r).y = e.y + Abs(r.y) /\ Accumulate(l, r).y = l.y + Abs(r.y)
    BY DEF Accumulate
  <2> HIDE DEF e, l, r
  <2>7. QED
    BY <2>1, <2>3, <2>4, <2>5, <2>6
<1>4. n \in T
  <2> HIDE DEF T
  <2>1. QED
    BY <1>1, <1>2, <1>3, SetInduction
<1>5. QED
  BY <1>1, <1>4

LEMMA WindowMonotone ==
  ASSUME NEW rows \in Rows, NEW early \in Int, NEW late \in Int, early <= late
  PROVE  /\ Window(rows, early).countX >= Window(rows, late).countX
         /\ Window(rows, early).y >= Window(rows, late).y
<1>1. Len(rows) \in 0..Len(rows)
  BY DEF Rows
<1>2. Window(rows, early).y >= Window(rows, late).y
  BY <1>1, TurnsMonotone DEF Window
<1>3. Recent(rows, late, Len(rows)) \subseteq Recent(rows, early, Len(rows))
  <2>1. DOMAIN rows = 1..Len(rows)
    BY DEF Rows
  <2>2. QED
    BY <2>1, StampType DEF Recent
<1>4. Cardinality(Recent(rows, late, Len(rows))) <= Cardinality(Recent(rows, early, Len(rows)))
  BY <1>3, WindowCount, FS_Subset
<1>5. QED
  BY <1>2, <1>4, WindowCount, FS_CardinalityType
=============================================================================
