--------------------------- MODULE EntriesProofs ----------------------------
(***************************************************************************)
(* Proofs that collectStatistics's loop computes exact averages and sums,  *)
(* for every sequence of rows and every reading of the clock.              *)
(***************************************************************************)
EXTENDS Entries, StatisticsProofs

-----------------------------------------------------------------------------
(* The community modules' sum over a set does not depend on the order in     *)
(* which CHOOSE takes the elements.                                          *)

Any(s) == CHOOSE i \in s : TRUE

\* f is the recursive function by which Total(v, S) is defined.
Totals(f, v, S) ==
  f = [s \in SUBSET S |-> IF s = {} THEN 0 ELSE v[Any(s)] + f[s \ {Any(s)}]]

LEMMA TotalDefinition ==
  ASSUME NEW v, NEW S
  PROVE  Total(v, S) = (CHOOSE f : Totals(f, v, S))[S]
BY DEF Total, MapThenSumSet, MapThenFoldSet, Totals, Any

\* A subset without one of its elements is smaller.
LEMMA SmallerSubset ==
  ASSUME NEW S, IsFiniteSet(S), NEW s \in SUBSET S, NEW i \in s
  PROVE  /\ s \ {i} \in SUBSET S
         /\ Cardinality(s) \in Nat /\ Cardinality(s \ {i}) \in Nat
         /\ Cardinality(s) = Cardinality(s \ {i}) + 1
<1>1. IsFiniteSet(s)
  BY FS_Subset
<1>2. IsFiniteSet(s \ {i})
  BY <1>1, FS_Subset
<1>3. s = (s \ {i}) \cup {i}
  OBVIOUS
<1>4. Cardinality(s) = Cardinality(s \ {i}) + 1
  BY <1>2, <1>3, FS_AddElement
<1>5. QED
  BY <1>1, <1>2, <1>4, FS_CardinalityType

LEMMA AnyIn == ASSUME NEW s, s # {} PROVE Any(s) \in s
BY DEF Any

LEMMA NonemptySubset ==
  ASSUME NEW S, IsFiniteSet(S), NEW s \in SUBSET S, s # {}
  PROVE  ~(Cardinality(s) <= 0)
<1>1. PICK i \in s : TRUE
  OBVIOUS
<1>2. Cardinality(s) = Cardinality(s \ {i}) + 1 /\ Cardinality(s \ {i}) \in Nat
  BY SmallerSubset
<1>3. QED
  BY <1>2

LEMMA TotalsExist ==
  ASSUME NEW D, NEW v \in [D -> Int], NEW S \in SUBSET D, IsFiniteSet(S)
  PROVE  \E f \in [SUBSET S -> Int] : Totals(f, v, S)
<1> DEFINE Upto(g, n) ==
             /\ g[{}] = 0
             /\ \A s \in SUBSET S : s # {} /\ Cardinality(s) <= n =>
                  g[s] = v[Any(s)] + g[s \ {Any(s)}]
           T == {n \in Nat : \E g \in [SUBSET S -> Int] : Upto(g, n)}
<1>1. 0 \in T
  <2> DEFINE g == [s \in SUBSET S |-> 0]
  <2>1. g \in [SUBSET S -> Int] /\ g[{}] = 0
    OBVIOUS
  <2>2. \A s \in SUBSET S : s # {} => ~(Cardinality(s) <= 0)
    BY NonemptySubset
  <2>3. Upto(g, 0)
    BY <2>1, <2>2
  <2>4. QED
    BY <2>1, <2>3
<1>2. ASSUME NEW n \in Nat, n \in T
      PROVE  n + 1 \in T
  <2>1. PICK g \in [SUBSET S -> Int] : Upto(g, n)
    BY <1>2
  <2> DEFINE h == [s \in SUBSET S |-> IF s = {} \/ Cardinality(s) <= n THEN g[s]
                                      ELSE v[Any(s)] + g[s \ {Any(s)}]]
  <2>2. ASSUME NEW s \in SUBSET S, s # {}
        PROVE  /\ Any(s) \in s /\ v[Any(s)] \in Int /\ s \ {Any(s)} \in SUBSET S
               /\ g[s \ {Any(s)}] \in Int
               /\ Cardinality(s) \in Nat /\ Cardinality(s \ {Any(s)}) \in Nat
               /\ Cardinality(s) = Cardinality(s \ {Any(s)}) + 1
    <3>1. Any(s) \in s
      BY <2>2, AnyIn
    <3>2. QED
      BY <3>1, SmallerSubset
  <2>3. h \in [SUBSET S -> Int]
    BY <2>2
  <2>4. h[{}] = 0
    BY <2>1
  <2>5. ASSUME NEW s \in SUBSET S, s # {}, Cardinality(s) <= n + 1
        PROVE  h[s] = v[Any(s)] + h[s \ {Any(s)}]
    <3> DEFINE r == s \ {Any(s)}
    <3>1. /\ r \in SUBSET S /\ Cardinality(r) <= n
      BY <2>2, <2>5
    <3>2. h[r] = g[r]
      BY <3>1
    <3>3. h[s] = v[Any(s)] + g[r]
      BY <2>1, <2>5
    <3>4. QED
      BY <3>2, <3>3
  <2>6. Upto(h, n + 1)
    BY <2>4, <2>5
  <2> HIDE DEF h, Upto
  <2>7. QED
    BY <2>3, <2>6
<1>3. Cardinality(S) \in Nat /\ \A s \in SUBSET S : Cardinality(s) <= Cardinality(S)
  BY FS_CardinalityType, FS_Subset
<1>4. Cardinality(S) \in T
  <2> HIDE DEF T
  <2>1. QED
    BY <1>1, <1>2, <1>3, SetInduction
<1>5. PICK f \in [SUBSET S -> Int] : Upto(f, Cardinality(S))
  BY <1>4
<1>6. f = [s \in SUBSET S |-> f[s]]
  OBVIOUS
<1>7. \A s \in SUBSET S : f[s] = IF s = {} THEN 0 ELSE v[Any(s)] + f[s \ {Any(s)}]
  BY <1>3, <1>5
<1>8. Totals(f, v, S)
  BY <1>6, <1>7 DEF Totals
<1>9. QED
  BY <1>8

\* Two such functions agree on the sets they both know.
LEMMA TotalsAgree ==
  ASSUME NEW S, IsFiniteSet(S), NEW R \in SUBSET S, NEW v,
         NEW f, Totals(f, v, S), NEW g, Totals(g, v, R), NEW s \in SUBSET R
  PROVE  f[s] = g[s]
<1> DEFINE T == {n \in Nat : \A r \in SUBSET R : Cardinality(r) <= n => f[r] = g[r]}
<1>1. /\ \A r \in SUBSET R : g[r] = IF r = {} THEN 0 ELSE v[Any(r)] + g[r \ {Any(r)}]
      /\ \A r \in SUBSET S : f[r] = IF r = {} THEN 0 ELSE v[Any(r)] + f[r \ {Any(r)}]
  BY DEF Totals
<1>2. \A r \in SUBSET R :
        r # {} => /\ r \ {Any(r)} \in SUBSET R /\ Cardinality(r \ {Any(r)}) \in Nat
                  /\ Cardinality(r) = Cardinality(r \ {Any(r)}) + 1
  BY SmallerSubset, AnyIn
<1>3. SUBSET R \subseteq SUBSET S
  OBVIOUS
<1>4. 0 \in T
  <2>1. \A r \in SUBSET R : r # {} => ~(Cardinality(r) <= 0)
    BY NonemptySubset, FS_Subset
  <2>2. f[{}] = 0 /\ g[{}] = 0
    BY <1>1
  <2>3. QED
    BY <2>1, <2>2
<1>5. ASSUME NEW n \in Nat, n \in T
      PROVE  n + 1 \in T
  <2> SUFFICES ASSUME NEW r \in SUBSET R, Cardinality(r) <= n + 1
               PROVE  f[r] = g[r]
    OBVIOUS
  <2>1. CASE r = {}
    BY <1>1, <2>1
  <2>2. CASE r # {}
    <3>1. r \ {Any(r)} \in SUBSET R /\ Cardinality(r \ {Any(r)}) <= n
      BY <1>2, <2>2
    <3>2. f[r \ {Any(r)}] = g[r \ {Any(r)}]
      BY <1>5, <3>1
    <3>3. QED
      BY <1>1, <1>3, <2>2, <3>2
  <2>3. QED
    BY <2>1, <2>2
<1>6. Cardinality(s) \in Nat
  BY FS_Subset, FS_CardinalityType
<1>7. Cardinality(s) \in T
  <2> HIDE DEF T
  <2>1. QED
    BY <1>4, <1>5, <1>6, SetInduction
<1>8. QED
  BY <1>6, <1>7

\* Whichever element of a set is taken first, the sum is the same.
AnyOrder(f, v, S) == \A s \in SUBSET S : \A i \in s : f[s] = v[i] + f[s \ {i}]

LEMMA TotalsAnyOrder ==
  ASSUME NEW D, NEW v \in [D -> Int], NEW S \in SUBSET D, IsFiniteSet(S),
         NEW f \in [SUBSET S -> Int], Totals(f, v, S)
  PROVE  AnyOrder(f, v, S)
<1> SUFFICES ASSUME NEW s \in SUBSET S, NEW i \in s
             PROVE  f[s] = v[i] + f[s \ {i}]
  BY DEF AnyOrder
<1> DEFINE Free(r) == \A j \in r : f[r] = v[j] + f[r \ {j}]
           T == {n \in Nat : \A r \in SUBSET S : Cardinality(r) <= n => Free(r)}
<1>1. \A r \in SUBSET S : r # {} => f[r] = v[Any(r)] + f[r \ {Any(r)}]
  BY DEF Totals
<1>2. 0 \in T
  <2>1. \A r \in SUBSET S : r # {} => ~(Cardinality(r) <= 0)
    BY NonemptySubset
  <2>2. QED
    BY <2>1
<1>3. ASSUME NEW n \in Nat, n \in T
      PROVE  n + 1 \in T
  <2> SUFFICES ASSUME NEW r \in SUBSET S, Cardinality(r) <= n + 1, NEW j \in r
               PROVE  f[r] = v[j] + f[r \ {j}]
    OBVIOUS
  <2> DEFINE k == Any(r)
  <2>1. k \in r
    BY AnyIn
  <2>2. f[r] = v[k] + f[r \ {k}]
    BY <1>1
  <2>3. CASE j = k
    BY <2>2, <2>3
  <2>4. CASE j # k
    <3> HIDE DEF k
    <3>1. r \ {k} \in SUBSET S /\ r \ {j} \in SUBSET S
      OBVIOUS
    <3>2. Cardinality(r \ {k}) <= n /\ Cardinality(r \ {j}) <= n
      BY <2>1, SmallerSubset
    <3>3. j \in r \ {k} /\ k \in r \ {j}
      BY <2>1, <2>4
    <3>4. f[r \ {k}] = v[j] + f[(r \ {k}) \ {j}]
      BY <1>3, <3>1, <3>2, <3>3
    <3>5. f[r \ {j}] = v[k] + f[(r \ {j}) \ {k}]
      BY <1>3, <3>1, <3>2, <3>3
    <3>6. (r \ {k}) \ {j} = (r \ {j}) \ {k} /\ (r \ {k}) \ {j} \in SUBSET S
      OBVIOUS
    <3>7. v[j] \in Int /\ v[k] \in Int /\ f[(r \ {k}) \ {j}] \in Int
      BY <2>1, <3>6
    <3> DEFINE rest == (r \ {k}) \ {j}
    <3>8. f[r] = v[k] + (v[j] + f[rest]) /\ f[r \ {j}] = v[k] + f[rest]
      BY <2>2, <3>4, <3>5, <3>6
    <3>9. f[rest] \in Int
      BY <3>7
    <3> HIDE DEF rest
    <3>10. QED
      BY <3>7, <3>8, <3>9
  <2>5. QED
    BY <2>3, <2>4
<1>4. Cardinality(s) \in Nat
  BY FS_Subset, FS_CardinalityType
<1>5. Cardinality(s) \in T
  <2> HIDE DEF T
  <2>1. QED
    BY <1>2, <1>3, <1>4, SetInduction
<1>6. QED
  BY <1>4, <1>5

LEMMA TotalEmpty ==
  ASSUME NEW D, NEW v \in [D -> Int]
  PROVE  Total(v, {}) = 0
<1>1. IsFiniteSet({}) /\ {} \in SUBSET D
  BY FS_EmptySet
<1>2. PICK f : Totals(f, v, {})
  BY <1>1, TotalsExist
<1>3. Totals(CHOOSE g : Totals(g, v, {}), v, {})
  BY <1>2
<1>4. QED
  BY <1>3, TotalDefinition DEF Totals

\* A total grows by what is added to its set.
LEMMA TotalAdd ==
  ASSUME NEW D, NEW v \in [D -> Int], NEW S \in SUBSET D, IsFiniteSet(S), NEW i \in D \ S
  PROVE  Total(v, S \cup {i}) = Total(v, S) + v[i] /\ Total(v, S) \in Int
<1> DEFINE S1 == S \cup {i}
           f == CHOOSE t : Totals(t, v, S)
           f1 == CHOOSE t : Totals(t, v, S1)
<1>1. /\ IsFiniteSet(S1) /\ S1 \in SUBSET D
      /\ S \in SUBSET S1 /\ S1 \in SUBSET S1 /\ S \in SUBSET S
  BY FS_AddElement
<1>2. PICK g \in [SUBSET S -> Int] : Totals(g, v, S)
  BY TotalsExist
<1>3. PICK g1 \in [SUBSET S1 -> Int] : Totals(g1, v, S1)
  BY <1>1, TotalsExist
<1>4. Totals(f, v, S) /\ Totals(f1, v, S1)
  BY <1>2, <1>3
<1>5. Total(v, S) = f[S] /\ Total(v, S1) = f1[S1]
  BY TotalDefinition
<1> HIDE DEF f, f1, S1
<1>6. f[S] = g1[S] /\ f1[S1] = g1[S1] /\ g1[S] \in Int
  BY <1>1, <1>3, <1>4, TotalsAgree
<1>7. i \in S1 /\ S1 \ {i} = S
  BY DEF S1
<1>8. AnyOrder(g1, v, S1)
  BY <1>1, <1>3, TotalsAnyOrder
<1>9. g1[S1] = v[i] + g1[S]
  BY <1>1, <1>7, <1>8 DEF AnyOrder
<1>10. v[i] \in Int
  OBVIOUS
<1>11. QED
  BY <1>5, <1>6, <1>9, <1>10 DEF S1

-----------------------------------------------------------------------------
(* What the loop sums up. *)

Xs(rs) == [i \in DOMAIN rs |-> rs[i].x]
AbsYs(rs) == [i \in DOMAIN rs |-> Max({rs[i].y, -rs[i].y})]

LEMMA AbsIsMax ==
  ASSUME NEW v \in Int
  PROVE  Abs(v) = Max({v, -v}) /\ Abs(v) \in Int
<1> DEFINE P(m) == m \in {v, -v} /\ \A w \in {v, -v} : m >= w
<1>1. P(Abs(v))
  BY DEF Abs
<1>2. \A m : P(m) => m = Abs(v)
  BY DEF Abs
<1>3. P(Max({v, -v}))
  BY <1>1 DEF Max
<1>4. QED
  BY <1>2, <1>3 DEF Abs

LEMMA SumsType ==
  ASSUME NEW rs \in Rows
  PROVE  /\ Xs(rs) \in [DOMAIN rs -> Int] /\ AbsYs(rs) \in [DOMAIN rs -> Int]
         /\ DOMAIN rs = 1..Len(rs) /\ Len(rs) \in Nat
         /\ \A i \in DOMAIN rs : Xs(rs)[i] = rs[i].x /\ AbsYs(rs)[i] = Abs(rs[i].y)
<1>1. DOMAIN rs = 1..Len(rs) /\ Len(rs) \in Nat /\ \A i \in DOMAIN rs : rs[i] \in Sample
  BY DEF Rows
<1>2. \A i \in DOMAIN rs : rs[i].x \in Int /\ rs[i].y \in Int
  BY <1>1 DEF Sample
<1>3. \A i \in DOMAIN rs : Max({rs[i].y, -rs[i].y}) = Abs(rs[i].y) /\ Abs(rs[i].y) \in Int
  BY <1>2, AbsIsMax
<1>4. QED
  BY <1>1, <1>2, <1>3 DEF Xs, AbsYs

LEMMA TurnsSum ==
  ASSUME NEW rs \in Rows, NEW from \in Int, NEW n \in 0..Len(rs)
  PROVE  /\ Turns(rs, from)[n].sumX = Total(Xs(rs), Recent(rs, from, n))
         /\ Turns(rs, from)[n].y = Total(AbsYs(rs), Recent(rs, from, n))
<1> DEFINE Sums(m) == /\ Turns(rs, from)[m].sumX = Total(Xs(rs), Recent(rs, from, m))
                      /\ Turns(rs, from)[m].y = Total(AbsYs(rs), Recent(rs, from, m))
           T == {m \in Nat : m <= Len(rs) => Sums(m)}
<1>1. Len(rs) \in Nat /\ n \in Nat
  BY SumsType
<1>2. 0 \in T
  <2>1. Turns(rs, from)[0].sumX = 0 /\ Turns(rs, from)[0].y = 0
    BY TurnsStep DEF EmptyWindow
  <2>2. Recent(rs, from, 0) = {}
    BY RecentStep
  <2>3. QED
    BY <2>1, <2>2, SumsType, TotalEmpty
<1>3. ASSUME NEW m \in Nat, m \in T
      PROVE  m + 1 \in T
  <2> SUFFICES ASSUME m + 1 <= Len(rs)
               PROVE  Sums(m + 1)
    OBVIOUS
  <2> DEFINE R == Recent(rs, from, m)
             w == Turns(rs, from)[m]
  <2>1. m + 1 \in 1..Len(rs) /\ (m + 1) - 1 = m /\ Sums(m)
    BY <1>1, <1>3
  <2>2. Turns(rs, from)[m + 1] =
          IF rs[m + 1].timestamp >= from THEN Accumulate(w, rs[m + 1]) ELSE w
    BY <2>1, TurnsStep
  <2>3. CASE rs[m + 1].timestamp >= from
    <3>1. /\ IsFiniteSet(R) /\ Recent(rs, from, m + 1) = R \cup {m + 1}
          /\ R \in SUBSET DOMAIN rs /\ m + 1 \in DOMAIN rs \ R
      <4>1. R \subseteq 1..m /\ 1..m \subseteq 1..Len(rs)
        BY <1>1, <2>1 DEF Recent
      <4>2. QED
        BY <2>1, <2>3, <4>1, RecentStep, SumsType
    <3>2. /\ Total(Xs(rs), R \cup {m + 1}) = Total(Xs(rs), R) + Xs(rs)[m + 1]
          /\ Total(AbsYs(rs), R \cup {m + 1}) = Total(AbsYs(rs), R) + AbsYs(rs)[m + 1]
      <4>1. Xs(rs) \in [DOMAIN rs -> Int] /\ AbsYs(rs) \in [DOMAIN rs -> Int]
        BY SumsType
      <4> HIDE DEF R
      <4>2. Total(Xs(rs), R \cup {m + 1}) = Total(Xs(rs), R) + Xs(rs)[m + 1]
        BY <3>1, <4>1, TotalAdd
      <4>3. Total(AbsYs(rs), R \cup {m + 1}) = Total(AbsYs(rs), R) + AbsYs(rs)[m + 1]
        BY <3>1, <4>1, TotalAdd
      <4>4. QED
        BY <4>2, <4>3
    <3>3. Xs(rs)[m + 1] = rs[m + 1].x /\ AbsYs(rs)[m + 1] = Abs(rs[m + 1].y)
      BY <3>1, SumsType
    <3>4. /\ Turns(rs, from)[m + 1].sumX = w.sumX + rs[m + 1].x
          /\ Turns(rs, from)[m + 1].y = w.y + Abs(rs[m + 1].y)
      BY <2>2, <2>3 DEF Accumulate
    <3>5. QED
      BY <2>1, <3>1, <3>2, <3>3, <3>4
  <2>4. CASE ~(rs[m + 1].timestamp >= from)
    BY <2>1, <2>2, <2>4, RecentStep
  <2>5. QED
    BY <2>3, <2>4
<1>4. n \in T
  <2> HIDE DEF T
  <2>1. QED
    BY <1>1, <1>2, <1>3, SetInduction
<1>5. QED
  BY <1>1, <1>4

-----------------------------------------------------------------------------
(* The properties of Entries. *)

RowsOK == rows \in Rows /\ now \in Int

LEMMA RowsTyped == Spec => []RowsOK
<1>1. Init => RowsOK
  BY EntriesAssumption DEF Init, RowsOK, Rows
<1>2. Row \subseteq Sample
  BY EntriesAssumption DEF Row, Sample
<1>3. RowsOK /\ [Next]_vars => RowsOK'
  BY <1>2 DEF RowsOK, Next, vars, Rows
<1>4. QED
  BY <1>1, <1>3, PTL DEF Spec

\* What a window of the loop says, in terms of the rows that fall in it.
LEMMA WindowExact ==
  ASSUME RowsOK, NEW interval \in Nat
  PROVE  LET w == Window(rows, now - interval)
         IN  /\ w.countX = Cardinality(InWindow(interval))
             /\ w.countX > 0 <=> InWindow(interval) # {}
             /\ w.sumX = SumX(InWindow(interval)) /\ w.y = SumAbsY(InWindow(interval))
<1>1. now - interval \in Int /\ rows \in Rows
  BY DEF RowsOK
<1>2. Len(rows) \in 0..Len(rows) /\ DOMAIN rows = 1..Len(rows)
  BY <1>1, SumsType
<1>3. Recent(rows, now - interval, Len(rows)) = InWindow(interval)
  BY <1>2 DEF Recent, InWindow
<1>4. \A S : SumX(S) = Total(Xs(rows), S) /\ SumAbsY(S) = Total(AbsYs(rows), S)
  BY DEF SumX, SumAbsY, Xs, AbsYs
<1>5. /\ Window(rows, now - interval).sumX = SumX(InWindow(interval))
      /\ Window(rows, now - interval).y = SumAbsY(InWindow(interval))
  BY <1>1, <1>2, <1>3, <1>4, TurnsSum DEF Window
<1>6. /\ Window(rows, now - interval).countX = Cardinality(InWindow(interval))
      /\ Window(rows, now - interval).countX > 0 <=>
           \E i \in DOMAIN rows : rows[i].timestamp >= now - interval
  BY <1>1, <1>3, WindowCount
<1>7. (\E i \in DOMAIN rows : rows[i].timestamp >= now - interval) <=> InWindow(interval) # {}
  BY DEF InWindow
<1>8. QED
  BY <1>5, <1>6, <1>7

\* Averages and sums are exact for the rows of each window: the loop misses
\* none, counts none twice and mixes no window with the other, whatever the
\* number of rows, their values and the clock.
THEOREM EntryIsExactCorrect == Spec => []EntryIsExact
<1>1. RowsOK => EntryIsExact
  <2> SUFFICES ASSUME RowsOK PROVE EntryIsExact
    OBVIOUS
  <2>1. Interval1 \in Nat /\ Interval2 \in Nat
    BY IntervalAssumption
  <2>2. QED
    BY <2>1, WindowExact DEF EntryIsExact, Entry, Average
<1>2. QED
  BY <1>1, RowsTyped, PTL

\* A client is reported exactly when it has a row in the longer window, no
\* average divides by zero, and the longer window has all of the shorter one.
THEOREM ReportedIffRecentCorrect == Spec => []ReportedIffRecent
<1>1. RowsOK => ReportedIffRecent
  <2> SUFFICES ASSUME RowsOK PROVE ReportedIffRecent
    OBVIOUS
  <2> DEFINE w1 == Window(rows, now - Interval1)
             w5 == Window(rows, now - Interval2)
  <2>1. /\ rows \in Rows /\ now - Interval1 \in Int /\ now - Interval2 \in Int
        /\ now - Interval2 <= now - Interval1
    BY IntervalAssumption DEF RowsOK
  <2>2. w1.countX \in Nat /\ w5.countX \in Nat
    BY <2>1, WindowType DEF Windows
  <2>3. w5.countX >= w1.countX /\ w5.y >= w1.y
    BY <2>1, WindowMonotone
  <2>4. Reported(rows, now) <=> InWindow(Interval2) # {}
    BY ReportedRecent DEF RowsOK, InWindow
  <2>5. /\ Average(w1)[2] = IF w1.countX > 0 THEN w1.countX ELSE 1
        /\ Average(w5)[2] = IF w5.countX > 0 THEN w5.countX ELSE 1
    BY DEF Average
  <2>6. LET e == Entry("u", rows, now)
        IN  e.x1 = Average(w1) /\ e.x5 = Average(w5) /\ e.y1 = w1.y /\ e.y5 = w5.y
    BY DEF Entry
  <2> HIDE DEF w1, w5
  <2>7. QED
    BY <2>2, <2>3, <2>4, <2>5, <2>6 DEF ReportedIffRecent
<1>2. QED
  BY <1>1, RowsTyped, PTL
=============================================================================
