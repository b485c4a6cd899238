----------------------------- MODULE DrainProofs -----------------------------
(***************************************************************************)
(* The two programs that look for the drain time find the same one, and    *)
(* the right one, for every number of nodes, jobs and samples.             *)
(*                                                                         *)
(* Both programs are loops over the rows of a file.  What a loop has found *)
(* is stated for the rows up to a time stamp and shown for one time stamp  *)
(* after the other (UpTo of FoldProofs); the steps of the system only have *)
(* to keep what the loops rely on, DrainInv.                               *)
(***************************************************************************)
EXTENDS DrainAnalysis, FoldProofs

\* What a loop relies on: late rows are followed by late rows, and a node that does not
\* reach Redis has never read a length.
DrainInv ==
  /\ TypeOK
  /\ load = "on" => \A k \in DOMAIN rows : ~rows[k].late
  /\ \A j, k \in DOMAIN rows : j < k /\ rows[j].late => rows[k].late
  /\ \A k \in DOMAIN rows : rows[k].node \notin Reaching =>
       \A q \in Lists : rows[k].cell[q] \in {Blank, Unread}

LEMMA DrainInit == Init => DrainInv
BY DrainAssumption DEF Init, DrainInv, TypeOK

\* A new row is the last one and no earlier than the load.
LEMMA StampStep ==
  ASSUME DrainInv, NEW n \in Samplers, Stamp(n)
  PROVE  DrainInv'
<1> DEFINE row == [node |-> n, late |-> load # "on", cell |-> [q \in Lists |-> Unread]]
<1>0. /\ rows \in Seq(SampleRow) /\ Len(rows) \in Nat /\ DOMAIN rows = 1 .. Len(rows)
      /\ Unread # Blank
  BY DrainAssumption DEF DrainInv, TypeOK
<1>1. row \in SampleRow
  BY DEF SampleRow, Cells
<1>2. rows' = Append(rows, row) /\ Len(rows) < MaxRows /\ UNCHANGED <<load, lengths>>
  BY DEF Stamp
<1> HIDE DEF row
<1>3. /\ rows' \in Seq(SampleRow) /\ Len(rows') = Len(rows) + 1
      /\ DOMAIN rows' = 1 .. Len(rows) + 1
      /\ rows'[Len(rows) + 1] = row
      /\ \A k \in DOMAIN rows : rows'[k] = rows[k]
  BY <1>0, <1>1, <1>2
<1>4. \A k \in DOMAIN rows' : k = Len(rows) + 1 \/ k \in DOMAIN rows
  BY <1>0, <1>3
<1>5. /\ \A q \in Lists : row.cell[q] = Unread
      /\ row.late <=> load # "on"
      /\ Lists # {}
  BY DEF row, Lists
<1>6. TypeOK'
  <2>1. load \in {"on", "past_end", "off"} /\ lengths \in [Lists -> 0 .. MaxLength]
    BY DEF DrainInv, TypeOK
  <2>2. Len(rows') <= MaxRows
    BY <1>0, <1>2, <1>3, DrainAssumption
  <2>3. \A k \in DOMAIN rows' :
          (\E q \in Lists : rows'[k].cell[q] = Blank) <=> (\A q \in Lists : rows'[k].cell[q] = Blank)
    BY <1>0, <1>3, <1>4, <1>5 DEF DrainInv, TypeOK
  <2> QED BY <1>2, <1>3, <2>1, <2>2, <2>3 DEF TypeOK
<1>7. load' = "on" => \A k \in DOMAIN rows' : ~rows'[k].late
  BY <1>2, <1>3, <1>4, <1>5 DEF DrainInv
<1>8. ASSUME NEW j \in DOMAIN rows', NEW k \in DOMAIN rows', j < k, rows'[j].late
      PROVE  rows'[k].late
  <2>1. j \in DOMAIN rows
    BY <1>0, <1>3, <1>8
  <2>2. load # "on"
    BY <1>3, <1>8, <2>1 DEF DrainInv
  <2> QED BY <1>3, <1>4, <1>5, <1>8, <2>1, <2>2 DEF DrainInv
<1>9. \A k \in DOMAIN rows' : rows'[k].node \notin Reaching =>
        \A q \in Lists : rows'[k].cell[q] \in {Blank, Unread}
  BY <1>3, <1>4, <1>5 DEF DrainInv
<1> QED BY <1>6, <1>7, <1>8, <1>9 DEF DrainInv

\* A read fills a cell of one row, or blanks both.
LEMMA ReadStep ==
  ASSUME DrainInv, NEW k \in DOMAIN rows, ReadLength(k)
  PROVE  DrainInv'
<1> DEFINE cell == rows[k].cell
           next == IF cell["default"] = Unread THEN "default" ELSE "heavy"
<1>0. /\ rows \in Seq(SampleRow) /\ Len(rows) \in Nat /\ DOMAIN rows = 1 .. Len(rows)
      /\ Unread # Blank
      /\ rows[k] \in SampleRow
      /\ lengths \in [Lists -> 0 .. MaxLength]
  BY DrainAssumption DEF DrainInv, TypeOK
<1>1. next \in Lists /\ cell \in [Lists -> Cells] /\ cell[next] = Unread
  BY <1>0 DEF SampleRow, Lists, ReadLength
<1>2. \A q \in Lists : cell[q] # Blank
  BY <1>0, <1>1 DEF DrainInv, TypeOK
<1> HIDE DEF next
<1>3. PICK new \in [Lists -> Cells] :
        /\ rows' = [rows EXCEPT ![k].cell = new]
        /\ (\E q \in Lists : new[q] = Blank) <=> (\A q \in Lists : new[q] = Blank)
        /\ rows[k].node \notin Reaching => \A q \in Lists : new[q] \in {Blank, Unread}
  <2>1. CASE /\ rows[k].node \in Reaching
             /\ rows' = [rows EXCEPT ![k].cell[next] = lengths[next]]
    <3> DEFINE new == [cell EXCEPT ![next] = lengths[next]]
    <3>1. lengths[next] \in Nat /\ lengths[next] # Blank
      BY <1>0, <1>1, DrainAssumption
    <3>2. new \in [Lists -> Cells]
      BY <1>1, <3>1 DEF Cells
    <3>3. \A q \in Lists : new[q] # Blank
      BY <1>1, <1>2, <3>1
    <3>4. rows' = [rows EXCEPT ![k].cell = new]
      BY <2>1
    <3>5. Lists # {}
      BY DEF Lists
    <3> QED BY <2>1, <3>2, <3>3, <3>4, <3>5
  <2>2. CASE rows' = [rows EXCEPT ![k].cell = [q \in Lists |-> Blank]]
    <3>1. [q \in Lists |-> Blank] \in [Lists -> Cells] /\ Lists # {}
      BY DEF Cells, Lists
    <3> QED BY <2>2, <3>1
  <2> QED BY <2>1, <2>2 DEF ReadLength, next
<1>4. /\ DOMAIN rows' = DOMAIN rows
      /\ \A j \in DOMAIN rows : /\ rows'[j].late = rows[j].late
                                /\ rows'[j].node = rows[j].node
                                /\ rows'[j].cell = IF j = k THEN new ELSE rows[j].cell
  <2>1. \A j \in DOMAIN rows : rows[j] \in SampleRow
    BY <1>0
  <2> QED BY <1>0, <1>3, <2>1 DEF SampleRow
<1>5. rows' \in Seq(SampleRow) /\ Len(rows') = Len(rows)
  <2>1. [rows[k] EXCEPT !.cell = new] \in SampleRow
    BY <1>0 DEF SampleRow
  <2> QED BY <1>0, <1>3, <2>1
<1>6. UNCHANGED <<load, lengths>>
  BY DEF ReadLength
<1>7. TypeOK'
  <2>1. ASSUME NEW j \in DOMAIN rows'
        PROVE  (\E q \in Lists : rows'[j].cell[q] = Blank)
                 <=> (\A q \in Lists : rows'[j].cell[q] = Blank)
    <3>1. CASE j = k
      <4>1. rows'[j].cell = new
        BY <1>4, <3>1
      <4> QED BY <1>3, <4>1
    <3>2. CASE j # k
      <4>1. j \in DOMAIN rows /\ rows'[j].cell = rows[j].cell
        BY <1>4, <3>2
      <4> QED BY <4>1 DEF DrainInv, TypeOK
    <3> QED BY <3>1, <3>2
  <2> QED BY <1>5, <1>6, <2>1 DEF DrainInv, TypeOK
<1> QED BY <1>3, <1>4, <1>6, <1>7 DEF DrainInv

LEMMA DrainStep == DrainInv /\ [Next]_vars => DrainInv'
<1> SUFFICES ASSUME DrainInv, [Next]_vars PROVE DrainInv'
  OBVIOUS
<1>1. ASSUME NEW q \in Lists, Submit(q) \/ Take(q) PROVE DrainInv'
  <2>1. lengths' \in [Lists -> 0 .. MaxLength] /\ UNCHANGED <<load, rows>>
    BY <1>1, DrainAssumption DEF Submit, Take, DrainInv, TypeOK
  <2> QED BY <2>1 DEF DrainInv, TypeOK
<1>2. CASE LoadGoesOn \/ UNCHANGED vars
  <2>1. /\ load' \in {"on", "past_end", "off"} /\ (load' = "on" => load = "on")
        /\ UNCHANGED <<lengths, rows>>
    BY <1>2 DEF LoadGoesOn, vars, DrainInv, TypeOK
  <2> QED BY <2>1 DEF DrainInv, TypeOK
<1> QED BY <1>1, <1>2, StampStep, ReadStep DEF Next

\* The samples keep their types; a sample is blank in both of its cells or in neither,
\* since one except clause stands for both reads (queue_monitor.py:59-74).
THEOREM DrainTypeCorrect == Spec => []TypeOK
<1>1. DrainInv => TypeOK
  BY DEF DrainInv
<1> QED BY <1>1, DrainInit, DrainStep, PTL DEF Spec

-----------------------------------------------------------------------------
(* The rows up to a time stamp *)

LastTime == Len(rows)

LEMMA LastTimeIsNat ==
  ASSUME DrainInv
  PROVE  /\ LastTime \in Nat /\ DOMAIN rows = 1 .. LastTime
         /\ Times \subseteq 1 .. LastTime /\ IsFiniteSet(Times)
<1>1. LastTime \in Nat /\ DOMAIN rows = 1 .. LastTime
  BY DEF DrainInv, TypeOK, LastTime
<1>2. Times \subseteq 1 .. LastTime
  BY <1>1 DEF Times
<1>3. IsFiniteSet(1 .. LastTime)
  BY <1>1, FS_Interval
<1> QED BY <1>1, <1>2, <1>3, FS_Subset

\* A finished row counts jobs in any of the lists, none of them from a node that does not
\* reach Redis.
LEMMA LengthIsNat ==
  ASSUME DrainInv, NEW k \in Times, NEW lists \in SUBSET Lists
  PROVE  /\ LengthAt(k, lists) \in Nat
         /\ rows[k].node \notin Reaching => LengthAt(k, lists) = 0
<1> DEFINE f == [q \in Lists |-> Count(rows[k].cell[q])]
<1>0. k \in DOMAIN rows /\ \A q \in Lists : rows[k].cell[q] # Unread
  BY DEF Times, Finished
<1>1. \A q \in Lists : rows[k].cell[q] \in Cells
  <2>1. rows \in Seq(SampleRow)
    BY DEF DrainInv, TypeOK
  <2>2. rows[k] \in SampleRow
    BY <1>0, <2>1
  <2> QED BY <2>2 DEF SampleRow
<1>2. \A q \in Lists : f[q] \in Nat
  BY <1>0, <1>1 DEF Cells, Count
<1>3. rows[k].node \notin Reaching => \A q \in Lists : f[q] = 0
  BY <1>0 DEF DrainInv, Count
<1>4. IsFiniteSet(lists)
  <2>1. IsFiniteSet({"default"} \union {"heavy"})
    BY FS_Singleton, FS_AddElement
  <2>2. Lists = {"default"} \union {"heavy"}
    BY DEF Lists
  <2> QED BY <2>1, <2>2, FS_Subset
<1> HIDE DEF f
<1>5. SumFunctionOnSet(f, lists) \in Nat
  <2>1. \A q \in lists : f[q] \in Nat
    BY <1>2
  <2>2. lists \in SUBSET lists
    OBVIOUS
  <2> QED BY <1>4, <2>1, <2>2, SumGrows
<1>6. rows[k].node \notin Reaching => SumFunctionOnSet(f, lists) = 0
  BY <1>3, <1>4, SumOfZeros
<1> QED BY <1>5, <1>6 DEF LengthAt, f

\* A set of time stamps that is not empty has a last one, the one that Max chooses.
LEMMA MaxIsLast ==
  ASSUME NEW N \in Nat, NEW T \in SUBSET (1 .. N), T # {}
  PROVE  Max(T) \in T /\ \A k \in T : Max(T) >= k
<1> DEFINE Good == {U \in SUBSET T : U # {} => \E m \in U : \A k \in U : m >= k}
<1>0. IsFiniteSet(T)
  <2>1. IsFiniteSet(1 .. N)
    BY FS_Interval
  <2> QED BY <2>1, FS_Subset
<1>1. ASSUME NEW U \in SUBSET T, \A W \in SUBSET U : W # U => W \in Good
      PROVE  U \in Good
  <2> SUFFICES ASSUME NEW k \in U PROVE \E m \in U : \A i \in U : m >= i
    OBVIOUS
  <2>1. CASE U = {k}
    BY <2>1
  <2>2. CASE U # {k}
    <3>1. U \ {k} \in SUBSET U /\ U \ {k} # U /\ U \ {k} # {}
      BY <2>2
    <3>2. PICK m \in U \ {k} : \A i \in U \ {k} : m >= i
      BY <1>1, <3>1
    <3>3. CASE m >= k
      BY <3>2, <3>3
    <3>4. CASE k >= m
      BY <3>2, <3>4
    <3> QED BY <3>3, <3>4
  <2> QED BY <2>1, <2>2
<1> HIDE DEF Good
<1>2. \A U \in SUBSET T : U \in Good
  BY <1>0, <1>1, SubsetInduction
<1>3. T \in Good
  BY <1>2
<1>4. \E m \in T : \A k \in T : m >= k
  BY <1>3 DEF Good
<1> QED BY <1>4 DEF Max

Before(j) == {k \in Times : k <= j}

\* One more time stamp adds its row, if it has one, as the last.
LEMMA OneMoreRow ==
  ASSUME DrainInv
  PROVE  /\ Before(0) = {} /\ Before(LastTime) = Times
         /\ \A j \in 0 .. LastTime - 1 :
              IF j + 1 \in Times
                THEN /\ Before(j + 1) # {} /\ Max(Before(j + 1)) = j + 1
                     /\ Before(j + 1) \ {j + 1} = Before(j)
                ELSE Before(j + 1) = Before(j)
<1>0. LastTime \in Nat /\ Times \subseteq 1 .. LastTime
  BY LastTimeIsNat
<1>1. Before(0) = {} /\ Before(LastTime) = Times
  <2>1. \A k \in Times : ~(k <= 0) /\ k <= LastTime
    BY <1>0
  <2> QED BY <2>1 DEF Before
<1>2. ASSUME NEW j \in 0 .. LastTime - 1, j + 1 \notin Times
      PROVE  Before(j + 1) = Before(j)
  <2>1. \A k \in Times : k <= j + 1 <=> k <= j
    BY <1>0, <1>2
  <2> QED BY <2>1 DEF Before
<1>3. ASSUME NEW j \in 0 .. LastTime - 1, j + 1 \in Times
      PROVE  /\ Before(j + 1) # {} /\ Max(Before(j + 1)) = j + 1
             /\ Before(j + 1) \ {j + 1} = Before(j)
  <2>1. j + 1 \in Before(j + 1) /\ \A k \in Before(j + 1) : k \in 1 .. LastTime /\ k <= j + 1
    BY <1>0, <1>3 DEF Before
  <2>2. Before(j + 1) \in SUBSET (1 .. LastTime) /\ Before(j + 1) # {}
    BY <2>1
  <2>3. Max(Before(j + 1)) \in Before(j + 1) /\ \A k \in Before(j + 1) : Max(Before(j + 1)) >= k
    BY <1>0, <2>2, MaxIsLast
  <2>4. Max(Before(j + 1)) = j + 1
    BY <2>1, <2>3
  <2>5. \A k \in Times : (k <= j + 1 /\ k # j + 1) <=> k <= j
    BY <1>0
  <2> QED BY <2>2, <2>4, <2>5 DEF Before
<1> QED BY <1>1, <1>2, <1>3

-----------------------------------------------------------------------------
(* The two loops, a row at a time *)

\* g folds the rows of every set of times, the last one last.
LastRowLast(g, V, base, step) ==
  \A S \in SUBSET Times :
    IF S = {} THEN g[S] = base
    ELSE /\ Max(S) \in Times /\ g[S \ {Max(S)}] \in V
         /\ g[S] = step[<<Max(S), g[S \ {Max(S)}]>>]

LEMMA FromTheLastRow ==
  ASSUME DrainInv, NEW V, NEW base \in V,
         NEW step, \A k \in Times, s \in V : step[<<k, s>>] \in V
  PROVE  \E g \in [SUBSET Times -> V] : LastRowLast(g, V, base, step)
<1> DEFINE pick == [S \in SUBSET Times |-> Max(S)]
<1>0. LastTime \in Nat /\ Times \subseteq 1 .. LastTime /\ IsFiniteSet(Times)
  BY LastTimeIsNat
<1>1. \A S \in SUBSET Times : S # {} => pick[S] = Max(S) /\ Max(S) \in S
  <2> SUFFICES ASSUME NEW S \in SUBSET Times, S # {} PROVE Max(S) \in S
    OBVIOUS
  <2>1. S \in SUBSET (1 .. LastTime)
    BY <1>0
  <2> QED BY <1>0, <2>1, MaxIsLast
<1>2. \A S \in SUBSET Times : S # {} => pick[S] \in S
  BY <1>1, Zenon
<1> HIDE DEF pick
<1>3. PICK g \in [SUBSET Times -> V] : Folds(g, Times, base, pick, step)
  BY <1>0, <1>2, FoldExists, Zenon
<1>4. ASSUME NEW S \in SUBSET Times, S # {}
      PROVE  /\ Max(S) \in Times /\ g[S \ {Max(S)}] \in V
             /\ g[S] = step[<<Max(S), g[S \ {Max(S)}]>>]
  <2>1. pick[S] = Max(S) /\ Max(S) \in Times /\ S \ {Max(S)} \in SUBSET Times
    BY <1>1, <1>4
  <2> QED BY <1>3, <1>4, <2>1 DEF Folds
<1>5. g[{}] = base
  BY <1>3 DEF Folds
<1> QED BY <1>4, <1>5 DEF LastRowLast

LEMMA RowIsLateOrNot ==
  ASSUME DrainInv, NEW k \in Times
  PROVE  rows[k].late \in BOOLEAN /\ k \in Nat
<1>1. rows \in Seq(SampleRow) /\ k \in DOMAIN rows
  BY DEF DrainInv, TypeOK, Times
<1>2. rows[k] \in SampleRow /\ k \in Nat
  BY <1>1
<1> QED BY <1>2 DEF SampleRow

SummaryStart == [max |-> 0, backlog |-> FALSE, drained_at |-> None]
SummaryScans == [max : Nat, backlog : BOOLEAN, drained_at : Nat \union {None}]

\* scan[j] is what the loop of the summary has found once it is past the time j.
SummaryRuns(scan) ==
  /\ scan[0] = SummaryStart
  /\ \A j \in 0 .. LastTime - 1 :
       scan[j + 1] = IF j + 1 \in Times THEN SummaryLoop(j + 1, scan[j]) ELSE scan[j]
  /\ Summary = scan[LastTime]

LEMMA SummaryLoopType ==
  ASSUME DrainInv, NEW k \in Times, NEW s \in SummaryScans
  PROVE  SummaryLoop(k, s) \in SummaryScans
<1> DEFINE n == LengthAt(k, Lists)
<1>1. n \in Nat
  BY LengthIsNat
<1>2. rows[k].late \in BOOLEAN /\ k \in Nat
  BY RowIsLateOrNot
<1> HIDE DEF n
<1>3. /\ (IF n > s.max THEN n ELSE s.max) \in Nat
      /\ (s.backlog \/ (rows[k].late /\ n > 0)) \in BOOLEAN
      /\ (IF rows[k].late /\ (s.backlog \/ (rows[k].late /\ n > 0)) /\ n = 0 THEN k ELSE None)
           \in Nat \union {None}
  BY <1>1, <1>2 DEF SummaryScans
<1> QED BY <1>3 DEF SummaryLoop, SummaryScans, n

\* The fold over the file is such a run: the last of the rows comes last.
LEMMA SummaryIsRun ==
  ASSUME DrainInv
  PROVE  \E scan : SummaryRuns(scan)
<1> DEFINE step == [p \in Times \X SummaryScans |-> SummaryLoop(p[1], p[2])]
           Body(g) == [s \in SUBSET Times |->
                         IF s = {} THEN SummaryStart ELSE SummaryLoop(Max(s), g[s \ {Max(s)}])]
           iter == CHOOSE g : g = Body(g)
<1>1. \A k \in Times, s \in SummaryScans :
        step[<<k, s>>] = SummaryLoop(k, s) /\ step[<<k, s>>] \in SummaryScans
  BY SummaryLoopType
<1>2. SummaryStart \in SummaryScans
  BY DEF SummaryStart, SummaryScans
<1>3. PICK g \in [SUBSET Times -> SummaryScans] : LastRowLast(g, SummaryScans, SummaryStart, step)
  <2>1. \A k \in Times, s \in SummaryScans : step[<<k, s>>] \in SummaryScans
    BY <1>1
  <2> HIDE DEF step
  <2> QED BY <1>2, <2>1, FromTheLastRow
<1>4. g = Body(g)
  <2>1. \A S \in SUBSET Times : g[S] = Body(g)[S]
    <3> HIDE DEF step
    <3> QED BY <1>1, <1>3 DEF LastRowLast
  <2> HIDE DEF step
  <2> QED BY <2>1
<1>5. iter = Body(iter)
  <2> HIDE DEF Body
  <2> QED BY <1>4
<1>6. Summary = iter[Times]
  BY DEF Summary, MapThenFoldSet, SummaryStart
<1> HIDE DEF iter
<1>7. \A S \in SUBSET Times :
        iter[S] = IF S = {} THEN SummaryStart ELSE SummaryLoop(Max(S), iter[S \ {Max(S)}])
  <2>1. \A h : h = Body(h) => \A S \in SUBSET Times :
          h[S] = IF S = {} THEN SummaryStart ELSE SummaryLoop(Max(S), h[S \ {Max(S)}])
    OBVIOUS
  <2> QED BY <1>5, <2>1
<1> HIDE DEF Body, step
<1> DEFINE scan == [j \in 0 .. LastTime |-> iter[Before(j)]]
<1>8. \A j \in 0 .. LastTime : scan[j] = iter[Before(j)]
  OBVIOUS
<1>9. LastTime \in Nat /\ \A j \in 0 .. LastTime : Before(j) \in SUBSET Times
  BY LastTimeIsNat DEF Before
<1> HIDE DEF scan
<1>10. scan[0] = SummaryStart /\ Summary = scan[LastTime]
  <2>1. scan[0] = iter[{}] /\ scan[LastTime] = iter[Times]
    <3>1. Before(0) = {} /\ Before(LastTime) = Times /\ 0 \in 0 .. LastTime /\ LastTime \in 0 .. LastTime
      BY <1>9, OneMoreRow
    <3> QED BY <1>8, <3>1
  <2> QED BY <1>6, <1>7, <2>1
<1>11. ASSUME NEW j \in 0 .. LastTime - 1
       PROVE  scan[j + 1] = IF j + 1 \in Times THEN SummaryLoop(j + 1, scan[j]) ELSE scan[j]
  <2>1. /\ Before(j + 1) \in SUBSET Times
        /\ scan[j + 1] = iter[Before(j + 1)] /\ scan[j] = iter[Before(j)]
    BY <1>8, <1>9
  <2>2. CASE j + 1 \in Times
    BY <1>7, <2>1, <2>2, OneMoreRow
  <2>3. CASE j + 1 \notin Times
    BY <2>1, <2>3, OneMoreRow
  <2> QED BY <2>2, <2>3
<1> QED BY <1>10, <1>11 DEF SummaryRuns

\* The same for the loop that the sweep runs for some of the lists.
DrainStart == [backlog |-> FALSE, drained_at |-> None]
DrainScans == [backlog : BOOLEAN, drained_at : Nat \union {None}]

\* The figure that goes with what a loop has found.
Seconds(backlog, drained_at) ==
  IF Times = {} THEN None ELSE IF backlog THEN drained_at ELSE 0

DrainRuns(lists, scan) ==
  /\ scan[0] = DrainStart
  /\ \A j \in 0 .. LastTime - 1 :
       scan[j + 1] = IF j + 1 \in Times THEN DrainLoop(lists, j + 1, scan[j]) ELSE scan[j]
  /\ CalculateDrainSeconds(lists) = Seconds(scan[LastTime].backlog, scan[LastTime].drained_at)

LEMMA DrainLoopType ==
  ASSUME DrainInv, NEW lists \in SUBSET Lists, NEW k \in Times, NEW s \in DrainScans
  PROVE  DrainLoop(lists, k, s) \in DrainScans
<1>1. k \in Nat
  BY RowIsLateOrNot
<1>2. s.backlog \in BOOLEAN /\ LengthAt(k, lists) \in Nat
  BY LengthIsNat DEF DrainScans
<1> QED BY <1>1, <1>2 DEF DrainLoop, DrainScans

\* As SummaryIsRun.
LEMMA DrainIsRun ==
  ASSUME DrainInv, NEW lists \in SUBSET Lists
  PROVE  \E scan : DrainRuns(lists, scan)
<1> DEFINE step == [p \in Times \X DrainScans |-> DrainLoop(lists, p[1], p[2])]
           Body(g) == [s \in SUBSET Times |->
                         IF s = {} THEN DrainStart ELSE DrainLoop(lists, Max(s), g[s \ {Max(s)}])]
           iter == CHOOSE g : g = Body(g)
<1>1. \A k \in Times, s \in DrainScans :
        step[<<k, s>>] = DrainLoop(lists, k, s) /\ step[<<k, s>>] \in DrainScans
  BY DrainLoopType
<1>2. DrainStart \in DrainScans
  BY DEF DrainStart, DrainScans
<1>3. PICK g \in [SUBSET Times -> DrainScans] : LastRowLast(g, DrainScans, DrainStart, step)
  <2>1. \A k \in Times, s \in DrainScans : step[<<k, s>>] \in DrainScans
    BY <1>1
  <2> HIDE DEF step
  <2> QED BY <1>2, <2>1, FromTheLastRow
<1>4. g = Body(g)
  <2>1. \A S \in SUBSET Times : g[S] = Body(g)[S]
    <3> HIDE DEF step
    <3> QED BY <1>1, <1>3 DEF LastRowLast
  <2> HIDE DEF step
  <2> QED BY <2>1
<1>5. iter = Body(iter)
  <2> HIDE DEF Body
  <2> QED BY <1>4
<1>6. CalculateDrainSeconds(lists) = Seconds(iter[Times].backlog, iter[Times].drained_at)
  BY DEF CalculateDrainSeconds, MapThenFoldSet, DrainStart, Seconds
<1> HIDE DEF iter
<1>7. \A S \in SUBSET Times :
        iter[S] = IF S = {} THEN DrainStart ELSE DrainLoop(lists, Max(S), iter[S \ {Max(S)}])
  <2>1. \A h : h = Body(h) => \A S \in SUBSET Times :
          h[S] = IF S = {} THEN DrainStart ELSE DrainLoop(lists, Max(S), h[S \ {Max(S)}])
    OBVIOUS
  <2> QED BY <1>5, <2>1
<1> HIDE DEF Body, step
<1> DEFINE scan == [j \in 0 .. LastTime |-> iter[Before(j)]]
<1>8. \A j \in 0 .. LastTime : scan[j] = iter[Before(j)]
  OBVIOUS
<1>9. LastTime \in Nat /\ \A j \in 0 .. LastTime : Before(j) \in SUBSET Times
  BY LastTimeIsNat DEF Before
<1> HIDE DEF scan
<1>10. scan[0] = iter[{}] /\ scan[LastTime] = iter[Times]
  <2>1. Before(0) = {} /\ Before(LastTime) = Times /\ 0 \in 0 .. LastTime /\ LastTime \in 0 .. LastTime
    BY <1>9, OneMoreRow
  <2> QED BY <1>8, <2>1
<1>11. ASSUME NEW j \in 0 .. LastTime - 1
       PROVE  scan[j + 1] = IF j + 1 \in Times THEN DrainLoop(lists, j + 1, scan[j]) ELSE scan[j]
  <2>1. /\ Before(j + 1) \in SUBSET Times
        /\ scan[j + 1] = iter[Before(j + 1)] /\ scan[j] = iter[Before(j)]
    BY <1>8, <1>9
  <2>2. CASE j + 1 \in Times
    BY <1>7, <2>1, <2>2, OneMoreRow
  <2>3. CASE j + 1 \notin Times
    BY <2>1, <2>3, OneMoreRow
  <2> QED BY <2>2, <2>3
<1>12. scan[0] = DrainStart
  BY <1>7, <1>10
<1> QED BY <1>6, <1>10, <1>11, <1>12 DEF DrainRuns

-----------------------------------------------------------------------------
(* What a loop has found *)

\* The lists had jobs in a late row, or have been empty since: all that is known once the
\* rows up to the time j have been read.
Found(lists, j, backlog, drained_at) ==
  /\ backlog <=> \E k \in Times : k <= j /\ rows[k].late /\ LengthAt(k, lists) > 0
  /\ drained_at = None => \A k \in DrainTimes(lists) : k > j
  /\ drained_at # None => /\ drained_at \in DrainTimes(lists) /\ drained_at <= j
                          /\ \A k \in DrainTimes(lists) : drained_at <= k

LEMMA NoneIsNoTime == ASSUME DrainInv PROVE None \notin Nat /\ 0 # None
BY DrainAssumption

\* Nothing is found before the first row,
LEMMA FoundAtStart ==
  ASSUME DrainInv, NEW lists \in SUBSET Lists
  PROVE  Found(lists, 0, FALSE, None)
<1>1. LastTime \in Nat /\ \A k \in Times : k \in 1 .. LastTime /\ k > 0 /\ ~(k <= 0)
  BY LastTimeIsNat
<1>2. \A k \in DrainTimes(lists) : k > 0
  BY <1>1 DEF DrainTimes
<1> QED BY <1>1, <1>2 DEF Found

\* where there is no row,
LEMMA FoundPastNoRow ==
  ASSUME DrainInv, NEW lists \in SUBSET Lists, NEW j \in 0 .. LastTime - 1, j + 1 \notin Times,
         NEW backlog, NEW drained_at, Found(lists, j, backlog, drained_at)
  PROVE  Found(lists, j + 1, backlog, drained_at)
<1>1. LastTime \in Nat /\ DrainTimes(lists) \subseteq Times /\ \A k \in Times : k \in Nat
  BY LastTimeIsNat DEF DrainTimes
<1>2. \A k \in Times : (k <= j + 1 <=> k <= j) /\ (k > j + 1 <=> k > j)
  BY <1>1
<1> QED BY <1>1, <1>2 DEF Found

\* nor after a loop has ended.
LEMMA FoundPastDrain ==
  ASSUME DrainInv, NEW lists \in SUBSET Lists, NEW j \in 0 .. LastTime - 1,
         NEW drained_at, drained_at # None, NEW backlog, Found(lists, j, backlog, drained_at)
  PROVE  Found(lists, j + 1, backlog, drained_at) /\ backlog
<1>1. LastTime \in Nat /\ DrainTimes(lists) \subseteq Times /\ \A k \in Times : k \in Nat
  BY LastTimeIsNat DEF DrainTimes
<1>2. \E k \in Times : k <= j /\ rows[k].late /\ LengthAt(k, lists) > 0
  <2>1. PICK k \in Times : k < drained_at /\ rows[k].late /\ LengthAt(k, lists) > 0
    BY DEF Found, DrainTimes
  <2>2. k <= j
    BY <1>1, <2>1 DEF Found
  <2> QED BY <2>1, <2>2
<1>3. \A k \in Times : k <= j => k <= j + 1
  BY <1>1
<1>4. drained_at <= j + 1
  BY <1>1 DEF Found
<1> QED BY <1>2, <1>3, <1>4 DEF Found

\* A row read while nothing has drained yet.
LEMMA FoundPastRow ==
  ASSUME DrainInv, NEW lists \in SUBSET Lists, NEW j \in 0 .. LastTime - 1, j + 1 \in Times,
         NEW b \in BOOLEAN, Found(lists, j, b, None),
         NEW backlog, backlog = (b \/ (rows[j + 1].late /\ LengthAt(j + 1, lists) > 0)),
         NEW drained_at,
         drained_at = IF rows[j + 1].late /\ backlog /\ LengthAt(j + 1, lists) = 0
                      THEN j + 1 ELSE None
  PROVE  Found(lists, j + 1, backlog, drained_at)
<1> DEFINE L(k) == LengthAt(k, lists)
           After(k) == \E i \in Times : i < k /\ rows[i].late /\ L(i) > 0
<1>0. /\ LastTime \in Nat /\ Times \subseteq 1 .. LastTime /\ DOMAIN rows = 1 .. LastTime
      /\ \A k \in Times : L(k) \in Nat /\ k \in Nat
      /\ None \notin Nat
      /\ j \in Nat
  BY LastTimeIsNat, LengthIsNat, NoneIsNoTime
<1>1. DrainTimes(lists) = {k \in Times : L(k) = 0 /\ After(k)}
  BY DEF DrainTimes
<1> HIDE DEF L
<1>2. /\ b <=> \E k \in Times : k <= j /\ rows[k].late /\ L(k) > 0
      /\ \A k \in DrainTimes(lists) : k > j
  BY DEF Found, L
<1>3. b <=> After(j + 1)
  <2>1. \A k \in Times : k <= j <=> k < j + 1
    BY <1>0
  <2> QED BY <1>2, <2>1
<1>4. After(j + 1) => rows[j + 1].late
  BY <1>0 DEF DrainInv
<1>5. backlog <=> \E k \in Times : k <= j + 1 /\ rows[k].late /\ L(k) > 0
  <2>1. \A k \in Times : k <= j + 1 <=> (k <= j \/ k = j + 1)
    BY <1>0
  <2> QED BY <1>2, <2>1 DEF L
<1>6. j + 1 \in DrainTimes(lists) <=> drained_at = j + 1
  <2>1. L(j + 1) = 0 => ~(L(j + 1) > 0)
    OBVIOUS
  <2> QED BY <1>0, <1>1, <1>3, <1>4, <2>1 DEF L
<1>7. drained_at \in {j + 1, None} /\ j + 1 # None
  BY <1>0
<1>8. \A k \in DrainTimes(lists) : k \in Nat /\ (k > j + 1 \/ k = j + 1)
  <2>1. \A k \in DrainTimes(lists) : k \in Nat
    BY <1>0, <1>1
  <2> QED BY <1>0, <1>2, <2>1
<1>9. drained_at = None => \A k \in DrainTimes(lists) : k > j + 1
  BY <1>6, <1>7, <1>8
<1>10. drained_at # None => /\ drained_at \in DrainTimes(lists) /\ drained_at <= j + 1
                            /\ \A k \in DrainTimes(lists) : drained_at <= k
  <2> SUFFICES ASSUME drained_at # None
               PROVE  /\ j + 1 \in DrainTimes(lists) /\ drained_at = j + 1
                      /\ \A k \in DrainTimes(lists) : j + 1 <= k
    BY <1>0
  <2>1. drained_at = j + 1
    BY <1>7
  <2>2. j + 1 \in DrainTimes(lists)
    BY <1>6, <2>1
  <2>3. \A k \in DrainTimes(lists) : j + 1 <= k
    BY <1>0, <1>8
  <2> QED BY <2>1, <2>2, <2>3
<1> QED BY <1>5, <1>9, <1>10 DEF Found, L

\* What the loop of the summary has found, and that it saw a job if it saw a backlog.
LEMMA SummaryFinds ==
  ASSUME DrainInv
  PROVE  /\ Found(Lists, LastTime, Summary.backlog, Summary.drained_at)
         /\ Summary \in SummaryScans
         /\ Summary.backlog => Summary.max > 0
<1>0. PICK scan : SummaryRuns(scan)
  BY SummaryIsRun
<1>1. LastTime \in Nat /\ Lists \in SUBSET Lists
  BY LastTimeIsNat
<1> DEFINE P(j) == /\ Found(Lists, j, scan[j].backlog, scan[j].drained_at)
                   /\ scan[j] \in SummaryScans
                   /\ scan[j].backlog => scan[j].max > 0
           Good == {j \in Nat : P(j)}
<1>2. P(0)
  <2>1. SummaryStart \in SummaryScans
    BY DEF SummaryStart, SummaryScans
  <2>2. scan[0] \in SummaryScans /\ scan[0].backlog = FALSE /\ scan[0].drained_at = None
    BY <1>0, <2>1 DEF SummaryRuns, SummaryStart
  <2>3. Found(Lists, 0, FALSE, None)
    BY <1>1, FoundAtStart
  <2> QED BY <2>2, <2>3, Zenon
<1>3. ASSUME NEW j \in 0 .. LastTime - 1, P(j)
      PROVE  P(j + 1)
  <2>1. scan[j + 1] = IF j + 1 \in Times THEN SummaryLoop(j + 1, scan[j]) ELSE scan[j]
    BY <1>0 DEF SummaryRuns
  <2>2. CASE j + 1 \notin Times
    BY <1>1, <1>3, <2>1, <2>2, FoundPastNoRow
  <2>3. CASE j + 1 \in Times /\ scan[j].drained_at # None
    <3>1. scan[j + 1] = scan[j]
      BY <2>1, <2>3 DEF SummaryLoop
    <3> QED BY <1>1, <1>3, <2>3, <3>1, FoundPastDrain
  <2>4. CASE j + 1 \in Times /\ scan[j].drained_at = None
    <3> DEFINE n == LengthAt(j + 1, Lists)
               backlog == scan[j].backlog \/ (rows[j + 1].late /\ n > 0)
               drained_at == IF rows[j + 1].late /\ backlog /\ n = 0 THEN j + 1 ELSE None
               max == IF n > scan[j].max THEN n ELSE scan[j].max
    <3>1. scan[j + 1] = [max |-> max, backlog |-> backlog, drained_at |-> drained_at]
      BY <2>1, <2>4 DEF SummaryLoop
    <3>2. scan[j].backlog \in BOOLEAN /\ Found(Lists, j, scan[j].backlog, None)
      BY <1>3, <2>4 DEF SummaryScans
    <3> HIDE DEF n
    <3>3. Found(Lists, j + 1, backlog, drained_at)
      BY <1>1, <2>4, <3>2, FoundPastRow DEF n
    <3>4. n \in Nat /\ scan[j].max \in Nat
      BY <1>1, <1>3, <2>4, LengthIsNat DEF n, SummaryScans
    <3>5. backlog => max > 0
      BY <1>3, <3>4
    <3>6. scan[j + 1] \in SummaryScans
      BY <1>3, <2>1, <2>4, SummaryLoopType
    <3> HIDE DEF backlog, drained_at, max
    <3> QED BY <3>1, <3>3, <3>5, <3>6
  <2> QED BY <2>2, <2>3, <2>4
<1>4. LastTime \in Good
  <2> HIDE DEF P
  <2>1. 0 \in Good /\ \A j \in 0 .. LastTime - 1 : j \in Good => j + 1 \in Good
    BY <1>2, <1>3
  <2> HIDE DEF Good
  <2>2. \A j \in 0 .. LastTime : j \in Good
    BY <1>1, <2>1, UpTo
  <2> QED BY <1>1, <2>2
<1> QED BY <1>0, <1>4 DEF SummaryRuns

\* What the loop of the sweep has found.
LEMMA DrainFinds ==
  ASSUME DrainInv, NEW lists \in SUBSET Lists
  PROVE  \E backlog, drained_at :
           /\ backlog \in BOOLEAN
           /\ Found(lists, LastTime, backlog, drained_at)
           /\ CalculateDrainSeconds(lists) = Seconds(backlog, drained_at)
<1>0. PICK scan : DrainRuns(lists, scan)
  BY DrainIsRun
<1>1. LastTime \in Nat
  BY LastTimeIsNat
<1> DEFINE P(j) == /\ Found(lists, j, scan[j].backlog, scan[j].drained_at)
                   /\ scan[j] \in DrainScans
           Good == {j \in Nat : P(j)}
<1>2. P(0)
  <2>1. DrainStart \in DrainScans
    BY DEF DrainStart, DrainScans
  <2>2. scan[0] \in DrainScans /\ scan[0].backlog = FALSE /\ scan[0].drained_at = None
    BY <1>0, <2>1 DEF DrainRuns, DrainStart
  <2>3. Found(lists, 0, FALSE, None)
    BY FoundAtStart
  <2> QED BY <2>2, <2>3, Zenon
<1>3. ASSUME NEW j \in 0 .. LastTime - 1, P(j)
      PROVE  P(j + 1)
  <2>1. scan[j + 1] = IF j + 1 \in Times THEN DrainLoop(lists, j + 1, scan[j]) ELSE scan[j]
    BY <1>0 DEF DrainRuns
  <2>2. CASE j + 1 \notin Times
    BY <1>3, <2>1, <2>2, FoundPastNoRow
  <2>3. CASE j + 1 \in Times /\ scan[j].drained_at # None
    <3>1. scan[j + 1] = scan[j]
      BY <2>1, <2>3 DEF DrainLoop
    <3> QED BY <1>3, <2>3, <3>1, FoundPastDrain
  <2>4. CASE j + 1 \in Times /\ scan[j].drained_at = None
    <3> DEFINE n == LengthAt(j + 1, lists)
               backlog == scan[j].backlog \/ (rows[j + 1].late /\ n > 0)
               drained_at == IF rows[j + 1].late /\ backlog /\ n = 0 THEN j + 1 ELSE None
    <3>1. scan[j] \in DrainScans /\ rows[j + 1].late \in BOOLEAN /\ n \in Nat
      BY <1>3, <2>4, LengthIsNat, RowIsLateOrNot
    <3>2. scan[j].backlog \in BOOLEAN /\ Found(lists, j, scan[j].backlog, None)
      BY <1>3, <2>4 DEF DrainScans
    <3>3. scan[j + 1] \in DrainScans
      BY <1>3, <2>1, <2>4, DrainLoopType
    <3>4. scan[j + 1].backlog = backlog /\ scan[j + 1].drained_at = drained_at
      BY <2>1, <2>4, <3>1 DEF DrainLoop, DrainScans
    <3>5. Found(lists, j + 1, backlog, drained_at)
      <4> HIDE DEF n
      <4> QED BY <2>4, <3>2, FoundPastRow DEF n
    <3> HIDE DEF backlog, drained_at
    <3> QED BY <3>3, <3>4, <3>5
  <2> QED BY <2>2, <2>3, <2>4
<1>4. LastTime \in Good
  <2> HIDE DEF P
  <2>1. 0 \in Good /\ \A j \in 0 .. LastTime - 1 : j \in Good => j + 1 \in Good
    BY <1>2, <1>3
  <2> HIDE DEF Good
  <2>2. \A j \in 0 .. LastTime : j \in Good
    BY <1>1, <2>1, UpTo
  <2> QED BY <1>1, <2>2
<1>5. P(LastTime) /\ scan[LastTime].backlog \in BOOLEAN
  BY <1>4 DEF DrainScans
<1> QED BY <1>0, <1>5 DEF DrainRuns

\* All rows read, there is one thing to find.
LEMMA FoundIsUnique ==
  ASSUME DrainInv, NEW lists \in SUBSET Lists,
         NEW b \in BOOLEAN, NEW d, Found(lists, LastTime, b, d),
         NEW c \in BOOLEAN, NEW e, Found(lists, LastTime, c, e)
  PROVE  b = c /\ d = e
<1>0. LastTime \in Nat /\ \A k \in DrainTimes(lists) : k \in Nat /\ ~(k > LastTime)
  BY LastTimeIsNat DEF DrainTimes
<1>1. b = c
  BY DEF Found
<1>2. d = None <=> DrainTimes(lists) = {}
  BY <1>0 DEF Found
<1>3. e = None <=> DrainTimes(lists) = {}
  BY <1>0 DEF Found
<1>4. CASE d # None /\ e # None
  <2>1. d \in DrainTimes(lists) /\ e \in DrainTimes(lists) /\ d <= e /\ e <= d
    BY <1>4 DEF Found
  <2> QED BY <1>0, <1>1, <2>1
<1> QED BY <1>1, <1>2, <1>3, <1>4

\* The test for lists that were never used is subsumed by the test for a backlog.
LEMMA SummarySeconds ==
  ASSUME DrainInv
  PROVE  SummaryDrainSeconds = Seconds(Summary.backlog, Summary.drained_at)
<1>1. Summary \in SummaryScans /\ (Summary.backlog => Summary.max > 0)
  BY SummaryFinds
<1>2. Summary.max \in Nat /\ Summary.backlog \in BOOLEAN
  BY <1>1 DEF SummaryScans
<1> QED BY <1>1, <1>2 DEF SummaryDrainSeconds, Seconds

-----------------------------------------------------------------------------
(* The theorems *)

LEMMA Agree == DrainInv => SummariesAgree
<1> SUFFICES ASSUME DrainInv PROVE SummariesAgree
  OBVIOUS
<1>1. PICK backlog, drained_at :
        /\ backlog \in BOOLEAN
        /\ Found(Lists, LastTime, backlog, drained_at)
        /\ CalculateDrainSeconds(Lists) = Seconds(backlog, drained_at)
  BY DrainFinds
<1>2. Summary.backlog \in BOOLEAN /\ Found(Lists, LastTime, Summary.backlog, Summary.drained_at)
  BY SummaryFinds DEF SummaryScans
<1>3. backlog = Summary.backlog /\ drained_at = Summary.drained_at
  BY <1>1, <1>2, FoundIsUnique
<1> QED BY <1>1, <1>3, SummarySeconds DEF SummariesAgree

LEMMA FirstEmpty ==
  ASSUME DrainInv, NEW lists \in SUBSET Lists
  PROVE  /\ DrainTimes(lists) # {} =>
              /\ CalculateDrainSeconds(lists) \in DrainTimes(lists)
              /\ \A k \in DrainTimes(lists) : CalculateDrainSeconds(lists) <= k
         /\ DrainTimes(lists) = {} =>
              (CalculateDrainSeconds(lists) = None
                 <=> Times = {} \/ \E k \in Times : rows[k].late /\ LengthAt(k, lists) > 0)
<1>1. PICK backlog, drained_at :
        /\ backlog \in BOOLEAN
        /\ Found(lists, LastTime, backlog, drained_at)
        /\ CalculateDrainSeconds(lists) = Seconds(backlog, drained_at)
  BY DrainFinds
<1>2. /\ LastTime \in Nat /\ 0 # None
      /\ \A k \in Times : k <= LastTime /\ ~(k > LastTime)
      /\ DrainTimes(lists) \subseteq Times
  BY LastTimeIsNat, NoneIsNoTime DEF DrainTimes
<1>3. backlog <=> \E k \in Times : rows[k].late /\ LengthAt(k, lists) > 0
  BY <1>1, <1>2 DEF Found
<1>4. CASE DrainTimes(lists) # {}
  <2>1. backlog /\ Times # {}
    BY <1>3, <1>4 DEF DrainTimes
  <2>2. drained_at # None
    <3>1. PICK k : k \in DrainTimes(lists)
      BY <1>4, Zenon
    <3>2. k \in Times /\ ~(k > LastTime)
      BY <1>2, <3>1
    <3> QED BY <1>1, <3>1, <3>2 DEF Found
  <2>3. CalculateDrainSeconds(lists) = drained_at
    BY <1>1, <2>1 DEF Seconds
  <2> QED BY <1>1, <1>4, <2>2, <2>3 DEF Found
<1>5. CASE DrainTimes(lists) = {}
  <2>1. drained_at = None
    BY <1>1, <1>5 DEF Found
  <2>2. CalculateDrainSeconds(lists) = None <=> Times = {} \/ backlog
    BY <1>1, <1>2, <2>1 DEF Seconds
  <2> QED BY <1>3, <1>5, <2>2
<1> QED BY <1>4, <1>5

LEMMA LastHasBacklog == DrainInv => UndrainedHasBacklog
<1> SUFFICES ASSUME DrainInv, Times # {}, SummaryDrainSeconds = None
             PROVE  \E k \in Times : /\ rows[k].late /\ rows[k].node \in Reaching
                                    /\ LengthAt(k, Lists) > 0
                                    /\ \A j \in Times : j <= k
  BY DEF UndrainedHasBacklog
<1>0. /\ LastTime \in Nat /\ DOMAIN rows = 1 .. LastTime /\ Times \in SUBSET (1 .. LastTime)
      /\ 0 # None /\ Lists \in SUBSET Lists
      /\ \A k \in Times : k <= LastTime /\ ~(k > LastTime)
  BY LastTimeIsNat, NoneIsNoTime
<1>1. /\ Summary.backlog /\ Summary.drained_at = None
      /\ Found(Lists, LastTime, Summary.backlog, Summary.drained_at)
  <2>1. SummaryDrainSeconds = IF Summary.backlog THEN Summary.drained_at ELSE 0
    BY SummarySeconds DEF Seconds
  <2> QED BY <1>0, <2>1, SummaryFinds
<1>2. PICK i \in Times : rows[i].late /\ LengthAt(i, Lists) > 0
  BY <1>1 DEF Found
<1>3. DrainTimes(Lists) = {}
  <2>1. \A k \in DrainTimes(Lists) : k \in Times /\ k > LastTime
    BY <1>1 DEF Found, DrainTimes
  <2> QED BY <1>0, <2>1
<1> DEFINE k == Max(Times)
<1>4. k \in Times /\ \A j \in Times : k >= j
  BY <1>0, <1>2, MaxIsLast
<1> HIDE DEF k
<1>5. LengthAt(k, Lists) \in Nat /\ (rows[k].node \notin Reaching => LengthAt(k, Lists) = 0)
  BY <1>0, <1>4, LengthIsNat
<1>6. i = k \/ i < k
  BY <1>0, <1>4
<1>7. LengthAt(k, Lists) # 0
  <2>1. CASE i = k
    BY <1>2, <2>1
  <2>2. CASE i < k
    BY <1>2, <1>3, <1>4, <2>2 DEF DrainTimes
  <2> QED BY <1>6, <2>1, <2>2
<1>8. rows[k].late
  BY <1>0, <1>2, <1>4, <1>6 DEF DrainInv
<1>9. \A j \in Times : j <= k
  BY <1>0, <1>4
<1> QED BY <1>4, <1>5, <1>7, <1>8, <1>9

\* The report of a run and the row of its sweep name one drain time, whatever the nodes
\* sampled: the two loops were written twice (analyze_results.py:21-78,
\* sweep_runner.py:72-107).
THEOREM SummariesAgreeAlways == Spec => []SummariesAgree
BY DrainInit, DrainStep, Agree, PTL DEF Spec

\* The drain time of a sweep is the first sample after the end of the submissions that
\* shows the lists empty after one that did not, for any of the lists; without one it is
\* None of a file without samples and after a late backlog, and 0 else
\* (sweep_runner.py:78-107).
THEOREM DrainIsFirstEmptyAlways == Spec => []DrainIsFirstEmpty
<1>1. DrainInv => DrainIsFirstEmpty
  <2> SUFFICES ASSUME DrainInv PROVE DrainIsFirstEmpty
    OBVIOUS
  <2>1. \A lists \in {Lists, {"default"}, {"heavy"}} : lists \in SUBSET Lists
    BY DEF Lists
  <2> QED BY <2>1, FirstEmpty DEF DrainIsFirstEmpty
<1> QED BY <1>1, DrainInit, DrainStep, PTL DEF Spec

\* A run with samples and without a drain time had jobs in its lists at its last sample,
\* of a node that reaches Redis (analyze_results.py:26-78).
THEOREM UndrainedHasBacklogAlways == Spec => []UndrainedHasBacklog
BY DrainInit, DrainStep, LastHasBacklog, PTL DEF Spec

=============================================================================
