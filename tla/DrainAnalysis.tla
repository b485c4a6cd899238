---------------------------- MODULE DrainAnalysis ----------------------------
(***************************************************************************)
(* Whether the lists drained: the samples that the QueueMonitors of all    *)
(* nodes take of jobs:default and jobs:heavy, and the two programs that    *)
(* read them, summarize_queue_drain of analyze_results.py and              *)
(* calculate_drain_seconds of sweep_runner.py.                             *)
(*                                                                         *)
(* Clocks agree, and a time is the number of the sample stamped then; the  *)
(* end of the submissions, run_started_at + duration, is reckoned from     *)
(* before the warmup and passes while k6 still submits.                    *)
(***************************************************************************)
EXTENDS Naturals, Sequences, FiniteSetsExt

CONSTANTS
  Samplers,   \* the nodes of the cluster
  Reaching,   \* those from which --redis-url leads to Redis
  MaxLength,  \* bound of the instance: jobs in a list
  MaxRows,    \* bound of the instance: samples
  Blank,      \* a cell left empty after a RedisError
  Unread,     \* LLEN has not answered yet
  None

ASSUME DrainAssumption ==
  /\ Reaching \subseteq Samplers /\ MaxLength \in Nat /\ MaxRows \in Nat
  /\ {Blank, Unread, None} \intersect Nat = {} /\ Blank # Unread

Lists == {"default", "heavy"}

VARIABLES
  load,     \* k6 submits before the reckoned end, or past it, or has stopped
  lengths,  \* the true length of each list
  rows      \* the samples by their time stamps, those still being taken included

vars == <<load, lengths, rows>>

Cells == Nat \union {Blank, Unread}
SampleRow == [node : Samplers, late : BOOLEAN, cell : [Lists -> Cells]]

TypeOK ==
  /\ load \in {"on", "past_end", "off"}
  /\ lengths \in [Lists -> 0 .. MaxLength]
  /\ rows \in Seq(SampleRow) /\ Len(rows) <= MaxRows
  /\ \A k \in DOMAIN rows :
       (\E q \in Lists : rows[k].cell[q] = Blank) <=> (\A q \in Lists : rows[k].cell[q] = Blank)

Init == load = "on" /\ lengths = [q \in Lists |-> 0] /\ rows = << >>

-----------------------------------------------------------------------------
(* The run *)

Submit(q) ==
  /\ load # "off" /\ lengths[q] < MaxLength
  /\ lengths' = [lengths EXCEPT ![q] = @ + 1]
  /\ UNCHANGED <<load, rows>>

Take(q) ==
  /\ lengths[q] > 0
  /\ lengths' = [lengths EXCEPT ![q] = @ - 1]
  /\ UNCHANGED <<load, rows>>

\* run_started_at + duration passes; later the last request is sent.
LoadGoesOn ==
  /\ \/ load = "on" /\ load' = "past_end"
     \/ load = "past_end" /\ load' = "off"
  /\ UNCHANGED <<lengths, rows>>

Finished(row) == \A q \in Lists : row.cell[q] # Unread

\* The round of a QueueMonitor begins with the time stamp.
Stamp(n) ==
  /\ Len(rows) < MaxRows
  /\ \A k \in DOMAIN rows : rows[k].node = n => Finished(rows[k])
  /\ rows' = Append(rows, [node |-> n, late |-> load # "on", cell |-> [q \in Lists |-> Unread]])
  /\ UNCHANGED <<load, lengths>>

\* Mutant: each LLEN has its own except clause.
ReadLengthApart(k) ==
  LET cell == rows[k].cell
      next == IF cell["default"] = Unread THEN "default" ELSE "heavy" IN
  /\ cell[next] = Unread
  /\ \/ /\ rows[k].node \in Reaching
        /\ rows' = [rows EXCEPT ![k].cell[next] = lengths[next]]
     \/ rows' = [rows EXCEPT ![k].cell[next] = Blank]
  /\ UNCHANGED <<load, lengths>>

\* LLEN of jobs:default, then of jobs:heavy; a RedisError, which any
\* node may get, leaves both cells blank.
ReadLength(k) ==
  LET cell == rows[k].cell
      next == IF cell["default"] = Unread THEN "default" ELSE "heavy" IN
  /\ cell[next] = Unread
  /\ \/ /\ rows[k].node \in Reaching
        /\ rows' = [rows EXCEPT ![k].cell[next] = lengths[next]]
     \/ rows' = [rows EXCEPT ![k].cell = [q \in Lists |-> Blank]]
  /\ UNCHANGED <<load, lengths>>

Next ==
  \/ \E q \in Lists : Submit(q) \/ Take(q)
  \/ LoadGoesOn
  \/ \E n \in Samplers : Stamp(n)
  \/ \E k \in DOMAIN rows : ReadLength(k)

Spec == Init /\ [][Next]_vars

-----------------------------------------------------------------------------
(* The analysis of queue_stats.csv, sorted by time: an unfinished row is not in it *)

Times == {k \in DOMAIN rows : Finished(rows[k])}

\* int(cell or 0), summed over some of the lists
Count(x) == IF x = Blank THEN 0 ELSE x
LengthAt(k, lists) == SumFunctionOnSet([q \in Lists |-> Count(rows[k].cell[q])], lists)

\* Mutant: an empty list counts as drained without a backlog before it.
LoopTakesAnyZero(k, scan) ==
  IF scan.drained_at # None THEN scan
  ELSE LET n == LengthAt(k, Lists) IN
       [max |-> IF n > scan.max THEN n ELSE scan.max,
        backlog |-> scan.backlog \/ (rows[k].late /\ n > 0),
        drained_at |-> IF rows[k].late /\ n = 0 THEN k ELSE None]

\* Mutant: jobs that wait before the end of the submissions make a backlog too.
LoopBacklogFromStart(k, scan) ==
  IF scan.drained_at # None THEN scan
  ELSE LET n == LengthAt(k, Lists)
           backlog == scan.backlog \/ n > 0
       IN [max |-> IF n > scan.max THEN n ELSE scan.max,
           backlog |-> backlog,
           drained_at |-> IF rows[k].late /\ backlog /\ n = 0 THEN k ELSE None]

\* The loop of summarize_queue_drain, which breaks once the lists are drained.
SummaryLoop(k, scan) ==
  IF scan.drained_at # None THEN scan
  ELSE LET n == LengthAt(k, Lists)
           backlog == scan.backlog \/ (rows[k].late /\ n > 0)
       IN [max |-> IF n > scan.max THEN n ELSE scan.max,
           backlog |-> backlog,
           drained_at |-> IF rows[k].late /\ backlog /\ n = 0 THEN k ELSE None]

\* Over the file from its first row to its last: whatever comes before the last row has
\* been looped over when the last row is.
Summary ==
  MapThenFoldSet(SummaryLoop, [max |-> 0, backlog |-> FALSE, drained_at |-> None],
                 LAMBDA k : k, Max, Times)

\* 0 stands for the 0.0 of a run without a backlog.  Of a file without rows there is no
\* summary, and who looks for the figure in it gets None.
SummaryDrainSeconds ==
  IF Times = {} THEN None
  ELSE IF Summary.max = 0 \/ ~Summary.backlog THEN 0 ELSE Summary.drained_at

\* Mutant: the samples before the end of the submissions count as well.
DrainLoopFromStart(lists, k, scan) ==
  IF scan.drained_at # None THEN scan
  ELSE LET n == LengthAt(k, lists)
           backlog == scan.backlog \/ n > 0
       IN [backlog |-> backlog, drained_at |-> IF backlog /\ n = 0 THEN k ELSE None]

\* The loop of calculate_drain_seconds, which returns once the lists are drained.
DrainLoop(lists, k, scan) ==
  IF scan.drained_at # None \/ ~rows[k].late THEN scan
  ELSE LET n == LengthAt(k, lists)
           backlog == scan.backlog \/ n > 0
       IN [backlog |-> backlog, drained_at |-> IF backlog /\ n = 0 THEN k ELSE None]

\* None for a file without rows, as queue_metrics has it.
CalculateDrainSeconds(lists) ==
  IF Times = {} THEN None
  ELSE LET scan == MapThenFoldSet(LAMBDA k, s : DrainLoop(lists, k, s),
                                  [backlog |-> FALSE, drained_at |-> None],
                                  LAMBDA k : k, Max, Times)
       IN IF scan.backlog THEN scan.drained_at ELSE 0

-----------------------------------------------------------------------------
(* Properties *)

\* The report of a run and the row of its sweep name one drain time: the two loops
\* were written twice (analyze_results.py 21-78, sweep_runner.py 72-107).
SummariesAgree == SummaryDrainSeconds = CalculateDrainSeconds(Lists)

\* What both loops are meant to find: the first sample after the end of the
\* submissions that shows the lists empty after one that did not.
DrainTimes(lists) ==
  {k \in Times : /\ LengthAt(k, lists) = 0
                 /\ \E j \in Times : j < k /\ rows[j].late /\ LengthAt(j, lists) > 0}

\* The drain time of a sweep is that one for the two lists and for each of them, and
\* without one it is None only of a file without samples or after a late backlog, so
\* that a number rules out that jobs were left (sweep_runner.py 78-107).
DrainIsFirstEmpty ==
  \A lists \in {Lists, {"default"}, {"heavy"}} :
    LET seconds == CalculateDrainSeconds(lists) IN
    /\ DrainTimes(lists) # {} =>
         seconds \in DrainTimes(lists) /\ \A k \in DrainTimes(lists) : seconds <= k
    /\ DrainTimes(lists) = {} =>
         (seconds = None
            <=> Times = {} \/ \E k \in Times : rows[k].late /\ LengthAt(k, lists) > 0)

\* A run that has samples and is reported without a drain time had jobs in its lists when
\* its last sample was taken, a late one of a node that reaches Redis
\* (analyze_results.py 26-78).
UndrainedHasBacklog ==
  Times # {} /\ SummaryDrainSeconds = None =>
    \E k \in Times : /\ rows[k].late /\ rows[k].node \in Reaching
                     /\ LengthAt(k, Lists) > 0
                     /\ \A j \in Times : j <= k

\* "Cooldown is used to observe whether queues recover and drain"
\* (docs/benchmarking-methodology.md:167): once k6 has stopped, a run that is reported
\* as drained has no jobs left in its lists.
DrainedIsEmpty ==
  load = "off" /\ Summary.drained_at # None => \A q \in Lists : lengths[q] = 0
=============================================================================
