-------------------------------- MODULE Sweep --------------------------------
(***************************************************************************)
(* sweep_runner.py: one benchmark run after the other, as programs of      *)
(* their own that share the directory of results and the nodes.  The row   *)
(* of a run is made from what the link "latest" leads to.                  *)
(***************************************************************************)
EXTENDS BenchmarkRun

VARIABLES
  mode,     \* --mode
  sweepPc,  \* "next" run, "running", or how the sweep ended
  rate,     \* the index of the rate that runs, or runs next
  rows      \* the runs whose figures were read, in that order

sweepVars == <<mode, sweepPc, rate, rows>>
vars == <<sweepVars, runVars, monitorVars>>

TypeOK ==
  /\ RunTypeOK
  /\ mode \in {"local", "cluster"}
  /\ sweepPc \in {"next", "running", "aborted", "done"}
  /\ rate \in 1 .. NumRates + 1
  /\ rows \in Seq(Runs \union {NoRun}) /\ Len(rows) <= NumRates

Init ==
  /\ RunInit
  /\ mode \in {"local", "cluster"}
  /\ sweepPc = "next" /\ rate = 1 /\ rows = << >>

-----------------------------------------------------------------------------

\* subprocess.run starts the program of the next run.
StartRun ==
  /\ sweepPc = "next" /\ rate <= NumRates
  /\ sweepPc' = "running"
  /\ runPc' = IF mode = "cluster" THEN "check" ELSE "clean"
  /\ at' = 1 /\ pids' = {} /\ raised' = FALSE
  /\ UNCHANGED <<mode, rate, rows, k6, asked, collected, latest, outcome, monitorVars>>

\* Mutant: the return code of the run is not looked at.
RunEndedAnyhow ==
  /\ sweepPc = "running" /\ runPc = "off"
  /\ rows' = Append(rows, latest) /\ rate' = rate + 1 /\ sweepPc' = "next"
  /\ UNCHANGED <<mode, runVars, monitorVars>>

\* A failed run ends the sweep, and so does what raises while the figures of a run are
\* read; the rows of the runs before it are lost.
RunEnded ==
  /\ sweepPc = "running" /\ runPc = "off"
  /\ \/ /\ outcome[rate] = "ok"
        /\ rows' = Append(rows, latest) /\ rate' = rate + 1 /\ sweepPc' = "next"
     \/ sweepPc' = "aborted" /\ UNCHANGED <<rate, rows>>
  /\ UNCHANGED <<mode, runVars, monitorVars>>

\* sweep_results.csv is written once all rates have run, and reported on.
WriteResults ==
  /\ sweepPc = "next" /\ rate > NumRates
  /\ sweepPc' \in {"done", "aborted"}
  /\ UNCHANGED <<mode, rate, rows, runVars, monitorVars>>

RunSteps ==
  /\ sweepPc = "running"
  /\ \/ mode = "cluster" /\ ClusterRun(rate)
     \/ mode = "local" /\ LocalRun(rate)
  /\ UNCHANGED sweepVars

SweepSteps == StartRun \/ RunSteps \/ RunEnded \/ WriteResults

\* A local run is the main thread of its own monitors.
MonitorSteps(p) == mode = "cluster" /\ MonitorMain(p) /\ UNCHANGED <<sweepVars, runVars>>
DockerSteps(p) == DockerThreadEnds(p) /\ UNCHANGED <<sweepVars, runVars>>
QueueSteps(p) == QueueThreadEnds(p) /\ UNCHANGED <<sweepVars, runVars>>

Next ==
  \/ SweepSteps
  \/ \E p \in Procs : MonitorSteps(p) \/ DockerSteps(p) \/ QueueSteps(p)

\* Commands return, and the main threads and the queue threads go on; `docker stats'
\* need never return.
Fairness ==
  /\ WF_vars(SweepSteps)
  /\ \A p \in Procs : WF_vars(MonitorSteps(p) \/ QueueSteps(p))

Spec == Init /\ [][Next]_vars /\ Fairness

-----------------------------------------------------------------------------
(* Properties *)

\* The k-th row of a sweep holds the figures of its k-th run, one that succeeded with k6
\* and, on a cluster, got the CSV files of all nodes: `latest' of the run before it, or of
\* a failed one, is never read, and a download that broke off makes no row
\* (sweep_runner.py 312-317, cluster_runner.py 381-425 and 673-710).  A node can be missing
\* from the figures only because its sampler's first round hung or raised.
RowsAreTheRuns ==
  \A k \in DOMAIN rows :
    /\ rows[k] = k /\ outcome[k] = "ok" /\ k6[k] = "ok"
    /\ mode = "cluster" =>
         /\ \A n \in Nodes : collected[<<k, n>>] # "none"
         /\ Nodes \ Silent \subseteq MergedNodes(k)

\* When k6 loads the cluster, every monitor of an earlier run was told to stop: what a
\* failed start leaves running never samples, or slows, a later run of the sweep
\* (cluster_runner.py 287-316 and 637-678, sweep_runner.py 312-315).
NoMonitorIsForgotten ==
  runPc = "k6" => \A p \in Procs : p[1] < rate /\ Alive(p) => p \in asked \/ mode = "local"

\* A local run reads queue_stats.csv when nobody writes it any more
\* (run_benchmark.py 222-253, queue_monitor.py 34-38).
LocalQueueFileIsClosed ==
  mode = "local" /\ runPc = "report" => queueThread[<<rate, LocalNode>>] = "over"

\* The monitors that took note of SIGTERM end, though their `docker stats' may hang: the
\* time comes when none of them waits for a thread any more (remote_monitor.py 60-73,
\* docker_monitor.py 58-62).
StoppedMonitorsExit ==
  <>[](\A p \in Procs : proc[p] \notin {"join_docker", "join_queue"})

\* A sweep comes to an end, whatever becomes of its runs and of `docker stats'
\* (run_benchmark.py 214-227).
SweepEnds == <>(sweepPc \in {"aborted", "done"})

\* Contradicted: "10. Stop monitors and download metrics" (docs/benchmarking-methodology.md:121),
\* the last step but one of every run.  When a run has ended, each monitor it
\* started was told to stop.
MonitorsAreStopped ==
  mode = "cluster" =>
    \A p \in Procs : Alive(p) /\ outcome[p[1]] # "none" => p \in asked
=============================================================================
