---------------------------- MODULE BenchmarkRun ----------------------------
(***************************************************************************)
(* One benchmark run: the main program of cluster_runner.py, which starts  *)
(* a monitor on every node over ssh, or of run_benchmark.py, which samples *)
(* the local machine itself, around one execution of k6.                   *)
(*                                                                         *)
(* Any command may fail.  An exception between the start of the monitors   *)
(* and their stop is held back (raised) while the finally clause runs.     *)
(* Preparation that changes no shared state (arguments, config.json, the   *)
(* names of directories) is left out, and so are the sleeps.               *)
(***************************************************************************)
EXTENDS Monitors, Sequences

CONSTANTS
  NodeSeq,    \* cluster.nodes, in the order of the configuration
  LocalNode,  \* the one that stands for the machine of a local run
  Silent,     \* the nodes on which the first round of a sampler may hang or raise
  NumRates    \* the runs of a sweep, one after the other

Runs == 1 .. NumRates
Nodes == {NodeSeq[k] : k \in DOMAIN NodeSeq}
NoRun == 0

\* load_cluster_config refuses an empty list and a name used twice.
ASSUME NodesAssumption ==
  /\ NodeSeq \in Seq(Nodes) /\ NodeSeq # << >>
  /\ \A j, k \in DOMAIN NodeSeq : NodeSeq[j] = NodeSeq[k] => j = k
  /\ LocalNode \in Nodes /\ Silent \subseteq Nodes
  /\ NumRates \in Nat \ {0}
  /\ Procs = Runs \X Nodes

VARIABLES
  runPc,      \* where the program of the current run is
  at,         \* the index in NodeSeq its loop is at
  pids,       \* monitor_pids: the nodes whose process id main remembers
  raised,     \* an exception is on its way out
  k6,         \* what became of k6 in each run
  asked,      \* the monitors that a stop was attempted on
  collected,  \* the CSV files of each monitor that were downloaded, and what they hold
  latest,     \* the run the link "latest" leads to
  outcome     \* the exit of each run: its return code is 0, or not

runVars == <<runPc, at, pids, raised, k6, asked, collected, latest, outcome>>

RunPcs == {"off", "check", "clean", "start", "k6", "stop", "download", "report",
           "join_queue", "join_docker"}

\* What was downloaded of a monitor: nothing, three CSV files each with samples, or
\* files one of which is empty or has only its header.
Contents == {"none", "blank", "rows"}

RunTypeOK ==
  /\ MonitorsTypeOK
  /\ runPc \in RunPcs
  /\ at \in 1 .. Len(NodeSeq)
  /\ pids \subseteq Nodes
  /\ raised \in BOOLEAN
  /\ k6 \in [Runs -> {"not_run", "ok", "failed"}]
  /\ asked \subseteq Procs
  /\ collected \in [Procs -> Contents]
  /\ latest \in Runs \union {NoRun}
  /\ outcome \in [Runs -> {"none", "ok", "failed"}]

RunInit ==
  /\ MonitorsInit
  /\ runPc = "off" /\ at = 1 /\ pids = {} /\ raised = FALSE
  /\ k6 = [r \in Runs |-> "not_run"]
  /\ asked = {} /\ collected = [p \in Procs |-> "none"]
  /\ latest = NoRun
  /\ outcome = [r \in Runs |-> "none"]

-----------------------------------------------------------------------------

\* The program goes on at the head of its next loop or statement.
GoOn(to) ==
  /\ runPc' = to /\ at' = 1
  /\ UNCHANGED outcome

\* Mutant: the loop runs once more than there are nodes.
NextNodeTooFar(to) ==
  \/ at <= Len(NodeSeq) /\ at' = at + 1 /\ UNCHANGED <<runPc, outcome>>
  \/ at = Len(NodeSeq) /\ GoOn(to)

\* The next node of the loop, or what follows it.
NextNode(to) ==
  \/ at < Len(NodeSeq) /\ at' = at + 1 /\ UNCHANGED <<runPc, outcome>>
  \/ at = Len(NodeSeq) /\ GoOn(to)

ExitRun(r, how) ==
  /\ outcome' = [outcome EXCEPT ![r] = how]
  /\ runPc' = "off" /\ at' = 1

-----------------------------------------------------------------------------
(* cluster_runner.py *)

\* check_api_health and check_ssh_connections.
Check(r) ==
  /\ runPc = "check"
  /\ GoOn("clean") \/ ExitRun(r, "failed")
  /\ UNCHANGED <<pids, raised, k6, asked, collected, latest, monitorVars>>

\* cleanup_remote_node: FLUSHDB, TRUNCATE and the emptying of the bucket, the first
\* failure of which ends the run.
Clean(r) ==
  /\ runPc = "clean"
  /\ GoOn("start") \/ ExitRun(r, "failed")
  /\ UNCHANGED <<pids, raised, k6, asked, collected, latest, monitorVars>>

\* Mutant: a node whose monitor reports no process id is passed over.
StartSkipsNode(r) ==
  LET n == NodeSeq[at] IN
  /\ runPc = "start"
  /\ Launch(<<r, n>>)
  /\ pids' = pids \union {n} \/ UNCHANGED pids
  /\ NextNode("k6")
  /\ UNCHANGED <<raised, k6, asked, collected, latest>>

\* One round of start_remote_monitors.  Its dictionary reaches main when it returns:
\* what raises, on whichever node, leaves main with none.
StartMonitor(r) ==
  LET n == NodeSeq[at] IN
  /\ runPc = "start"
  /\ \/ /\ Launch(<<r, n>>)
        /\ pids' = pids \union {n}
        /\ NextNode("k6")
        /\ UNCHANGED raised
     \/ /\ Launch(<<r, n>>) \/ UNCHANGED monitorVars
        /\ pids' = {}
        /\ raised' = TRUE
        /\ GoOn("stop")
  /\ UNCHANGED <<k6, asked, collected, latest>>

\* k6 runs through; or it returns another code than 0, or cannot be run at all, and
\* an exception leaves the try block.
RunK6(r) ==
  /\ runPc = "k6"
  /\ \/ k6' = [k6 EXCEPT ![r] = "ok"] /\ UNCHANGED raised
     \/ k6' = [k6 EXCEPT ![r] = "failed"] /\ raised' = TRUE
     \/ UNCHANGED k6 /\ raised' = TRUE
  /\ GoOn("stop")
  /\ UNCHANGED <<pids, asked, collected, latest, monitorVars>>

\* One round of stop_remote_monitors.  A node without a process id is passed over.
\* ssh may not get through: its return code is not looked at and what it raises is
\* caught.
StopMonitor(r) ==
  LET n == NodeSeq[at] IN
  /\ runPc = "stop"
  /\ \/ n \notin pids /\ UNCHANGED <<asked, monitorVars>>
     \/ /\ n \in pids
        /\ asked' = asked \union {<<r, n>>}
        /\ Signal(<<r, n>>) \/ UNCHANGED monitorVars
  /\ \/ pids # {} /\ NextNode("download")
     \/ pids = {} /\ ExitRun(r, "failed")
  /\ UNCHANGED <<pids, raised, k6, collected, latest>>

\* One round of download_node_results: the CSV files of a node as they are, also
\* while it still writes them.  Headers and rows are flushed once a round is through,
\* so a file is empty while the first `docker stats' hangs, and has only a header if it
\* raised.  A missing file or a failing scp raises, and the nodes after it are not
\* downloaded.  After the last one an exception goes on its way.
DownloadNode(r) ==
  LET n == NodeSeq[at] IN
  /\ runPc = "download"
  /\ \/ /\ FilesExist(<<r, n>>)
        /\ \E held \in {"rows"} \union (IF n \in Silent THEN {"blank"} ELSE {}) :
             collected' = [collected EXCEPT ![<<r, n>>] = held]
        /\ \/ at < Len(NodeSeq) /\ NextNode("report")
           \/ at = Len(NodeSeq) /\ ~raised /\ GoOn("report")
           \/ at = Len(NodeSeq) /\ raised /\ ExitRun(r, "failed")
     \/ UNCHANGED collected /\ ExitRun(r, "failed")
  /\ UNCHANGED <<pids, raised, k6, asked, latest, monitorVars>>

\* The nodes of which each of the merged CSV files has samples: merge_csv_files passes
\* over an empty file, and finds no row in one with only a header, and says nothing.
MergedNodes(r) == {n \in Nodes : collected[<<r, n>>] = "rows"}

\* merge_node_results, whatever the files hold, the timelines, the analysis and the
\* report, then update_latest.
ClusterReport(r) ==
  /\ runPc = "report"
  /\ \/ latest' = r /\ ExitRun(r, "ok")
     \/ UNCHANGED latest /\ ExitRun(r, "failed")
  /\ UNCHANGED <<pids, raised, k6, asked, collected, monitorVars>>

ClusterRun(r) ==
  \/ Check(r) \/ Clean(r) \/ StartMonitor(r) \/ RunK6(r) \/ StopMonitor(r)
  \/ DownloadNode(r) \/ ClusterReport(r)

-----------------------------------------------------------------------------
(* run_benchmark.py *)

\* Both monitors are started in the process of the run; what raises before both are,
\* outside of the try block, ends it.
LocalStart(r) ==
  /\ runPc = "start"
  /\ \/ MonitorStart(<<r, LocalNode>>) /\ GoOn("k6")
     \/ ProcessEnds(<<r, LocalNode>>) /\ ExitRun(r, "failed")
  /\ UNCHANGED <<pids, raised, k6, asked, collected, latest>>

\* Here a return code of k6 is kept for later; only what raises is an exception.
\* The finally clause begins with queue_monitor.stop().
LocalK6(r) ==
  /\ runPc = "k6"
  /\ \/ \E how \in {"ok", "failed"} : k6' = [k6 EXCEPT ![r] = how] /\ UNCHANGED raised
     \/ UNCHANGED k6 /\ raised' = TRUE
  /\ queueStop' = queueStop \union {<<r, LocalNode>>}
  /\ GoOn("join_queue")
  /\ UNCHANGED <<pids, asked, collected, latest, proc, docker, queueThread>>

\* Mutant: the queue thread is joined with a timeout as well.
LocalJoinQueueBriefly(r) ==
  /\ runPc = "join_queue"
  /\ GoOn("join_docker")
  /\ UNCHANGED <<pids, raised, k6, asked, collected, latest, monitorVars>>

\* The queue thread is joined without a timeout, then monitor.stop() is called.
LocalJoinQueue(r) ==
  /\ runPc = "join_queue" /\ queueThread[<<r, LocalNode>>] # "on"
  /\ GoOn("join_docker")
  /\ UNCHANGED <<pids, raised, k6, asked, collected, latest, monitorVars>>

\* Mutant: the docker thread is joined without a timeout.
LocalJoinDockerForever(r) ==
  /\ runPc = "join_docker" /\ docker[<<r, LocalNode>>] # "on"
  /\ \/ ~raised /\ GoOn("report") /\ UNCHANGED monitorVars
     \/ raised /\ ExitRun(r, "failed") /\ ProcessEnds(<<r, LocalNode>>)
  /\ UNCHANGED <<pids, raised, k6, asked, collected, latest>>

\* The docker thread has ended, or 5 seconds have passed.
LocalJoinDocker(r) ==
  /\ runPc = "join_docker"
  /\ \/ ~raised /\ GoOn("report") /\ UNCHANGED monitorVars
     \/ raised /\ ExitRun(r, "failed") /\ ProcessEnds(<<r, LocalNode>>)
  /\ UNCHANGED <<pids, raised, k6, asked, collected, latest>>

\* Logs and timelines; the analysis and the report if k6 returned 0; "latest" in
\* either case, and only then k6's return code becomes the run's.
LocalReport(r) ==
  /\ runPc = "report"
  /\ \/ latest' = r /\ ExitRun(r, k6[r])
     \/ UNCHANGED latest /\ ExitRun(r, "failed")
  /\ ProcessEnds(<<r, LocalNode>>)
  /\ UNCHANGED <<pids, raised, k6, asked, collected>>

LocalRun(r) ==
  \/ Clean(r) \/ LocalStart(r) \/ LocalK6(r) \/ LocalJoinQueue(r) \/ LocalJoinDocker(r)
  \/ LocalReport(r)
=============================================================================
