------------------------------- MODULE Monitors -------------------------------
(***************************************************************************)
(* A process that samples a node during a benchmark: a DockerMonitor and a *)
(* QueueMonitor, each with a thread and a stop event, whose results are    *)
(* the CSV files docker_stats, host_stats and queue_stats.  On a cluster   *)
(* the process is benchmark/loadtest_runner/remote_monitor.py, started and *)
(* signalled over ssh; locally it is the benchmark runner itself.          *)
(*                                                                         *)
(* The rounds of a thread are not counted.  `docker stats' may raise, and  *)
(* may take for ever; LLEN answers or raises, which the thread survives.   *)
(* A process id is that of the Python process: the shell that start it     *)
(* executes it in its own place.                                           *)
(***************************************************************************)
EXTENDS Naturals

CONSTANT Procs      \* the sampling processes there can be

VARIABLES
  proc,         \* where the main thread of each process is
  docker,       \* the thread of its DockerMonitor
  queueThread,  \* the thread of its QueueMonitor
  queueStop     \* the processes whose QueueMonitor has its stop event set

monitorVars == <<proc, docker, queueThread, queueStop>>

ProcStates == {"none", "starting", "up", "join_docker", "join_queue", "gone"}
ThreadStates == {"off", "on", "over"}

MonitorsTypeOK ==
  /\ proc \in [Procs -> ProcStates]
  /\ {docker, queueThread} \subseteq [Procs -> ThreadStates]
  /\ queueStop \subseteq Procs

MonitorsInit ==
  /\ proc = [p \in Procs |-> "none"]
  /\ docker = [p \in Procs |-> "off"]
  /\ queueThread = [p \in Procs |-> "off"]
  /\ queueStop = {}

\* A process that runs, or is about to.
Alive(p) == proc[p] \notin {"none", "gone"}

\* The threads have begun, and with them the CSV files.
FilesExist(p) == docker[p] # "off"

-----------------------------------------------------------------------------
(* The threads *)

MonitorStart(p) ==
  /\ proc' = [proc EXCEPT ![p] = "up"]
  /\ docker' = [docker EXCEPT ![p] = "on"]
  /\ queueThread' = [queueThread EXCEPT ![p] = "on"]
  /\ UNCHANGED queueStop

\* _run of the DockerMonitor ends by an exception, or after its stop event was set:
\* whoever waits for it need not have asked, and may wait in vain.
DockerThreadEnds(p) ==
  /\ docker[p] = "on"
  /\ docker' = [docker EXCEPT ![p] = "over"]
  /\ UNCHANGED <<proc, queueThread, queueStop>>

\* _run of the QueueMonitor leaves its loop, at most one interval after the event.
QueueThreadEnds(p) ==
  /\ queueThread[p] = "on" /\ p \in queueStop
  /\ queueThread' = [queueThread EXCEPT ![p] = "over"]
  /\ UNCHANGED <<proc, docker, queueStop>>

\* The process ends, and daemon threads with it.
ProcessEnds(p) ==
  /\ proc' = [proc EXCEPT ![p] = "gone"]
  /\ docker' = [docker EXCEPT ![p] = IF @ = "on" THEN "over" ELSE @]
  /\ queueThread' = [queueThread EXCEPT ![p] = IF @ = "on" THEN "over" ELSE @]
  /\ UNCHANGED queueStop

-----------------------------------------------------------------------------
(* The main thread of remote_monitor.py *)

\* ssh has started the interpreter; its process id is known from here on.
Launch(p) ==
  /\ proc' = [proc EXCEPT ![p] = "starting"]
  /\ UNCHANGED <<docker, queueThread, queueStop>>

\* The signal handlers are installed and both monitors started, or the process dies
\* before, for want of a module or of the virtual environment.
ComeUp(p) ==
  /\ proc[p] = "starting"
  /\ MonitorStart(p) \/ ProcessEnds(p)

\* kill -TERM.  Before the handlers are installed it ends the process; after that
\* stop_event.wait() returns, and monitor.stop() begins to wait for the docker thread.
Signal(p) ==
  \/ proc[p] = "starting" /\ ProcessEnds(p)
  \/ /\ proc[p] = "up" /\ proc' = [proc EXCEPT ![p] = "join_docker"]
     /\ UNCHANGED <<docker, queueThread, queueStop>>
  \/ ~Alive(p) /\ UNCHANGED monitorVars

\* Mutant: the docker thread is joined without a timeout.
StopQueueAfterDocker(p) ==
  /\ proc[p] = "join_docker" /\ docker[p] = "over"
  /\ proc' = [proc EXCEPT ![p] = "join_queue"]
  /\ queueStop' = queueStop \union {p}
  /\ UNCHANGED <<docker, queueThread>>

\* The docker thread has ended or the 5 seconds are over; queue_monitor.stop().
StopQueue(p) ==
  /\ proc[p] = "join_docker"
  /\ proc' = [proc EXCEPT ![p] = "join_queue"]
  /\ queueStop' = queueStop \union {p}
  /\ UNCHANGED <<docker, queueThread>>

\* The queue thread is joined without a timeout; then main returns.
MonitorExits(p) ==
  /\ proc[p] = "join_queue" /\ queueThread[p] # "on"
  /\ ProcessEnds(p)

MonitorMain(p) == ComeUp(p) \/ StopQueue(p) \/ MonitorExits(p)
=============================================================================
