----------------------------- MODULE SweepProofs -----------------------------
(***************************************************************************)
(* What a sweep records and what it leaves running, for any number of      *)
(* rates and nodes, whichever commands fail.                               *)
(***************************************************************************)
EXTENDS Sweep, TLAPS

\* How the counters and the program's places go together.
Places ==
  /\ Len(rows) = rate - 1
  /\ sweepPc = "running" => rate <= NumRates
  /\ sweepPc # "running" => runPc = "off"
  /\ mode = "cluster" => runPc \notin {"join_queue", "join_docker"}
  /\ mode = "local" => runPc \notin {"check", "stop", "download"}

\* The runs before the current one succeeded; it and those to come have no outcome.
Outcomes ==
  \A r \in Runs :
    /\ r < rate => outcome[r] = "ok"
    /\ r > rate => outcome[r] = "none"
    /\ r = rate /\ (sweepPc = "next" \/ runPc # "off") => outcome[r] = "none"

\* What a run has behind it at its places, and after it was successful.
Measured ==
  /\ /\ runPc \in {"stop", "download", "report", "join_queue", "join_docker"}
     /\ ~raised
     => k6[rate] = "ok" \/ (mode = "local" /\ k6[rate] = "failed")
  /\ runPc = "report" => ~raised
  /\ \A p \in Procs : collected[p] = "blank" => p[2] \in Silent
  /\ mode = "cluster" =>
       /\ runPc = "download" =>
            \A k \in 1 .. Len(NodeSeq) : k < at => collected[<<rate, NodeSeq[k]>>] # "none"
       /\ runPc = "report" => \A n \in Nodes : collected[<<rate, n>>] # "none"
  /\ \A r \in Runs : outcome[r] = "ok" =>
       /\ k6[r] = "ok"
       /\ mode = "cluster" => \A n \in Nodes : collected[<<r, n>>] # "none"

Recorded ==
  /\ sweepPc = "running" /\ runPc = "off" /\ outcome[rate] = "ok" => latest = rate
  /\ \A k \in DOMAIN rows : rows[k] = k

Started(r, n) == proc[<<r, n>>] # "none"

\* A monitor that was started is remembered until it was told to stop, or its run is
\* bound to fail.
Remembered ==
  /\ \A r \in Runs, n \in Nodes :
       /\ r > rate => ~Started(r, n)
       /\ r = rate /\ (sweepPc = "next" \/ runPc \in {"check", "clean"}) => ~Started(r, n)
       /\ outcome[r] = "ok" /\ Started(r, n) => <<r, n>> \in asked
  /\ \A n \in Nodes : sweepPc = "running" /\ Started(rate, n) =>
       /\ runPc \in {"start", "k6"} => n \in pids
       /\ runPc = "stop" /\ pids # {} => n \in pids
       /\ runPc \in {"download", "report"} => <<rate, n>> \in asked
  /\ runPc = "stop" /\ pids # {} =>
       \A k \in 1 .. Len(NodeSeq) : k < at /\ NodeSeq[k] \in pids => <<rate, NodeSeq[k]>> \in asked

SweepInv == TypeOK /\ Places /\ Outcomes /\ Measured /\ Recorded
            /\ (mode = "cluster" => Remembered)

-----------------------------------------------------------------------------

LEMMA NodeFacts ==
  /\ Len(NodeSeq) \in Nat \ {0} /\ DOMAIN NodeSeq = 1 .. Len(NodeSeq)
  /\ \A k \in 1 .. Len(NodeSeq) : NodeSeq[k] \in Nodes
  /\ \A n \in Nodes : \E k \in 1 .. Len(NodeSeq) : NodeSeq[k] = n
  /\ \A r \in Runs, n \in Nodes : <<r, n>> \in Procs
  /\ \A p \in Procs : p[1] \in Runs /\ p[2] \in Nodes /\ p = <<p[1], p[2]>>
<1>1. NodeSeq \in Seq(Nodes) /\ NodeSeq # << >> /\ Procs = Runs \X Nodes
  BY NodesAssumption
<1>2. Len(NodeSeq) \in Nat \ {0} /\ DOMAIN NodeSeq = 1 .. Len(NodeSeq)
  BY <1>1
<1>3. \A n \in Nodes : \E k \in 1 .. Len(NodeSeq) : NodeSeq[k] = n
  BY <1>2 DEF Nodes
<1>4. \A k \in 1 .. Len(NodeSeq) : NodeSeq[k] \in Nodes
  BY <1>2 DEF Nodes
<1> QED BY <1>1, <1>2, <1>3, <1>4

RunStep ==
  \/ Check(rate) \/ Clean(rate) \/ StartMonitor(rate) \/ RunK6(rate) \/ StopMonitor(rate)
  \/ DownloadNode(rate) \/ ClusterReport(rate)

LocalStep ==
  \/ Clean(rate) \/ LocalStart(rate) \/ LocalK6(rate) \/ LocalJoinQueue(rate)
  \/ LocalJoinDocker(rate) \/ LocalReport(rate)

\* The processes of a run, by themselves.
MonitorStep(p) == (mode = "cluster" /\ MonitorMain(p)) \/ DockerThreadEnds(p) \/ QueueThreadEnds(p)

LEMMA StepCases ==
  ASSUME [Next]_vars
  PROVE  \/ StartRun \/ RunEnded \/ WriteResults
         \/ sweepPc = "running" /\ mode = "cluster" /\ RunStep /\ UNCHANGED sweepVars
         \/ sweepPc = "running" /\ mode = "local" /\ LocalStep /\ UNCHANGED sweepVars
         \/ \E p \in Procs : MonitorStep(p) /\ UNCHANGED <<sweepVars, runVars>>
         \/ UNCHANGED vars
BY DEF Next, SweepSteps, RunSteps, ClusterRun, LocalRun, MonitorSteps, DockerSteps, QueueSteps,
       RunStep, LocalStep, MonitorStep

-----------------------------------------------------------------------------
(* The monitors *)

\* What can happen to a process changes no other.
LEMMA MonitorMove ==
  ASSUME MonitorsTypeOK, NEW p \in Procs,
         \/ MonitorStart(p) \/ Launch(p) \/ ProcessEnds(p) \/ Signal(p) \/ MonitorMain(p)
         \/ DockerThreadEnds(p) \/ QueueThreadEnds(p) \/ UNCHANGED monitorVars
  PROVE  MonitorsTypeOK' /\ \A q \in Procs : q # p => proc'[q] = proc[q]
<1> USE DEF MonitorsTypeOK, ProcStates, ThreadStates
<1>1. CASE MonitorStart(p)
  BY <1>1 DEF MonitorStart
<1>2. CASE Launch(p)
  BY <1>2 DEF Launch
<1>3. CASE ProcessEnds(p)
  BY <1>3 DEF ProcessEnds
<1>4. CASE DockerThreadEnds(p) \/ QueueThreadEnds(p)
  BY <1>4 DEF DockerThreadEnds, QueueThreadEnds
<1>5. CASE UNCHANGED monitorVars
  BY <1>5 DEF monitorVars
<1>6. CASE Signal(p) \/ MonitorMain(p)
  BY <1>1, <1>3, <1>5, <1>6 DEF Signal, MonitorMain, ComeUp, StopQueue, MonitorExits
<1> QED BY <1>1, <1>2, <1>3, <1>4, <1>5, <1>6

\* A process is started by main alone.
LEMMA NothingStarts ==
  ASSUME MonitorsTypeOK, NEW p \in Procs,
         MonitorMain(p) \/ Signal(p) \/ DockerThreadEnds(p) \/ QueueThreadEnds(p)
  PROVE  proc'[p] # "none" => proc[p] # "none"
BY DEF MonitorsTypeOK, MonitorMain, ComeUp, StopQueue, MonitorExits, Signal, MonitorStart,
       ProcessEnds, DockerThreadEnds, QueueThreadEnds, Alive, monitorVars

-----------------------------------------------------------------------------
(* The program *)

\* How the places of the program follow each other.
LEMMA RunMove ==
  ASSUME RunTypeOK, NEW r \in Runs, outcome[r] = "none", raised' \in BOOLEAN,
         NEW to \in RunPcs,
         \/ GoOn(to) \/ NextNode(to) \/ ExitRun(r, "ok") \/ ExitRun(r, "failed")
  PROVE  /\ runPc' \in RunPcs /\ at' \in 1 .. Len(NodeSeq)
         /\ outcome' \in [Runs -> {"none", "ok", "failed"}]
         /\ \A q \in Runs : q # r => outcome'[q] = outcome[q]
         /\ \/ outcome' = outcome /\ runPc' \in {to, runPc}
            \/ runPc' = "off"
BY NodeFacts DEF RunTypeOK, GoOn, NextNode, ExitRun, RunPcs

\* A download that succeeds leaves the files of its node there, and no download removes
\* any.
LEMMA Downloads ==
  ASSUME RunTypeOK, NEW r \in Runs, DownloadNode(r)
  PROVE  /\ collected' \in [Procs -> Contents]
         /\ \A p \in Procs : collected[p] # "none" => collected'[p] # "none"
         /\ \A p \in Procs : collected'[p] = "blank" => collected[p] = "blank" \/ p[2] \in Silent
         /\ \/ ExitRun(r, "failed")
            \/ /\ collected'[<<r, NodeSeq[at]>>] # "none"
               /\ runPc' = "download" => at' = at + 1 /\ outcome' = outcome
               /\ runPc' # "download" => runPc' = "report" /\ ~raised /\ at = Len(NodeSeq)
                                         /\ outcome' = outcome
<1> DEFINE p == <<r, NodeSeq[at]>>
<1>1. p \in Procs /\ collected \in [Procs -> Contents] /\ Len(NodeSeq) \in Nat /\ at \in Nat
  BY NodeFacts DEF RunTypeOK
<1>2. CASE UNCHANGED collected /\ ExitRun(r, "failed")
  BY <1>1, <1>2
<1>3. CASE ~(UNCHANGED collected /\ ExitRun(r, "failed"))
  <2>1. PICK held \in {"rows", "blank"} :
           /\ collected' = [collected EXCEPT ![p] = held]
           /\ held = "blank" => p[2] \in Silent
    BY <1>3 DEF DownloadNode
  <2>2. /\ collected' \in [Procs -> Contents] /\ collected'[p] # "none"
        /\ \A q \in Procs : collected[q] # "none" => collected'[q] # "none"
        /\ \A q \in Procs : collected'[q] = "blank" => collected[q] = "blank" \/ q[2] \in Silent
    BY <1>1, <2>1 DEF Contents
  <2> HIDE DEF p
  <2>3. \/ at < Len(NodeSeq) /\ NextNode("report")
        \/ at = Len(NodeSeq) /\ ~raised /\ GoOn("report")
        \/ ExitRun(r, "failed")
    BY <1>3 DEF DownloadNode
  <2>4. runPc = "download"
    BY DEF DownloadNode
  <2>5. CASE at < Len(NodeSeq) /\ NextNode("report")
    <3>1. at' = at + 1 /\ runPc' = "download" /\ outcome' = outcome
      BY <1>1, <2>4, <2>5 DEF NextNode
    <3> QED BY <2>2, <3>1 DEF p
  <2>6. CASE at = Len(NodeSeq) /\ ~raised /\ GoOn("report")
    <3>1. runPc' = "report" /\ outcome' = outcome
      BY <2>6 DEF GoOn
    <3> QED BY <2>2, <2>6, <3>1 DEF p
  <2> QED BY <2>2, <2>3, <2>5, <2>6
<1> QED BY <1>2, <1>3

LEMMA ClusterType ==
  ASSUME SweepInv, sweepPc = "running", mode = "cluster", RunStep, UNCHANGED sweepVars
  PROVE  RunTypeOK' /\ Places' /\ Outcomes'
<1> USE DEF sweepVars, TypeOK
<1>r. rate \in Runs /\ rate \in Nat
  BY NodesAssumption DEF SweepInv, Places, Runs
<1>n. NodeSeq[at] \in Nodes /\ <<rate, NodeSeq[at]>> \in Procs
  BY <1>r, NodeFacts DEF SweepInv, RunTypeOK
<1>0. RunTypeOK /\ Places /\ Outcomes /\ MonitorsTypeOK
  BY DEF SweepInv, RunTypeOK
<1>1. runPc # "off" /\ outcome[rate] = "none"
  BY <1>0, <1>r DEF RunStep, Check, Clean, StartMonitor, RunK6, StopMonitor, DownloadNode,
                    ClusterReport, Outcomes
<1>m. MonitorsTypeOK'
  <2>1. CASE UNCHANGED monitorVars
    BY <1>0, <2>1 DEF monitorVars, MonitorsTypeOK
  <2>2. PICK p \in Procs : p = <<rate, NodeSeq[at]>>
    BY <1>n
  <2> QED BY <1>0, <2>1, <2>2, MonitorMove DEF RunStep, Check, Clean, StartMonitor, RunK6,
             StopMonitor, DownloadNode, ClusterReport
<1>2. /\ pids' \subseteq Nodes /\ raised' \in BOOLEAN
      /\ k6' \in [Runs -> {"not_run", "ok", "failed"}]
      /\ asked' \subseteq Procs /\ collected' \in [Procs -> Contents]
      /\ latest' \in Runs \union {NoRun}
  <2>1. collected' \in [Procs -> Contents]
    <3>1. CASE DownloadNode(rate)
      BY <1>0, <1>r, <3>1, Downloads
    <3>2. CASE ~DownloadNode(rate)
      BY <1>0, <3>2 DEF RunTypeOK, RunStep, Check, Clean, StartMonitor, RunK6, StopMonitor,
                        ClusterReport
    <3> QED BY <3>1, <3>2
  <2>2. /\ pids' \subseteq Nodes /\ raised' \in BOOLEAN /\ asked' \subseteq Procs
        /\ k6' \in [Runs -> {"not_run", "ok", "failed"}] /\ latest' \in Runs \union {NoRun}
    BY <1>0, <1>n, <1>r DEF RunTypeOK, RunStep, Check, Clean, StartMonitor, RunK6,
         StopMonitor, DownloadNode, ClusterReport
  <2> QED BY <2>1, <2>2
<1>3. \E to \in RunPcs \ {"join_queue", "join_docker"} :
        GoOn(to) \/ NextNode(to) \/ ExitRun(rate, "ok") \/ ExitRun(rate, "failed")
  BY DEF RunStep, Check, Clean, StartMonitor, RunK6, StopMonitor, DownloadNode, ClusterReport,
         RunPcs
<1>4. /\ runPc' \in RunPcs \ {"join_queue", "join_docker"} /\ at' \in 1 .. Len(NodeSeq)
      /\ outcome' \in [Runs -> {"none", "ok", "failed"}]
      /\ \A q \in Runs : q # rate => outcome'[q] = outcome[q]
      /\ runPc' # "off" => outcome' = outcome
  BY <1>0, <1>1, <1>2, <1>3, <1>r, RunMove DEF Places, RunPcs
<1>5. RunTypeOK'
  BY <1>m, <1>2, <1>4 DEF RunTypeOK
<1>6. Places'
  BY <1>0, <1>4 DEF Places
<1>7. Outcomes'
  BY <1>0, <1>1, <1>4, <1>r DEF Outcomes
<1> QED BY <1>5, <1>6, <1>7

LEMMA LocalType ==
  ASSUME SweepInv, sweepPc = "running", mode = "local", LocalStep, UNCHANGED sweepVars
  PROVE  RunTypeOK' /\ Places' /\ Outcomes'
<1> USE DEF sweepVars, TypeOK
<1>r. rate \in Runs /\ rate \in Nat
  BY NodesAssumption DEF SweepInv, Places, Runs
<1>n. <<rate, LocalNode>> \in Procs
  BY <1>r, NodeFacts, NodesAssumption
<1>0. RunTypeOK /\ Places /\ Outcomes /\ Measured /\ MonitorsTypeOK
  BY DEF SweepInv, RunTypeOK
<1>1. runPc # "off" /\ outcome[rate] = "none"
  BY <1>0, <1>r DEF LocalStep, Clean, LocalStart, LocalK6, LocalJoinQueue, LocalJoinDocker,
                    LocalReport, Outcomes
<1>m. MonitorsTypeOK'
  <2>1. CASE UNCHANGED monitorVars
    BY <1>0, <2>1 DEF monitorVars, MonitorsTypeOK
  <2>2. PICK p \in Procs : p = <<rate, LocalNode>>
    BY <1>n
  <2>3. CASE LocalK6(rate)
    BY <1>0, <2>2, <2>3 DEF LocalK6, MonitorsTypeOK
  <2> QED BY <1>0, <2>1, <2>2, <2>3, MonitorMove DEF LocalStep, Clean, LocalStart,
             LocalJoinQueue, LocalJoinDocker, LocalReport
<1>2. /\ pids' \subseteq Nodes /\ raised' \in BOOLEAN
      /\ k6' \in [Runs -> {"not_run", "ok", "failed"}]
      /\ asked' \subseteq Procs /\ collected' \in [Procs -> Contents]
      /\ latest' \in Runs \union {NoRun}
  BY <1>0, <1>r DEF RunTypeOK, LocalStep, Clean, LocalStart, LocalK6, LocalJoinQueue,
       LocalJoinDocker, LocalReport
<1>3. \E to \in RunPcs \ {"check", "stop", "download"} :
        GoOn(to) \/ NextNode(to) \/ ExitRun(rate, "ok") \/ ExitRun(rate, "failed")
  BY <1>0 DEF LocalStep, Clean, LocalStart, LocalK6, LocalJoinQueue, LocalJoinDocker,
              LocalReport, RunPcs, Measured
<1>4. /\ runPc' \in RunPcs \ {"check", "stop", "download"} /\ at' \in 1 .. Len(NodeSeq)
      /\ outcome' \in [Runs -> {"none", "ok", "failed"}]
      /\ \A q \in Runs : q # rate => outcome'[q] = outcome[q]
      /\ runPc' # "off" => outcome' = outcome
  BY <1>0, <1>1, <1>2, <1>3, <1>r, RunMove DEF Places, RunPcs
<1>5. RunTypeOK'
  BY <1>m, <1>2, <1>4 DEF RunTypeOK
<1>6. Places'
  BY <1>0, <1>4 DEF Places
<1>7. Outcomes'
  BY <1>0, <1>1, <1>4, <1>r DEF Outcomes
<1> QED BY <1>5, <1>6, <1>7

LEMMA SweepType ==
  ASSUME SweepInv, StartRun \/ RunEnded \/ WriteResults
  PROVE  TypeOK' /\ Places' /\ Outcomes'
<1>0. TypeOK /\ RunTypeOK /\ Places /\ Outcomes /\ NumRates \in Nat \ {0}
  BY NodesAssumption DEF SweepInv, TypeOK
<1>1. CASE StartRun
  <2>1. RunTypeOK'
    <3>1. runPc' \in RunPcs
      BY <1>1 DEF StartRun, RunPcs
    <3>2. at' \in 1 .. Len(NodeSeq)
      BY <1>1, NodeFacts DEF StartRun
    <3>3. MonitorsTypeOK'
      BY <1>0, <1>1 DEF StartRun, RunTypeOK, MonitorsTypeOK, monitorVars
    <3> QED BY <1>0, <1>1, <3>1, <3>2, <3>3 DEF StartRun, RunTypeOK
  <2> QED BY <1>0, <1>1, <2>1 DEF StartRun, TypeOK, Places, Outcomes
<1>2. CASE RunEnded
  <2>1. RunTypeOK'
    BY <1>0, <1>2 DEF RunEnded, runVars, RunTypeOK, MonitorsTypeOK, monitorVars
  <2>2. CASE outcome[rate] = "ok" /\ rows' = Append(rows, latest) /\ rate' = rate + 1 /\ sweepPc' = "next"
    <3>1. latest \in Runs \union {NoRun}
      BY <1>0 DEF RunTypeOK
    <3>2. rows' \in Seq(Runs \union {NoRun}) /\ Len(rows') = Len(rows) + 1
      BY <1>0, <2>2, <3>1 DEF TypeOK
    <3>3. TypeOK' /\ Places'
      BY <1>0, <1>2, <2>1, <2>2, <3>2 DEF RunEnded, runVars, TypeOK, Places
    <3>4. Outcomes'
      BY <1>0, <1>2, <2>2 DEF RunEnded, runVars, TypeOK, Places, Outcomes, Runs
    <3> QED BY <3>3, <3>4
  <2>3. CASE sweepPc' = "aborted" /\ UNCHANGED <<rate, rows>>
    BY <1>0, <1>2, <2>1, <2>3 DEF RunEnded, runVars, TypeOK, Places, Outcomes
  <2> QED BY <1>2, <2>2, <2>3 DEF RunEnded
<1>3. CASE WriteResults
  <2>1. RunTypeOK'
    BY <1>0, <1>3 DEF WriteResults, runVars, RunTypeOK, MonitorsTypeOK, monitorVars
  <2> QED BY <1>0, <1>3, <2>1 DEF WriteResults, runVars, TypeOK, Places, Outcomes
<1> QED BY <1>1, <1>2, <1>3

LEMMA StepType ==
  ASSUME SweepInv, [Next]_vars
  PROVE  TypeOK' /\ Places' /\ Outcomes'
<1>0. TypeOK /\ RunTypeOK /\ Places /\ Outcomes
  BY DEF SweepInv, TypeOK
<1>1. ASSUME RunTypeOK', UNCHANGED sweepVars PROVE TypeOK'
  BY <1>0, <1>1 DEF TypeOK, sweepVars
<1>2. ASSUME UNCHANGED <<sweepVars, runVars>> PROVE Places' /\ Outcomes'
  BY <1>0, <1>2 DEF sweepVars, runVars, Places, Outcomes
<1>3. ASSUME NEW p \in Procs, MonitorStep(p), UNCHANGED <<sweepVars, runVars>>
      PROVE  TypeOK'
  <2>1. MonitorsTypeOK'
    BY <1>0, <1>3, MonitorMove DEF RunTypeOK, MonitorStep
  <2> QED BY <1>0, <1>1, <1>3, <2>1 DEF RunTypeOK, runVars
<1>4. CASE UNCHANGED vars
  <2>1. RunTypeOK'
    BY <1>0, <1>4 DEF vars, runVars, RunTypeOK, MonitorsTypeOK, monitorVars
  <2> QED BY <1>1, <1>2, <1>4, <2>1 DEF vars
<1> QED BY <1>1, <1>2, <1>3, <1>4, StepCases, ClusterType, LocalType, SweepType

-----------------------------------------------------------------------------
(* The rows *)

LEMMA MeasuredStep ==
  ASSUME SweepInv, [Next]_vars
  PROVE  Measured'
<1>0. TypeOK /\ RunTypeOK /\ Places /\ Outcomes /\ Measured
  BY DEF SweepInv, TypeOK
<1>1. CASE StartRun
  BY <1>0, <1>1 DEF StartRun, Measured
<1>2. CASE RunEnded \/ WriteResults
  BY <1>0, <1>2 DEF RunEnded, WriteResults, runVars, Places, Measured
<1>3. ASSUME UNCHANGED <<sweepVars, runVars>> PROVE Measured'
  BY <1>0, <1>3 DEF sweepVars, runVars, Measured
<1>r. ASSUME sweepPc = "running" PROVE rate \in Runs /\ rate \in Nat
  BY <1>0, <1>r DEF Places, Runs, TypeOK
<1>4. ASSUME sweepPc = "running", mode = "cluster", RunStep, UNCHANGED sweepVars
      PROVE  Measured'
  <2> USE <1>0, <1>r, <1>4 DEF sweepVars
  <2>1. CASE Check(rate) \/ Clean(rate)
    BY <2>1 DEF Check, Clean, GoOn, ExitRun, RunTypeOK, Outcomes, Measured
  <2>2. CASE StartMonitor(rate)
    BY <2>2 DEF StartMonitor, GoOn, NextNode, RunTypeOK, Measured
  <2>3. CASE RunK6(rate)
    BY <2>3 DEF RunK6, GoOn, RunTypeOK, Outcomes, Measured
  <2>4. CASE StopMonitor(rate)
    BY <2>4 DEF StopMonitor, GoOn, NextNode, ExitRun, RunTypeOK, Outcomes, Measured
  <2>5. CASE DownloadNode(rate)
    <3>1. /\ runPc = "download" /\ k6' = k6 /\ raised' = raised /\ outcome[rate] = "none"
          /\ outcome \in [Runs -> {"none", "ok", "failed"}] /\ at \in 1 .. Len(NodeSeq)
          /\ raised \in BOOLEAN
      BY <2>5 DEF DownloadNode, Outcomes, RunTypeOK
    <3>2. \A r \in Runs, n \in Nodes :
            collected[<<r, n>>] # "none" => collected'[<<r, n>>] # "none"
      BY <2>5, Downloads, NodeFacts
    <3>b. \A p \in Procs : collected'[p] = "blank" => p[2] \in Silent
      BY <2>5, Downloads DEF Measured
    <3>3. CASE ExitRun(rate, "failed")
      BY <3>1, <3>2, <3>3, <3>b DEF ExitRun, Measured
    <3>4. CASE /\ collected'[<<rate, NodeSeq[at]>>] # "none" /\ outcome' = outcome
               /\ runPc' = "download" => at' = at + 1
               /\ runPc' # "download" => runPc' = "report" /\ ~raised /\ at = Len(NodeSeq)
      <4>1. \A k \in 1 .. Len(NodeSeq) : k < at + 1 => collected'[<<rate, NodeSeq[k]>>] # "none"
        <5>1. \A k \in 1 .. Len(NodeSeq) : k < at => collected'[<<rate, NodeSeq[k]>>] # "none"
          BY <3>1, <3>2, NodeFacts DEF Measured
        <5>2. \A k \in 1 .. Len(NodeSeq) : k < at + 1 => k < at \/ k = at
          BY <3>1, NodeFacts
        <5> QED BY <3>4, <5>1, <5>2, Zenon
      <4>2. runPc' = "report" => \A n \in Nodes : collected'[<<rate, n>>] # "none"
        <5>1. at = Len(NodeSeq) => \A k \in 1 .. Len(NodeSeq) : k < at + 1
          BY NodeFacts
        <5> QED BY <3>4, <4>1, <5>1, NodeFacts
      <4> QED BY <3>1, <3>2, <3>4, <3>b, <4>1, <4>2 DEF Measured
    <3>5. ExitRun(rate, "failed") \/
               /\ collected'[<<rate, NodeSeq[at]>>] # "none" /\ outcome' = outcome
               /\ runPc' = "download" => at' = at + 1
               /\ runPc' # "download" => runPc' = "report" /\ ~raised /\ at = Len(NodeSeq)
      BY <2>5, Downloads
    <3> QED BY <3>3, <3>4, <3>5
  <2>6. CASE ClusterReport(rate)
    BY <2>6 DEF ClusterReport, ExitRun, RunTypeOK, Outcomes, Measured
  <2> QED BY <2>1, <2>2, <2>3, <2>4, <2>5, <2>6 DEF RunStep
<1>5. ASSUME sweepPc = "running", mode = "local", LocalStep, UNCHANGED sweepVars
      PROVE  Measured'
  <2> USE <1>0, <1>r, <1>5 DEF sweepVars
  <2>1. CASE Clean(rate) \/ LocalStart(rate)
    BY <2>1 DEF Clean, LocalStart, GoOn, ExitRun, RunTypeOK, Outcomes, Measured
  <2>2. CASE LocalK6(rate)
    BY <2>2 DEF LocalK6, GoOn, RunTypeOK, Outcomes, Measured
  <2>3. CASE LocalJoinQueue(rate) \/ LocalJoinDocker(rate)
    BY <2>3 DEF LocalJoinQueue, LocalJoinDocker, GoOn, ExitRun, RunTypeOK, Outcomes, Measured
  <2>4. CASE LocalReport(rate)
    BY <2>4 DEF LocalReport, ExitRun, RunTypeOK, Outcomes, Measured
  <2> QED BY <1>5, <2>1, <2>2, <2>3, <2>4 DEF LocalStep
<1> QED BY <1>1, <1>2, <1>3, <1>4, <1>5, StepCases DEF vars

LEMMA RecordedStep ==
  ASSUME SweepInv, [Next]_vars
  PROVE  Recorded'
<1>0. TypeOK /\ RunTypeOK /\ Places /\ Outcomes /\ Recorded
  BY DEF SweepInv, TypeOK
<1>1. CASE StartRun \/ WriteResults
  BY <1>0, <1>1 DEF StartRun, WriteResults, runVars, Recorded
<1>2. CASE RunEnded
  <2>1. CASE outcome[rate] = "ok" /\ rows' = Append(rows, latest) /\ sweepPc' = "next"
    <3>1. latest = rate /\ Len(rows) = rate - 1 /\ rate \in Nat
      BY <1>0, <1>2, <2>1 DEF RunEnded, Recorded, Places, TypeOK
    <3>2. DOMAIN rows = 1 .. Len(rows) /\ DOMAIN rows' = 1 .. Len(rows) + 1
          /\ rows'[Len(rows) + 1] = latest /\ \A k \in 1 .. Len(rows) : rows'[k] = rows[k]
      BY <1>0, <2>1 DEF TypeOK, RunTypeOK
    <3> QED BY <1>0, <2>1, <3>1, <3>2 DEF Recorded
  <2>2. CASE sweepPc' = "aborted" /\ UNCHANGED rows
    BY <1>0, <2>2 DEF Recorded
  <2> QED BY <1>2, <2>1, <2>2 DEF RunEnded
<1>3. ASSUME UNCHANGED <<sweepVars, runVars>> PROVE Recorded'
  BY <1>0, <1>3 DEF sweepVars, runVars, Recorded
<1>r. ASSUME sweepPc = "running" PROVE rate \in Runs
  BY <1>0, <1>r DEF Places, Runs, TypeOK
<1>4. ASSUME sweepPc = "running", RunStep \/ LocalStep, UNCHANGED sweepVars
      PROVE  Recorded'
  <2>1. \/ runPc' # "off"
        \/ outcome' = [outcome EXCEPT ![rate] = "failed"]
        \/ latest' = rate
    BY <1>0, <1>4 DEF RunStep, LocalStep, Check, Clean, StartMonitor, RunK6, StopMonitor,
       DownloadNode, ClusterReport, LocalStart, LocalK6, LocalJoinQueue, LocalJoinDocker,
       LocalReport, GoOn, NextNode, ExitRun
  <2> QED BY <1>0, <1>4, <1>r, <2>1 DEF sweepVars, Recorded, RunTypeOK
<1> QED BY <1>1, <1>2, <1>3, <1>4, StepCases DEF vars

-----------------------------------------------------------------------------
(* The monitors of a cluster *)

LEMMA RememberedStep ==
  ASSUME SweepInv, mode = "cluster", Remembered, [Next]_vars
  PROVE  Remembered'
<1>0. TypeOK /\ RunTypeOK /\ MonitorsTypeOK /\ Places /\ Outcomes
  BY DEF SweepInv, TypeOK, RunTypeOK
<1>1. CASE StartRun
  BY <1>0, <1>1 DEF StartRun, monitorVars, Remembered, Started
<1>2. CASE RunEnded
  BY <1>0, <1>2 DEF RunEnded, runVars, monitorVars, Remembered, Started, Places, TypeOK, Runs
<1>3. CASE WriteResults
  BY <1>0, <1>3 DEF WriteResults, runVars, monitorVars, Remembered, Started
<1>4. CASE UNCHANGED vars
  BY <1>4 DEF vars, sweepVars, runVars, monitorVars, Remembered, Started
<1>5. ASSUME NEW p \in Procs, MonitorStep(p), UNCHANGED <<sweepVars, runVars>>
      PROVE  Remembered'
  <2>1. \A q \in Procs : proc'[q] # "none" => proc[q] # "none"
    BY <1>0, <1>5, MonitorMove, NothingStarts DEF MonitorStep
  <2>2. \A r \in Runs, n \in Nodes : Started(r, n)' => Started(r, n)
    BY <2>1, NodeFacts DEF Started
  <2> QED BY <1>0, <1>5, <2>2 DEF sweepVars, runVars, Remembered, Places, Runs, TypeOK
<1>6. ASSUME sweepPc = "running", RunStep, UNCHANGED sweepVars
      PROVE  Remembered'
  <2>r. rate \in Runs /\ rate \in Nat
    BY <1>0, <1>6 DEF Places, Runs, TypeOK
  <2>c. PICK c : c = NodeSeq[at]
    OBVIOUS
  <2>n. c \in Nodes /\ at \in 1 .. Len(NodeSeq)
    BY <1>0, <2>c, NodeFacts DEF RunTypeOK
  <2>o. outcome[rate] = "none" /\ \A r \in Runs : r # rate => outcome'[r] = outcome[r]
    BY <1>0, <1>6, <2>r DEF RunStep, Check, Clean, StartMonitor, RunK6, StopMonitor,
       DownloadNode, ClusterReport, GoOn, NextNode, ExitRun, Outcomes, RunTypeOK
  <2>s. \A r \in Runs, n \in Nodes :
          \/ Started(r, n)' <=> Started(r, n)
          \/ Started(r, n)' => Started(r, n)
          \/ StartMonitor(rate) /\ r = rate /\ n = c
    <3>1. PICK p \in Procs : p = <<rate, c>>
      BY <2>r, <2>n, NodeFacts
    <3>2. UNCHANGED proc \/ (StartMonitor(rate) /\ Launch(p)) \/ Signal(p)
      BY <1>6, <2>c, <3>1 DEF RunStep, Check, Clean, StartMonitor, RunK6, StopMonitor,
         DownloadNode, ClusterReport, monitorVars
    <3>3. ASSUME NEW q \in Procs, proc'[q] # "none", proc[q] = "none"
          PROVE  q = p /\ StartMonitor(rate)
      BY <1>0, <3>2, <3>3, MonitorMove, NothingStarts
    <3>4. ASSUME NEW r \in Runs, NEW n \in Nodes, <<r, n>> = p PROVE r = rate /\ n = c
      BY <3>1, <3>4
    <3> QED BY <3>3, <3>4, NodeFacts DEF Started
  <2> USE <1>0, <1>6, <2>r, <2>n, <2>o, <2>s DEF sweepVars, Remembered
  <2>1. CASE Check(rate) \/ Clean(rate)
    BY <2>1 DEF Check, Clean, StartMonitor, GoOn, ExitRun
  <2>2. CASE StartMonitor(rate)
    BY <2>2, <2>c DEF StartMonitor, GoOn, NextNode
  <2>3. CASE RunK6(rate)
    BY <2>3 DEF RunK6, StartMonitor, GoOn
  <2>4. CASE StopMonitor(rate)
    <3>1. /\ runPc = "stop" /\ runPc' \in {"stop", "download", "off"} /\ pids' = pids
          /\ asked \subseteq asked' /\ (c \in pids => <<rate, c>> \in asked')
      BY <2>4, <2>c DEF StopMonitor, GoOn, NextNode, ExitRun
    <3>2. /\ runPc' = "stop" => at' = at + 1 /\ pids # {}
          /\ runPc' = "download" => at = Len(NodeSeq) /\ pids # {}
          /\ outcome' = outcome \/ outcome'[rate] = "failed"
      BY <2>4, <3>1, Zenon DEF StopMonitor, GoOn, NextNode, ExitRun, RunTypeOK
    <3>3. \A r \in Runs, n \in Nodes : Started(r, n)' => Started(r, n)
      BY <2>4, <3>1 DEF StartMonitor
    <3>4. \A k \in 1 .. Len(NodeSeq) :
            pids # {} /\ k < at + 1 /\ NodeSeq[k] \in pids => <<rate, NodeSeq[k]>> \in asked'
      BY <3>1, <2>c
    <3>5. \A n \in Nodes : runPc' = "download" /\ Started(rate, n) => <<rate, n>> \in asked'
      BY <3>1, <3>2, <3>4, NodeFacts
    <3> QED BY <3>1, <3>2, <3>3, <3>4, <3>5
  <2>5. CASE DownloadNode(rate)
    BY <2>5 DEF DownloadNode, StartMonitor, GoOn, NextNode, ExitRun
  <2>6. CASE ClusterReport(rate)
    BY <2>6 DEF ClusterReport, StartMonitor, ExitRun, RunTypeOK
  <2> QED BY <1>6, <2>1, <2>2, <2>3, <2>4, <2>5, <2>6 DEF RunStep
<1> QED BY <1>1, <1>2, <1>3, <1>4, <1>5, <1>6, StepCases

-----------------------------------------------------------------------------

LEMMA SweepInit == Init => SweepInv
<1> SUFFICES ASSUME Init PROVE SweepInv
  OBVIOUS
<1>1. MonitorsTypeOK
  BY DEF Init, RunInit, MonitorsInit, MonitorsTypeOK, ProcStates, ThreadStates
<1>2. RunTypeOK
  <2>1. k6 \in [Runs -> {"not_run", "ok", "failed"}] /\ outcome \in [Runs -> {"none", "ok", "failed"}]
    BY DEF Init, RunInit
  <2>2. at \in 1 .. Len(NodeSeq) /\ pids \subseteq Nodes /\ asked \subseteq Procs
    BY NodeFacts DEF Init, RunInit
  <2>4. collected \in [Procs -> Contents]
    BY DEF Init, RunInit, Contents
  <2>3. runPc \in RunPcs /\ raised \in BOOLEAN /\ latest \in Runs \union {NoRun}
    BY DEF Init, RunInit, RunPcs
  <2> QED BY <1>1, <2>1, <2>2, <2>3, <2>4 DEF RunTypeOK
<1>3. rows = << >> /\ Len(rows) = 0 /\ DOMAIN rows = {} /\ rows \in Seq(Runs \union {NoRun})
  BY DEF Init
<1>4. TypeOK
  BY <1>2, <1>3, NodesAssumption DEF Init, TypeOK
<1>5. Places /\ Outcomes /\ Measured /\ Recorded
  BY <1>3 DEF Init, RunInit, Places, Outcomes, Measured, Recorded, Runs
<1>6. Remembered
  BY NodeFacts DEF Init, RunInit, MonitorsInit, Remembered, Started
<1> QED BY <1>4, <1>5, <1>6 DEF SweepInv

LEMMA SweepInvariant == Spec => []SweepInv
<1>1. SweepInv /\ [Next]_vars => SweepInv'
  <2> SUFFICES ASSUME SweepInv, [Next]_vars PROVE SweepInv'
    OBVIOUS
  <2>1. mode' = mode
    BY StepCases DEF StartRun, RunEnded, WriteResults, sweepVars, vars
  <2> QED BY <2>1, StepType, MeasuredStep, RecordedStep, RememberedStep DEF SweepInv
<1> QED BY <1>1, SweepInit, PTL DEF Spec

\* The type invariant of a sweep of any length over any number of nodes: in
\* particular the loops over the nodes stay within the configured ones.
THEOREM SweepTypeCorrect == Spec => []TypeOK
<1>1. SweepInv => TypeOK
  BY DEF SweepInv
<1> QED BY <1>1, SweepInvariant, PTL

\* Whichever commands fail: row k of a sweep is what run k measured, and that run
\* succeeded, with k6 and, on a cluster, with the CSV files of every node downloaded.  A
\* node without samples in them is one whose sampler's first round hung or raised.
THEOREM RowsAreTheRunsAlways == Spec => []RowsAreTheRuns
<1>1. SweepInv => RowsAreTheRuns
  <2> SUFFICES ASSUME SweepInv, NEW k \in DOMAIN rows
               PROVE  /\ rows[k] = k /\ outcome[k] = "ok" /\ k6[k] = "ok"
                      /\ mode = "cluster" =>
                           /\ \A n \in Nodes : collected[<<k, n>>] # "none"
                           /\ Nodes \ Silent \subseteq MergedNodes(k)
    BY DEF RowsAreTheRuns
  <2>1. k \in Runs /\ k < rate
    BY NodesAssumption DEF SweepInv, TypeOK, Places, Runs
  <2>2. /\ rows[k] = k /\ outcome[k] = "ok" /\ k6[k] = "ok"
        /\ mode = "cluster" => \A n \in Nodes : collected[<<k, n>>] # "none"
    BY <2>1 DEF SweepInv, Outcomes, Measured, Recorded
  <2>3. ASSUME mode = "cluster", NEW n \in Nodes, n \notin Silent
        PROVE  n \in MergedNodes(k)
    <3>1. <<k, n>> \in Procs /\ collected[<<k, n>>] \in {"blank", "rows"}
      BY <2>1, <2>2, <2>3, NodeFacts DEF SweepInv, TypeOK, RunTypeOK, Contents
    <3> QED BY <2>3, <3>1 DEF SweepInv, Measured, MergedNodes
  <2> QED BY <2>2, <2>3
<1> QED BY <1>1, SweepInvariant, PTL

\* Whichever commands fail: while k6 loads a cluster, each monitor of an earlier run
\* that is still alive is one that main tried to stop.
THEOREM NoMonitorIsForgottenAlways == Spec => []NoMonitorIsForgotten
<1>1. SweepInv => NoMonitorIsForgotten
  <2> SUFFICES ASSUME SweepInv, NEW p \in Procs, p[1] < rate, Alive(p), mode # "local"
               PROVE  p \in asked
    BY DEF NoMonitorIsForgotten
  <2>1. p[1] \in Runs /\ p[2] \in Nodes /\ p = <<p[1], p[2]>> /\ mode = "cluster"
    BY NodeFacts DEF SweepInv, TypeOK
  <2>2. outcome[p[1]] = "ok" /\ Started(p[1], p[2])
    BY <2>1 DEF SweepInv, Outcomes, Started, Alive
  <2> QED BY <2>1, <2>2 DEF SweepInv, Remembered
<1> QED BY <1>1, SweepInvariant, PTL

-----------------------------------------------------------------------------
(* The queue file of a local run *)

\* The queue thread of the current run has begun before k6, and is over once joined.
LocalQueue(state) ==
  /\ runPc \in {"k6", "join_queue"} => state # "off"
  /\ runPc \in {"join_docker", "report"} => state = "over"

FileInv == mode = "local" => LocalQueue(queueThread[<<rate, LocalNode>>])

LEMMA FileStep ==
  ASSUME SweepInv, FileInv, [Next]_vars
  PROVE  FileInv'
<1>0. TypeOK /\ RunTypeOK /\ MonitorsTypeOK /\ Places
  BY DEF SweepInv, TypeOK, RunTypeOK
<1> USE DEF FileInv, LocalQueue
<1>1. CASE StartRun \/ RunEnded \/ WriteResults
  BY <1>0, <1>1 DEF StartRun, RunEnded, WriteResults, runVars, Places
<1>2. CASE UNCHANGED vars
  BY <1>2 DEF vars, sweepVars, runVars, monitorVars
<1>3. ASSUME NEW p \in Procs, MonitorStep(p), UNCHANGED <<sweepVars, runVars>>, mode = "local"
      PROVE  FileInv'
  <2>1. \A q \in Procs : queueThread'[q] = queueThread[q] \/ queueThread'[q] = "over"
    BY <1>0, <1>3 DEF MonitorStep, DockerThreadEnds, QueueThreadEnds, MonitorsTypeOK
  <2>2. CASE runPc = "off"
    BY <1>3, <2>2 DEF sweepVars, runVars
  <2>3. CASE runPc # "off"
    <3>1. <<rate, LocalNode>> \in Procs
      BY <1>0, <2>3, NodeFacts, NodesAssumption DEF Places, TypeOK, Runs
    <3> QED BY <1>3, <2>1, <3>1 DEF sweepVars, runVars
  <2> QED BY <2>2, <2>3
<1>4. ASSUME sweepPc = "running", mode = "local", LocalStep, UNCHANGED sweepVars
      PROVE  FileInv'
  <2>1. PICK p \in Procs : p = <<rate, LocalNode>>
    BY <1>0, <1>4, NodeFacts, NodesAssumption DEF Places, TypeOK, Runs
  <2>2. queueThread[p] \in {"off", "on", "over"}
    BY <1>0 DEF MonitorsTypeOK, ThreadStates
  <2> USE <1>0, <1>4, <2>1, <2>2 DEF sweepVars, monitorVars, GoOn, ExitRun, MonitorsTypeOK
  <2>3. CASE Clean(rate)
    BY <2>3, <1>4 DEF Clean
  <2>4. CASE LocalStart(rate)
    BY <2>4 DEF LocalStart, MonitorStart
  <2>5. CASE LocalK6(rate) \/ LocalJoinQueue(rate)
    BY <2>5 DEF LocalK6, LocalJoinQueue
  <2>6. CASE LocalJoinDocker(rate) \/ LocalReport(rate)
    BY <2>6 DEF LocalJoinDocker, LocalReport
  <2> QED BY <2>3, <2>4, <2>5, <2>6 DEF LocalStep
<1>5. CASE mode' # "local"
  BY <1>5
<1>6. mode' = mode
  BY StepCases DEF StartRun, RunEnded, WriteResults, sweepVars, vars
<1> QED BY <1>1, <1>2, <1>3, <1>4, <1>5, <1>6, StepCases

\* Whatever fails: once a local run works on its files, its queue thread writes no more.
THEOREM LocalQueueFileIsClosedAlways == Spec => []LocalQueueFileIsClosed
<1>1. Init => FileInv
  BY DEF Init, RunInit, FileInv, LocalQueue
<1>2. SweepInv /\ FileInv /\ [Next]_vars => FileInv'
  BY FileStep
<1>3. FileInv => LocalQueueFileIsClosed
  BY DEF FileInv, LocalQueue, LocalQueueFileIsClosed
<1> QED BY <1>1, <1>2, <1>3, SweepInvariant, PTL DEF Spec

=============================================================================
