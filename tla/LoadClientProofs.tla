--------------------------- MODULE LoadClientProofs ---------------------------
(***************************************************************************)
(* The counters of the load client add up, and do not run ahead of the     *)
(* service, for every number of virtual users, tasks and jobs.             *)
(***************************************************************************)
EXTENDS LoadClient, FoldProofs

\* Nobody polls unless k6 was told to: a poll that sees DONE would count a second time.
PcInv ==
  /\ vuPc \in [VUs -> VuPcs]
  /\ ~pollResult => \A v \in VUs : vuPc[v] \in {"idle", "post"}

\* What the conservation of the counts needs of the types.
CountersInv ==
  /\ PcInv
  /\ pollResult \in BOOLEAN
  /\ {started, cutOff, submitted, completed, failed, rejected} \subseteq Nat

CountInv == CountersInv /\ EveryIterationCounted

LEMMA RunningIsFinite == IsFiniteSet(Running) /\ Cardinality(Running) \in Nat
BY ClientAssumption, FS_Subset, FS_CardinalityType DEF Running

\* A user that goes idle leaves the running ones; one that starts joins them.
LEMMA IterationEnds ==
  ASSUME CountersInv, NEW v \in VUs, vuPc[v] # "idle", EndIteration(v),
         UNCHANGED pollResult
  PROVE  /\ PcInv'
         /\ Cardinality(Running') = Cardinality(Running) - 1
<1>1. Running' = Running \ {v} /\ v \in Running
  BY DEF CountersInv, PcInv, EndIteration, Running
<1>2. PcInv'
  BY DEF CountersInv, PcInv, EndIteration, VuPcs
<1> QED BY <1>1, <1>2, RunningIsFinite, FS_RemoveElement

LEMMA IterationStarts ==
  ASSUME CountersInv, NEW v \in VUs, vuPc[v] = "idle", vuPc' = [vuPc EXCEPT ![v] = "post"],
         UNCHANGED pollResult
  PROVE  /\ PcInv'
         /\ Cardinality(Running') = Cardinality(Running) + 1
<1>1. Running' = Running \union {v} /\ v \notin Running
  BY DEF CountersInv, PcInv, Running
<1>2. PcInv'
  BY DEF CountersInv, PcInv, VuPcs
<1> QED BY <1>1, <1>2, RunningIsFinite, FS_AddElement

LEMMA IterationContinues ==
  ASSUME CountersInv, NEW v \in VUs, vuPc[v] # "idle", NEW to \in VuPcs \ {"idle"},
         pollResult, UNCHANGED pollResult, vuPc' = [vuPc EXCEPT ![v] = to]
  PROVE  PcInv' /\ Running' = Running
BY DEF CountersInv, PcInv, Running

-----------------------------------------------------------------------------

LEMMA UserStep ==
  ASSUME CountInv, NEW v \in VUs,
         StartIteration(v) \/ Iteration(v) \/ DeadlinePasses(v) \/ CutOff(v)
  PROVE  CountInv'
<1> USE RunningIsFinite DEF CountInv, CountersInv, EveryIterationCounted
<1>0. UNCHANGED pollResult
  BY DEF StartIteration, Iteration, PostAccepted, PostRejected, PostFails, KeepPolling,
         PollTimeout, PollSeesDone, PollSeesFailed, PollSeesUnfinished, PollHttpError,
         DeadlinePasses, CutOff
<1>1. CASE StartIteration(v)
  <2>1. PcInv' /\ Cardinality(Running') = Cardinality(Running) + 1
    BY <1>1, <1>0, IterationStarts DEF StartIteration
  <2> QED BY <1>1, <2>1 DEF StartIteration
<1>2. CASE PostAccepted(v)
  <2>1. CASE pollResult
    <3>1. vuPc' = [vuPc EXCEPT ![v] = "check_deadline"] /\ vuPc[v] # "idle"
      BY <1>2, <2>1 DEF PostAccepted
    <3>2. PcInv' /\ Running' = Running
      BY <2>1, <3>1, <1>0, IterationContinues DEF VuPcs
    <3> QED BY <1>2, <2>1, <3>2 DEF PostAccepted, CountNothing
  <2>2. CASE ~pollResult
    <3>1. EndIteration(v) /\ vuPc[v] # "idle"
      BY <1>2, <2>2 DEF PostAccepted
    <3>2. PcInv' /\ Cardinality(Running') = Cardinality(Running) - 1
      BY <3>1, <1>0, IterationEnds
    <3> QED BY <1>2, <2>2, <3>2 DEF PostAccepted, CountNothing
  <2> QED BY <2>1, <2>2
<1>3. CASE PostRejected(v)
  <2>1. EndIteration(v) /\ vuPc[v] # "idle"
    BY <1>3 DEF PostRejected
  <2>2. PcInv' /\ Cardinality(Running') = Cardinality(Running) - 1
    BY <2>1, <1>0, IterationEnds
  <2>3. rejected' = rejected + 1 /\ UNCHANGED <<started, cutOff, submitted, completed, failed>>
    BY <1>3 DEF PostRejected, CountRejected
  <2> QED BY <1>0, <2>2, <2>3
<1>4. CASE PostFails(v)
  <2>1. EndIteration(v) /\ vuPc[v] # "idle"
    BY <1>4 DEF PostFails
  <2>2. PcInv' /\ Cardinality(Running') = Cardinality(Running) - 1
    BY <2>1, <1>0, IterationEnds
  <2>3. failed' = failed + 1 /\ UNCHANGED <<started, cutOff, submitted, completed, rejected>>
    BY <1>4 DEF PostFails, CountFailed
  <2> QED BY <1>0, <2>2, <2>3
<1>5. CASE KeepPolling(v)
  <2>1. vuPc' = [vuPc EXCEPT ![v] = "get"] /\ vuPc[v] # "idle" /\ pollResult
    BY <1>5 DEF KeepPolling, CountersInv, PcInv
  <2>2. PcInv' /\ Running' = Running
    BY <2>1, <1>0, IterationContinues DEF VuPcs
  <2> QED BY <1>5, <2>2 DEF KeepPolling, CountNothing
<1>6. CASE PollTimeout(v)
  <2>1. EndIteration(v) /\ vuPc[v] # "idle"
    BY <1>6 DEF PollTimeout
  <2>2. PcInv' /\ Cardinality(Running') = Cardinality(Running) - 1
    BY <2>1, <1>0, IterationEnds
  <2>3. failed' = failed + 1 /\ UNCHANGED <<started, cutOff, submitted, completed, rejected>>
    BY <1>6 DEF PollTimeout, CountFailed
  <2> QED BY <1>0, <2>2, <2>3
<1>7. CASE PollSeesDone(v)
  <2>1. EndIteration(v) /\ vuPc[v] # "idle"
    BY <1>7 DEF PollSeesDone
  <2>2. PcInv' /\ Cardinality(Running') = Cardinality(Running) - 1
    BY <2>1, <1>0, IterationEnds
  <2>3. completed' = completed + 1 /\ UNCHANGED <<started, cutOff, submitted, failed, rejected>>
    BY <1>7 DEF PollSeesDone, CountCompleted
  <2>4. pollResult
    BY <1>7 DEF PollSeesDone, PcInv
  <2> QED BY <1>0, <2>2, <2>3, <2>4
<1>8. CASE PollSeesFailed(v)
  <2>1. EndIteration(v) /\ vuPc[v] # "idle"
    BY <1>8 DEF PollSeesFailed
  <2>2. PcInv' /\ Cardinality(Running') = Cardinality(Running) - 1
    BY <2>1, <1>0, IterationEnds
  <2>3. failed' = failed + 1 /\ UNCHANGED <<started, cutOff, submitted, completed, rejected>>
    BY <1>8 DEF PollSeesFailed, CountFailed
  <2> QED BY <1>0, <2>2, <2>3
<1>9. CASE PollSeesUnfinished(v)
  <2>1. vuPc' = [vuPc EXCEPT ![v] = "check_deadline"] /\ vuPc[v] # "idle" /\ pollResult
    BY <1>9 DEF PollSeesUnfinished, CountersInv, PcInv
  <2>2. PcInv' /\ Running' = Running
    BY <2>1, <1>0, IterationContinues DEF VuPcs
  <2> QED BY <1>9, <2>2 DEF PollSeesUnfinished, CountNothing
<1>10. CASE PollHttpError(v)
  <2>1. EndIteration(v) /\ vuPc[v] # "idle"
    BY <1>10 DEF PollHttpError
  <2>2. PcInv' /\ Cardinality(Running') = Cardinality(Running) - 1
    BY <2>1, <1>0, IterationEnds
  <2>3. failed' = failed + 1 /\ UNCHANGED <<started, cutOff, submitted, completed, rejected>>
    BY <1>10 DEF PollHttpError, CountFailed
  <2> QED BY <1>0, <2>2, <2>3
<1>11. CASE DeadlinePasses(v)
  BY <1>11 DEF DeadlinePasses, CountNothing, PcInv, Running
<1>12. CASE CutOff(v)
  <2>1. EndIteration(v) /\ vuPc[v] # "idle"
    BY <1>12 DEF CutOff
  <2>2. PcInv' /\ Cardinality(Running') = Cardinality(Running) - 1
    BY <2>1, <1>0, IterationEnds
  <2> QED BY <1>12, <2>2 DEF CutOff, CountNothing
<1> QED BY <1>1, <1>2, <1>3, <1>4, <1>5, <1>6, <1>7, <1>8, <1>9, <1>10, <1>11, <1>12
        DEF Iteration

LEMMA CountStep == CountInv /\ [Next]_vars => CountInv'
<1> SUFFICES ASSUME CountInv, [Next]_vars PROVE CountInv'
  OBVIOUS
<1>1. CASE LoadEnds \/ JobMoves \/ UNCHANGED vars
  <2>1. UNCHANGED <<vuPc, pollResult, started, cutOff, submitted, completed, failed, rejected>>
    BY <1>1 DEF LoadEnds, CountNothing, JobMoves, vars, clientVars
  <2>2. Running' = Running
    BY <2>1 DEF Running
  <2> QED BY <2>1, <2>2 DEF CountInv, CountersInv, PcInv, EveryIterationCounted
<1> QED BY <1>1, UserStep DEF Next

LEMMA CountInit == Init => CountInv
<1> SUFFICES ASSUME Init PROVE CountInv
  OBVIOUS
<1>1. Running = {}
  BY DEF Init, Running
<1>2. Cardinality(Running) = 0
  BY <1>1, FS_EmptySet
<1> QED BY <1>2, ClientAssumption DEF Init, CountInv, CountersInv, PcInv, EveryIterationCounted,
                   VuPcs

\* Every iteration of k6 that began is running, or was cut off, or has been counted
\* exactly once, however the jobs, the deadlines and the errors interleave.
THEOREM EveryIterationCountedAlways == Spec => []EveryIterationCounted
<1>1. CountInv => EveryIterationCounted
  BY DEF CountInv
<1> QED BY <1>1, CountInit, CountStep, PTL DEF Spec

-----------------------------------------------------------------------------
(* Users and their jobs *)

\* Nobody else polls the job of a user, and a job that was given up is polled no more.
LinksInv ==
  /\ Service!LifecycleTypeOK
  /\ vuPc \in [VUs -> VuPcs]
  /\ vuTask \in [VUs -> Tasks \union {NoTask}]
  /\ vuJob \in [VUs -> Ids \union {NoJob}]
  /\ \A v \in VUs : /\ vuPc[v] = "idle" <=> vuTask[v] = NoTask
                    /\ vuPc[v] \in {"idle", "post"} <=> vuJob[v] = NoJob
                    /\ vuJob[v] # NoJob => status[vuJob[v]] # "none"
  /\ \A v, w \in VUs : vuJob[v] = vuJob[w] /\ vuJob[v] # NoJob => v = w
  /\ givenUp \subseteq Ids \X Reasons
  /\ \A g \in givenUp : status[g[1]] # "none" /\ \A v \in VUs : vuJob[v] # g[1]

\* What a step of a user is to its job, its links to it and what was given up.
Keeps(v) ==
  /\ vuPc[v] \in {"check_deadline", "get"}
  /\ \E to \in {"check_deadline", "get"} : vuPc' = [vuPc EXCEPT ![v] = to]
  /\ UNCHANGED <<status, vuTask, vuJob, givenUp>>

Ends(v) ==
  /\ vuPc[v] # "idle" /\ EndIteration(v)
  /\ UNCHANGED status \/ (vuPc[v] = "post" /\ \E i \in Ids : Service!Create(i))
  /\ \/ UNCHANGED givenUp
     \/ vuPc[v] # "post" /\ \E r \in Reasons : givenUp' = givenUp \union {<<vuJob[v], r>>}

Polls(v) ==
  /\ vuPc[v] = "post"
  /\ vuPc' = [vuPc EXCEPT ![v] = "check_deadline"]
  /\ \E i \in Ids : Service!Create(i) /\ vuJob' = [vuJob EXCEPT ![v] = i]
  /\ UNCHANGED <<vuTask, givenUp>>

\* What a failure adds to the jobs given up: nothing, or the user's own job.
LEMMA GivesUp ==
  ASSUME NEW v \in VUs, NEW tasks
  PROVE  /\ CountFailed(v, tasks, {}) => UNCHANGED givenUp
         /\ \A r \in Reasons :
              CountFailed(v, tasks, {r}) => givenUp' = givenUp \union {<<vuJob[v], r>>}
BY DEF CountFailed

\* Every step that ends an iteration only clears the user's links.
LEMMA EndingKinds ==
  ASSUME NEW v \in VUs,
         \/ PostAccepted(v) /\ ~pollResult
         \/ PostRejected(v) \/ PostFails(v) \/ CutOff(v)
         \/ PollTimeout(v) \/ PollSeesDone(v) \/ PollSeesFailed(v) \/ PollHttpError(v)
  PROVE  Ends(v)
<1>0. Reasons = {"FAILED", "timeout", "http_error"}
  BY DEF Reasons
<1>1. CASE (PostAccepted(v) /\ ~pollResult) \/ PostRejected(v) \/ CutOff(v)
  BY <1>1 DEF PostAccepted, PostRejected, CutOff, CountNothing, CountRejected, Ends
<1>2. CASE PostFails(v)
  BY <1>2, GivesUp DEF PostFails, Ends
<1>3. CASE PollTimeout(v) \/ PollSeesFailed(v) \/ PollHttpError(v)
  <2>1. \E r \in Reasons : givenUp' = givenUp \union {<<vuJob[v], r>>}
    BY <1>0, <1>3, GivesUp DEF PollTimeout, PollSeesFailed, PollHttpError
  <2> QED BY <1>3, <2>1 DEF PollTimeout, PollSeesFailed, PollHttpError, Ends
<1>4. CASE PollSeesDone(v)
  BY <1>4 DEF PollSeesDone, CountCompleted, Ends
<1> QED BY <1>1, <1>2, <1>3, <1>4

\* A user that polls on keeps its job.
LEMMA KeepingKinds ==
  ASSUME NEW v \in VUs, KeepPolling(v) \/ PollSeesUnfinished(v)
  PROVE  Keeps(v)
BY DEF KeepPolling, PollSeesUnfinished, CountNothing, Keeps

\* A user begins to poll the job it has just been given.
LEMMA PollingKinds ==
  ASSUME NEW v \in VUs, PostAccepted(v), pollResult
  PROVE  Polls(v)
BY DEF PostAccepted, CountNothing, Polls

\* Jobs do not disappear from the service.
LEMMA StatusMoves ==
  ASSUME Service!LifecycleTypeOK, UNCHANGED status \/ Service!Next
  PROVE  /\ Service!LifecycleTypeOK'
         /\ \A i \in Ids : status[i] # "none" => status'[i] # "none"
BY DEF Service!LifecycleTypeOK, Service!Next, Service!Create, Service!Start, Service!Finish,
       Service!Fail, Service!Move, Service!Unfinished, Service!Finished

\* A job that is given up was nobody else's.
LEMMA EndsKeepsLinks ==
  ASSUME LinksInv, NEW v \in VUs, Ends(v)
  PROVE  LinksInv'
<1>1. Service!LifecycleTypeOK' /\ \A i \in Ids : status[i] # "none" => status'[i] # "none"
  BY StatusMoves DEF LinksInv, Ends, Service!Next
<1>2. /\ vuPc' \in [VUs -> VuPcs]
      /\ vuTask' \in [VUs -> Tasks \union {NoTask}]
      /\ vuJob' \in [VUs -> Ids \union {NoJob}]
  BY DEF LinksInv, Ends, EndIteration, VuPcs
<1>3. /\ vuPc'[v] = "idle" /\ vuTask'[v] = NoTask /\ vuJob'[v] = NoJob
      /\ \A w \in VUs : w # v => vuPc'[w] = vuPc[w] /\ vuTask'[w] = vuTask[w] /\ vuJob'[w] = vuJob[w]
  BY DEF LinksInv, Ends, EndIteration
<1>4. \A w \in VUs : /\ vuPc'[w] = "idle" <=> vuTask'[w] = NoTask
                     /\ vuPc'[w] \in {"idle", "post"} <=> vuJob'[w] = NoJob
                     /\ vuJob'[w] # NoJob => status'[vuJob'[w]] # "none"
  BY <1>1, <1>2, <1>3 DEF LinksInv
<1>5. \A u, w \in VUs : vuJob'[u] = vuJob'[w] /\ vuJob'[u] # NoJob => u = w
  BY <1>3 DEF LinksInv
<1>6. givenUp' \subseteq Ids \X Reasons
  BY DEF LinksInv, Ends
<1>7. ASSUME NEW g \in givenUp' PROVE status'[g[1]] # "none" /\ \A w \in VUs : vuJob'[w] # g[1]
  <2>1. CASE g \in givenUp
    BY <1>1, <1>3, <2>1, ClientAssumption DEF LinksInv
  <2>2. CASE g \notin givenUp
    <3>1. g[1] = vuJob[v] /\ vuJob[v] # NoJob /\ vuJob[v] \in Ids
      BY <2>2 DEF LinksInv, Ends
    <3> QED BY <1>1, <1>3, <3>1 DEF LinksInv
  <2> QED BY <2>1, <2>2
<1> QED BY <1>1, <1>2, <1>4, <1>5, <1>6, <1>7 DEF LinksInv

\* A new job was not polled and not given up before.
LEMMA PollsKeepsLinks ==
  ASSUME LinksInv, NEW v \in VUs, Polls(v)
  PROVE  LinksInv'
<1>0. PICK i \in Ids : Service!Create(i) /\ vuJob' = [vuJob EXCEPT ![v] = i]
  BY DEF Polls
<1>1. Service!LifecycleTypeOK' /\ \A j \in Ids : status[j] # "none" => status'[j] # "none"
  BY <1>0, StatusMoves DEF LinksInv, Service!Next
<1>2. /\ vuPc' \in [VUs -> VuPcs]
      /\ vuTask' \in [VUs -> Tasks \union {NoTask}]
      /\ vuJob' \in [VUs -> Ids \union {NoJob}]
  BY <1>0 DEF LinksInv, Polls, VuPcs
<1>3. /\ vuPc'[v] = "check_deadline" /\ vuJob'[v] = i /\ i # NoJob
      /\ \A w \in VUs : w # v => vuPc'[w] = vuPc[w] /\ vuJob'[w] = vuJob[w]
  BY <1>0, ClientAssumption DEF LinksInv, Polls
<1>4. status[i] = "none" /\ status'[i] # "none"
  BY <1>0 DEF Service!Create, Service!Move, LinksInv, Service!LifecycleTypeOK
<1>5. \A w \in VUs : /\ vuPc'[w] = "idle" <=> vuTask'[w] = NoTask
                     /\ vuPc'[w] \in {"idle", "post"} <=> vuJob'[w] = NoJob
                     /\ vuJob'[w] # NoJob => status'[vuJob'[w]] # "none"
  BY <1>1, <1>2, <1>3, <1>4 DEF LinksInv, Polls
<1>6. \A u, w \in VUs : vuJob'[u] = vuJob'[w] /\ vuJob'[u] # NoJob => u = w
  BY <1>3, <1>4 DEF LinksInv
<1>7. givenUp' \subseteq Ids \X Reasons
  BY DEF LinksInv, Polls
<1>8. ASSUME NEW g \in givenUp' PROVE status'[g[1]] # "none" /\ \A w \in VUs : vuJob'[w] # g[1]
  BY <1>1, <1>3, <1>4 DEF LinksInv, Polls
<1> QED BY <1>1, <1>2, <1>5, <1>6, <1>7, <1>8 DEF LinksInv

LEMMA LinksStep == LinksInv /\ [Next]_vars => LinksInv'
<1> SUFFICES ASSUME LinksInv, [Next]_vars PROVE LinksInv'
  OBVIOUS
<1>1. ASSUME NEW v \in VUs, StartIteration(v) PROVE LinksInv'
  <2>1. UNCHANGED <<status, vuJob, givenUp>>
    BY <1>1 DEF StartIteration
  <2>2. PICK t \in Tasks : vuTask' = [vuTask EXCEPT ![v] = t]
    BY <1>1 DEF StartIteration
  <2>3. vuPc[v] = "idle" /\ vuPc' = [vuPc EXCEPT ![v] = "post"]
    BY <1>1 DEF StartIteration
  <2> QED BY <2>1, <2>2, <2>3, ClientAssumption
          DEF LinksInv, VuPcs, Service!LifecycleTypeOK
<1>2. ASSUME NEW v \in VUs, Keeps(v) PROVE LinksInv'
  BY <1>2 DEF Keeps, LinksInv, VuPcs, Service!LifecycleTypeOK
<1>3. ASSUME NEW v \in VUs, Iteration(v) \/ CutOff(v) PROVE LinksInv'
  BY <1>2, <1>3, EndingKinds, KeepingKinds, PollingKinds, EndsKeepsLinks, PollsKeepsLinks
     DEF Iteration
<1>4. ASSUME NEW v \in VUs, DeadlinePasses(v) PROVE LinksInv'
  BY <1>4 DEF DeadlinePasses, CountNothing, LinksInv, Service!LifecycleTypeOK
<1>5. CASE LoadEnds \/ UNCHANGED vars
  BY <1>5 DEF LoadEnds, CountNothing, vars, clientVars, LinksInv, Service!LifecycleTypeOK
<1>6. CASE JobMoves
  <2>1. Service!LifecycleTypeOK' /\ \A i \in Ids : status[i] # "none" => status'[i] # "none"
    BY <1>6, StatusMoves DEF JobMoves, LinksInv, Service!Next
  <2>2. UNCHANGED <<vuPc, vuTask, vuJob, givenUp>>
    BY <1>6 DEF JobMoves, clientVars
  <2>3. (\A v \in VUs : vuJob[v] # NoJob => vuJob[v] \in Ids) /\ \A g \in givenUp : g[1] \in Ids
    BY DEF LinksInv
  <2> QED BY <2>1, <2>2, <2>3 DEF LinksInv
<1> QED BY <1>1, <1>3, <1>4, <1>5, <1>6 DEF Next

LEMMA LinksInit == Init => LinksInv
BY ClientAssumption DEF Init, LinksInv, VuPcs, Service!Init, Service!LifecycleTypeOK

\* A user about to be told DONE has a DONE job of its own.
Done == {i \in Ids : status[i] = "DONE"}
DonePolled == {v \in VUs : vuJob[v] # NoJob /\ status[vuJob[v]] = "DONE"}
DoneInv == completed + Cardinality(DonePolled) <= Cardinality(Done)

LEMMA DoneAreFinite ==
  /\ IsFiniteSet(Done) /\ Cardinality(Done) \in Nat /\ Cardinality(Done) <= Cardinality(Ids)
  /\ IsFiniteSet(DonePolled) /\ Cardinality(DonePolled) \in Nat
BY ClientAssumption, FS_Subset, FS_CardinalityType DEF Done, DonePolled

\* A job that is created is PENDING.
LEMMA CreateFinishesNothing ==
  ASSUME Service!LifecycleTypeOK, UNCHANGED status \/ \E i \in Ids : Service!Create(i)
  PROVE  \A i \in Ids : status'[i] = "DONE" <=> status[i] = "DONE"
BY DEF Service!LifecycleTypeOK, Service!Create, Service!Move

\* A user that ends its iteration takes its DONE job, if it had one, with it.
LEMMA EndsPolled ==
  ASSUME LinksInv, NEW v \in VUs, Ends(v)
  PROVE  Done' = Done /\ DonePolled' = DonePolled \ {v}
<1>1. \A i \in Ids : status'[i] = "DONE" <=> status[i] = "DONE"
  BY CreateFinishesNothing DEF Ends, LinksInv
<1>2. /\ \A w \in VUs : vuJob[w] # NoJob => vuJob[w] \in Ids
      /\ vuJob'[v] = NoJob /\ \A w \in VUs : w # v => vuJob'[w] = vuJob[w]
  BY DEF LinksInv, Ends, EndIteration
<1> QED BY <1>1, <1>2 DEF Done, DonePolled

LEMMA DoneUserStep ==
  ASSUME LinksInv, CountInv, DoneInv, NEW v \in VUs,
         StartIteration(v) \/ Iteration(v) \/ DeadlinePasses(v) \/ CutOff(v)
  PROVE  DoneInv'
<1> USE DoneAreFinite DEF DoneInv
<1>0. completed \in Nat
  BY DEF CountInv, CountersInv
<1>1. CASE StartIteration(v) \/ KeepPolling(v) \/ PollSeesUnfinished(v) \/ DeadlinePasses(v)
  <2>1. UNCHANGED <<status, vuJob, completed>>
    BY <1>1 DEF StartIteration, KeepPolling, PollSeesUnfinished, DeadlinePasses, CountNothing
  <2>2. Done' = Done /\ DonePolled' = DonePolled
    BY <2>1 DEF Done, DonePolled
  <2> QED BY <2>1, <2>2
<1>2. CASE PostAccepted(v) /\ pollResult
  <2>1. Polls(v) /\ UNCHANGED completed
    BY <1>2, PollingKinds DEF PostAccepted, CountNothing
  <2>2. PICK i \in Ids : Service!Create(i) /\ vuJob' = [vuJob EXCEPT ![v] = i]
    BY <2>1 DEF Polls
  <2>3. \A j \in Ids : status'[j] = "DONE" <=> status[j] = "DONE"
    BY <2>2, CreateFinishesNothing DEF LinksInv
  <2>4. status'[i] # "DONE"
    BY <2>2 DEF Service!Create, Service!Move, LinksInv, Service!LifecycleTypeOK
  <2>5. /\ vuJob[v] = NoJob /\ vuJob'[v] = i
        /\ \A w \in VUs : vuJob[w] # NoJob => vuJob[w] \in Ids
        /\ \A w \in VUs : w # v => vuJob'[w] = vuJob[w]
    BY <2>1, <2>2 DEF LinksInv, Polls
  <2>6. Done' = Done /\ DonePolled' = DonePolled
    BY <2>3, <2>4, <2>5 DEF Done, DonePolled
  <2> QED BY <2>1, <2>6
<1>3. CASE \/ PostAccepted(v) /\ ~pollResult
           \/ PostRejected(v) \/ PostFails(v) \/ CutOff(v)
           \/ PollTimeout(v) \/ PollSeesFailed(v) \/ PollHttpError(v)
  <2>1. Done' = Done /\ DonePolled' = DonePolled \ {v}
    BY <1>3, EndingKinds, EndsPolled
  <2>2. UNCHANGED completed
    BY <1>3 DEF PostAccepted, PostRejected, PostFails, CutOff, PollTimeout, PollSeesFailed,
                PollHttpError, CountNothing, CountRejected, CountFailed
  <2>3. Cardinality(DonePolled \ {v}) <= Cardinality(DonePolled)
        /\ Cardinality(DonePolled \ {v}) \in Nat
    BY FS_Subset, FS_CardinalityType
  <2> QED BY <1>0, <2>1, <2>2, <2>3
<1>4. CASE PollSeesDone(v)
  <2>1. Done' = Done /\ DonePolled' = DonePolled \ {v}
    BY <1>4, EndingKinds, EndsPolled
  <2>2. v \in DonePolled
    BY <1>4 DEF PollSeesDone, DonePolled, LinksInv
  <2>3. Cardinality(DonePolled \ {v}) = Cardinality(DonePolled) - 1
    BY <2>2, FS_RemoveElement
  <2>4. completed' = completed + 1
    BY <1>4 DEF PollSeesDone, CountCompleted
  <2> QED BY <1>0, <2>1, <2>3, <2>4
<1> QED BY <1>1, <1>2, <1>3, <1>4 DEF Iteration

\* One job that becomes DONE is polled by at most one user.
LEMMA DoneJobStep ==
  ASSUME LinksInv, CountInv, DoneInv, JobMoves
  PROVE  DoneInv'
<1> USE DoneAreFinite DEF DoneInv
<1>0. completed \in Nat /\ UNCHANGED <<completed, vuJob>>
  BY DEF CountInv, CountersInv, JobMoves, clientVars
<1>1. PICK i \in Ids : Service!Start(i) \/ Service!Finish(i) \/ Service!Fail(i)
  BY DEF JobMoves
<1>2. \A v \in VUs : vuJob[v] # NoJob => vuJob[v] \in Ids
  BY DEF LinksInv
<1>3. CASE Service!Start(i) \/ Service!Fail(i)
  <2>1. \A j \in Ids : status'[j] = "DONE" <=> status[j] = "DONE"
    BY <1>3 DEF Service!Start, Service!Fail, Service!Move, Service!Unfinished, LinksInv,
                Service!LifecycleTypeOK
  <2>2. Done' = Done /\ DonePolled' = DonePolled
    BY <1>0, <1>2, <2>1 DEF Done, DonePolled
  <2> QED BY <1>0, <2>2
<1>4. CASE Service!Finish(i)
  <2>1. /\ status[i] # "DONE" /\ status'[i] = "DONE"
        /\ \A j \in Ids : j # i => status'[j] = status[j]
    BY <1>4 DEF Service!Finish, Service!Move, LinksInv, Service!LifecycleTypeOK
  <2>2. Cardinality(Done') = Cardinality(Done) + 1
    <3>1. Done' = Done \union {i} /\ i \notin Done
      BY <2>1 DEF Done
    <3> QED BY <3>1, FS_AddElement
  <2>3. CASE \E v \in VUs : vuJob[v] = i
    <3>1. PICK v \in VUs : vuJob[v] = i
      BY <2>3
    <3>2. \A w \in VUs : w # v => vuJob[w] # i
      BY <3>1, ClientAssumption DEF LinksInv
    <3>3. DonePolled' = DonePolled \union {v} /\ v \notin DonePolled
      BY <1>0, <1>2, <2>1, <3>1, <3>2, ClientAssumption DEF DonePolled
    <3>4. Cardinality(DonePolled') = Cardinality(DonePolled) + 1
      BY <3>3, FS_AddElement
    <3> QED BY <1>0, <2>2, <3>4
  <2>4. CASE \A v \in VUs : vuJob[v] # i
    <3>1. DonePolled' = DonePolled
      BY <1>0, <1>2, <2>1, <2>4 DEF DonePolled
    <3> QED BY <1>0, <2>2, <3>1
  <2> QED BY <2>3, <2>4
<1> QED BY <1>1, <1>3, <1>4

LEMMA DoneStep == LinksInv /\ CountInv /\ DoneInv /\ [Next]_vars => DoneInv'
<1> SUFFICES ASSUME LinksInv, CountInv, DoneInv, [Next]_vars PROVE DoneInv'
  OBVIOUS
<1>1. CASE LoadEnds \/ UNCHANGED vars
  <2>1. UNCHANGED <<status, vuJob, completed>>
    BY <1>1 DEF LoadEnds, CountNothing, vars, clientVars
  <2> QED BY <2>1 DEF DoneInv, Done, DonePolled
<1> QED BY <1>1, DoneUserStep, DoneJobStep DEF Next

LEMMA DoneInit == Init => DoneInv
<1> SUFFICES ASSUME Init PROVE DoneInv
  OBVIOUS
<1>1. Done = {} /\ DonePolled = {}
  BY DEF Init, Service!Init, Done, DonePolled
<1> QED BY <1>1, FS_EmptySet DEF Init, DoneInv

\* completed_jobs, the numerator of every throughput, never runs ahead of the service.
THEOREM CompletedIsDoneAlways == Spec => []CompletedIsDone
<1>1. CountInv /\ DoneInv => CompletedIsDone
  <2> SUFFICES ASSUME CountInv, DoneInv PROVE CompletedIsDone
    OBVIOUS
  <2>1. completed \in Nat
    BY DEF CountInv, CountersInv
  <2>2. completed <= Cardinality(Done)
    BY <2>1, DoneAreFinite DEF DoneInv
  <2> QED BY <2>2 DEF Done, CompletedIsDone
<1> QED BY <1>1, CountInit, CountStep, LinksInit, LinksStep, DoneInit, DoneStep, PTL DEF Spec

-----------------------------------------------------------------------------

\* Whoever posts has begun an iteration that is not yet counted as submitted.
Posting == {v \in VUs : vuPc[v] = "post"}
BoundsInv ==
  /\ late \subseteq VUs
  /\ loading \in BOOLEAN
  /\ submitted + Cardinality(Posting) <= started
  /\ started <= Cardinality(Ids)
  /\ taskFailed \in [Tasks -> Nat]
  /\ \A t \in Tasks : taskFailed[t] <= failed


LEMMA PostingIsFinite == IsFiniteSet(Posting) /\ Cardinality(Posting) \in Nat
BY ClientAssumption, FS_Subset, FS_CardinalityType DEF Posting

\* The two ways the failure counters move.
FailsInTask ==
  \E v \in VUs : vuPc[v] # "idle" /\ \E reasons \in SUBSET {"FAILED", "timeout"} :
                   CountFailed(v, {vuTask[v]}, reasons)
FailsInNoTask ==
  \E v \in VUs : vuPc[v] = "get" /\ CountFailed(v, {}, {"http_error"})

LEMMA CountingKinds ==
  ASSUME [Next]_vars
  PROVE  FailsInTask \/ FailsInNoTask \/ UNCHANGED <<failed, taskFailed, givenUp>>
<1>1. CASE UNCHANGED vars \/ LoadEnds \/ JobMoves
  BY <1>1 DEF vars, clientVars, LoadEnds, JobMoves, CountNothing
<1>2. ASSUME NEW v \in VUs,
             PostFails(v) \/ PollTimeout(v) \/ PollSeesFailed(v)
      PROVE  FailsInTask
  <2>1. \A r \in {{}, {"FAILED"}, {"timeout"}} : r \in SUBSET {"FAILED", "timeout"}
    OBVIOUS
  <2> QED BY <1>2, <2>1 DEF PostFails, PollTimeout, PollSeesFailed, FailsInTask
<1>3. ASSUME NEW v \in VUs, PollHttpError(v)
      PROVE  FailsInNoTask
  BY <1>3 DEF PollHttpError, FailsInNoTask
<1>4. ASSUME NEW v \in VUs,
             \/ StartIteration(v) \/ PostAccepted(v) \/ PostRejected(v) \/ KeepPolling(v)
             \/ PollSeesDone(v) \/ PollSeesUnfinished(v) \/ DeadlinePasses(v) \/ CutOff(v)
      PROVE  UNCHANGED <<failed, taskFailed, givenUp>>
  BY <1>4 DEF StartIteration, PostAccepted, PostRejected, KeepPolling, PollSeesDone,
              PollSeesUnfinished, DeadlinePasses, CutOff, CountNothing, CountRejected,
              CountCompleted
<1> QED BY <1>1, <1>2, <1>3, <1>4 DEF Next, Iteration

\* The failures of a task are failures, whatever else fails.
LEMMA TaskBoundStep ==
  ASSUME CountInv, BoundsInv, [Next]_vars
  PROVE  taskFailed' \in [Tasks -> Nat] /\ \A t \in Tasks : taskFailed'[t] <= failed'
<1>0. failed \in Nat /\ taskFailed \in [Tasks -> Nat] /\ \A t \in Tasks : taskFailed[t] <= failed
  BY DEF CountInv, CountersInv, BoundsInv
<1>1. ASSUME NEW v, NEW tasks, NEW reasons, CountFailed(v, tasks, reasons)
      PROVE  taskFailed' \in [Tasks -> Nat] /\ \A t \in Tasks : taskFailed'[t] <= failed'
  BY <1>0, <1>1 DEF CountFailed
<1> QED BY <1>0, <1>1, CountingKinds DEF FailsInTask, FailsInNoTask

\* An accepted request turns one that posts into one submitted.
LEMMA BoundsStep == LinksInv /\ CountInv /\ BoundsInv /\ [Next]_vars => BoundsInv'
<1> SUFFICES ASSUME LinksInv, CountInv, BoundsInv, [Next]_vars PROVE BoundsInv'
  OBVIOUS
<1>0. submitted \in Nat /\ started \in Nat /\ Cardinality(Ids) \in Nat
  BY ClientAssumption, FS_CardinalityType DEF CountInv, CountersInv
<1>1. late' \subseteq VUs /\ loading' \in BOOLEAN
  BY DEF BoundsInv, Next, Iteration, StartIteration, PostAccepted, PostRejected, PostFails,
         KeepPolling, PollTimeout, PollSeesDone, PollSeesFailed, PollSeesUnfinished,
         PollHttpError, DeadlinePasses, CutOff, LoadEnds, JobMoves, vars, clientVars, EndIteration
<1> DEFINE Bound == /\ submitted' + Cardinality(Posting') <= started'
                    /\ started' <= Cardinality(Ids)
<1>2. ASSUME NEW v \in VUs, StartIteration(v) PROVE Bound
  <2>1. Posting' = Posting \union {v} /\ v \notin Posting
    BY <1>2 DEF StartIteration, Posting, LinksInv
  <2>2. Cardinality(Posting') = Cardinality(Posting) + 1
    BY <2>1, PostingIsFinite, FS_AddElement
  <2>3. started' = started + 1 /\ started < Cardinality(Ids) /\ UNCHANGED submitted
    BY <1>2 DEF StartIteration
  <2> QED BY <1>0, <2>2, <2>3, PostingIsFinite DEF BoundsInv
<1>3. ASSUME NEW v \in VUs, PostAccepted(v) PROVE Bound
  <2>1. Posting' = Posting \ {v} /\ v \in Posting
    BY <1>3 DEF PostAccepted, EndIteration, Posting, LinksInv
  <2>2. Cardinality(Posting') = Cardinality(Posting) - 1
    BY <2>1, PostingIsFinite, FS_RemoveElement
  <2>3. submitted' = submitted + 1 /\ UNCHANGED started
    BY <1>3 DEF PostAccepted
  <2> QED BY <1>0, <2>2, <2>3, PostingIsFinite DEF BoundsInv
<1>4. ASSUME UNCHANGED <<started, submitted>>, Posting' \subseteq Posting PROVE Bound
  <2>1. Cardinality(Posting') <= Cardinality(Posting) /\ Cardinality(Posting') \in Nat
    BY <1>4, PostingIsFinite, FS_Subset, FS_CardinalityType
  <2> QED BY <1>0, <1>4, <2>1, PostingIsFinite DEF BoundsInv
<1>5. ASSUME NEW v \in VUs, KeepPolling(v) \/ PollSeesUnfinished(v) \/ DeadlinePasses(v)
      PROVE  UNCHANGED <<started, submitted>> /\ Posting' \subseteq Posting
  BY <1>5 DEF KeepPolling, PollSeesUnfinished, DeadlinePasses, Posting, LinksInv
<1>6. ASSUME NEW v \in VUs,
             \/ PostRejected(v) \/ PostFails(v) \/ PollTimeout(v) \/ PollSeesDone(v)
             \/ PollSeesFailed(v) \/ PollHttpError(v) \/ CutOff(v)
      PROVE  UNCHANGED <<started, submitted>> /\ Posting' \subseteq Posting
  BY <1>6 DEF PostRejected, PostFails, PollTimeout, PollSeesDone, PollSeesFailed, PollHttpError,
              CutOff, EndIteration, Posting, LinksInv
<1>7. ASSUME LoadEnds \/ JobMoves \/ UNCHANGED vars
      PROVE  UNCHANGED <<started, submitted>> /\ Posting' \subseteq Posting
  BY <1>7 DEF LoadEnds, JobMoves, vars, clientVars, Posting
<1>8. Bound
  <2> HIDE DEF Bound
  <2> QED BY <1>2, <1>3, <1>4, <1>5, <1>6, <1>7 DEF Next, Iteration
<1> QED BY <1>1, <1>8, TaskBoundStep DEF BoundsInv

LEMMA BoundsInit == Init => BoundsInv
<1> SUFFICES ASSUME Init PROVE BoundsInv
  OBVIOUS
<1>1. Posting = {}
  BY DEF Init, Posting
<1>2. Cardinality(Posting) = 0 /\ Cardinality(Ids) \in Nat
  BY <1>1, ClientAssumption, FS_EmptySet, FS_CardinalityType
<1> QED BY <1>2 DEF Init, BoundsInv

\* The counters, the users and the jobs keep their types and their bounds: no count
\* exceeds the number of iterations, though each is incremented in places of its own.
THEOREM LoadTypeCorrect == Spec => []TypeOK
<1>1. LinksInv /\ CountInv /\ DoneInv /\ BoundsInv => TypeOK
  <2> SUFFICES ASSUME LinksInv, CountInv, DoneInv, BoundsInv PROVE TypeOK
    OBVIOUS
  <2> DEFINE N == Cardinality(Ids)
  <2>1. /\ {started, cutOff, submitted, completed, failed, rejected} \subseteq Nat
        /\ started = (IF pollResult THEN completed ELSE submitted)
                      + failed + rejected + cutOff + Cardinality(Running)
        /\ pollResult \in BOOLEAN
    BY DEF CountInv, CountersInv, EveryIterationCounted
  <2>2. Cardinality(Running) \in Nat /\ Cardinality(Posting) \in Nat /\ N \in Nat
    BY RunningIsFinite, PostingIsFinite, ClientAssumption, FS_CardinalityType
  <2>3. completed <= N
    BY <2>1, <2>2, DoneAreFinite DEF DoneInv
  <2>4. submitted + Cardinality(Posting) <= started /\ started <= N
    BY DEF BoundsInv
  <2> HIDE DEF N
  <2>5. submitted <= N /\ started <= N /\ failed <= N /\ rejected <= N /\ cutOff <= N
    BY <2>1, <2>2, <2>4
  <2>6. {started, cutOff, submitted, completed, failed, rejected} \subseteq 0 .. N
    BY <2>1, <2>2, <2>3, <2>5
  <2>7. taskFailed \in [Tasks -> 0 .. N]
    <3>1. \A t \in Tasks : taskFailed[t] \in 0 .. N
      BY <2>1, <2>2, <2>5 DEF BoundsInv
    <3> QED BY <3>1 DEF BoundsInv
  <2> QED BY <2>1, <2>6, <2>7 DEF LinksInv, BoundsInv, TypeOK, Count, N
<1> QED BY <1>1, CountInit, CountStep, LinksInit, LinksStep, DoneInit, DoneStep, BoundsInit,
           BoundsStep, PTL DEF Spec

-----------------------------------------------------------------------------
(* What failed_jobs holds beyond the failures of the tasks *)

HttpErrors == {g \in givenUp : g[2] = "http_error"}
FailInv == failed = SumFunction(taskFailed) + Cardinality(HttpErrors)

LEMMA HttpErrorsAreFinite ==
  ASSUME LinksInv
  PROVE  IsFiniteSet(HttpErrors) /\ Cardinality(HttpErrors) \in Nat
<1>1. IsFiniteSet({"FAILED", "timeout", "http_error"})
  <2>1. IsFiniteSet({"http_error"})
    BY FS_Singleton
  <2>2. IsFiniteSet({"http_error"} \union {"timeout"})
    BY <2>1, FS_AddElement
  <2>3. IsFiniteSet(({"http_error"} \union {"timeout"}) \union {"FAILED"})
    BY <2>2, FS_AddElement
  <2>4. ({"http_error"} \union {"timeout"}) \union {"FAILED"} = {"FAILED", "timeout", "http_error"}
    OBVIOUS
  <2> QED BY <2>3, <2>4, Zenon
<1>2. IsFiniteSet(Ids \X Reasons)
  BY <1>1, ClientAssumption, FS_Product DEF Reasons
<1>3. HttpErrors \subseteq Ids \X Reasons
  BY DEF HttpErrors, LinksInv
<1> QED BY <1>2, <1>3, FS_Subset, FS_CardinalityType

\* A failure adds one to the sum of the tasks, or one to the polls given up.
LEMMA FailStep == LinksInv /\ CountInv /\ BoundsInv /\ FailInv /\ [Next]_vars => FailInv'
<1> SUFFICES ASSUME LinksInv, CountInv, BoundsInv, FailInv, [Next]_vars PROVE FailInv'
  OBVIOUS
<1>0. /\ DOMAIN taskFailed = Tasks /\ DOMAIN taskFailed' = Tasks
      /\ \A t \in Tasks : taskFailed[t] \in Int
      /\ failed \in Int
  BY TaskBoundStep DEF BoundsInv, CountInv, CountersInv
<1> SUFFICES failed' = SumFunctionOnSet(taskFailed', Tasks) + Cardinality(HttpErrors')
  BY <1>0 DEF FailInv, SumFunction
<1>1. SumFunctionOnSet(taskFailed, Tasks) \in Int
  BY <1>0, ClientAssumption, SumOneOut
<1>2. failed = SumFunctionOnSet(taskFailed, Tasks) + Cardinality(HttpErrors)
  BY <1>0 DEF FailInv, SumFunction
<1>3. CASE FailsInTask
  <2>1. PICK v \in VUs, reasons \in SUBSET {"FAILED", "timeout"} :
          vuPc[v] # "idle" /\ CountFailed(v, {vuTask[v]}, reasons)
    BY <1>3 DEF FailsInTask
  <2>2. vuTask[v] \in Tasks
    BY <2>1 DEF LinksInv
  <2>3. /\ taskFailed'[vuTask[v]] = taskFailed[vuTask[v]] + 1
        /\ \A t \in Tasks \ {vuTask[v]} : taskFailed'[t] = taskFailed[t]
    BY <2>1, <2>2 DEF CountFailed
  <2>4. SumFunctionOnSet(taskFailed', Tasks) = SumFunctionOnSet(taskFailed, Tasks) + 1
    BY <1>0, <2>2, <2>3, ClientAssumption, SumIncrement
  <2>5. HttpErrors' = HttpErrors
    BY <2>1 DEF CountFailed, HttpErrors
  <2>6. failed' = failed + 1
    BY <2>1 DEF CountFailed
  <2> QED BY <1>1, <1>2, <2>4, <2>5, <2>6, HttpErrorsAreFinite
<1>4. CASE FailsInNoTask
  <2>1. PICK v \in VUs : vuPc[v] = "get" /\ CountFailed(v, {}, {"http_error"})
    BY <1>4 DEF FailsInNoTask
  <2>2. HttpErrors' = HttpErrors \union {<<vuJob[v], "http_error">>}
    BY <2>1 DEF CountFailed, HttpErrors
  <2>3. <<vuJob[v], "http_error">> \notin HttpErrors
    BY DEF LinksInv, HttpErrors
  <2>4. Cardinality(HttpErrors') = Cardinality(HttpErrors) + 1
    BY <2>2, <2>3, HttpErrorsAreFinite, FS_AddElement
  <2>5. failed' = failed + 1 /\ \A t \in Tasks : taskFailed'[t] = taskFailed[t]
    BY <2>1 DEF CountFailed
  <2>6. SumFunctionOnSet(taskFailed', Tasks) = SumFunctionOnSet(taskFailed, Tasks)
    BY <1>0, <2>5, ClientAssumption, SumEqual
  <2> QED BY <1>1, <1>2, <2>4, <2>5, <2>6, HttpErrorsAreFinite
<1>5. CASE UNCHANGED <<failed, taskFailed, givenUp>>
  BY <1>2, <1>5 DEF HttpErrors
<1> QED BY <1>3, <1>4, <1>5, CountingKinds

LEMMA FailInit == Init => FailInv
<1> SUFFICES ASSUME Init PROVE FailInv
  OBVIOUS
<1>1. DOMAIN taskFailed = Tasks /\ \A t \in Tasks : taskFailed[t] = 0
  BY DEF Init
<1>2. SumFunction(taskFailed) = 0
  BY <1>1, ClientAssumption, SumOfZeros DEF SumFunction
<1>3. HttpErrors = {}
  BY DEF Init, HttpErrors
<1>4. Cardinality(HttpErrors) = 0
  BY <1>3, FS_EmptySet
<1> QED BY <1>2, <1>4 DEF Init, FailInv

\* The failures of the tasks add up to failed_jobs less the polls that got no 200, which
\* jobs.js counts in the total and in no task (jobs.js:135-144).
THEOREM TaskFailuresMissPollErrorsAlways == Spec => []TaskFailuresMissPollErrors
<1>1. FailInv => TaskFailuresMissPollErrors
  BY DEF FailInv, HttpErrors, TaskFailuresMissPollErrors
<1> QED BY <1>1, CountInit, CountStep, LinksInit, LinksStep, BoundsInit, BoundsStep, FailInit,
           FailStep, PTL DEF Spec

=============================================================================
