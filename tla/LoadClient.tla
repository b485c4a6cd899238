------------------------------ MODULE LoadClient ------------------------------
(***************************************************************************)
(* The k6 load client of loadtests/jobs.js against the service: virtual    *)
(* users that submit a job each and poll GET /jobs/{id} until it is DONE   *)
(* or FAILED or their deadline has passed, and the counters from which     *)
(* every report of a benchmark is made.                                    *)
(*                                                                         *)
(* The service is the one of JobLifecycle, which ImagePipeline implements  *)
(* when no acknowledgement is lost; between any two steps of a client jobs *)
(* may move on.  Time is reduced to whether the deadline of a poll has     *)
(* passed.  k6 ends its load phase at some point and cuts off what is      *)
(* still running after its grace period.                                   *)
(***************************************************************************)
EXTENDS Naturals, FiniteSetsExt

CONSTANTS
  VUs,          \* the virtual users of k6
  Tasks,        \* the tasks of the profile
  Ids,          \* the job ids the service may hand out: bounds the iterations
  NoJob,        \* a virtual user has no job
  NoTask        \* and no task

ASSUME ClientAssumption ==
  /\ IsFiniteSet(VUs) /\ IsFiniteSet(Tasks) /\ IsFiniteSet(Ids)
  /\ NoJob \notin Ids /\ NoTask \notin Tasks

VARIABLES
  status,     \* the rows of the service
  vuPc,       \* where each virtual user is in its iteration
  vuTask,     \* the task of its iteration
  vuJob,      \* the job it polls
  late,       \* the virtual users whose deadline has passed
  pollResult, \* POLL_RESULT, read when k6 starts
  loading,    \* k6 still starts iterations
  started,    \* iterations begun, and iterations k6 cut off
  cutOff,
  submitted,  \* submitted_jobs, completed_jobs, failed_jobs, rejected_jobs
  completed,
  failed,
  rejected,
  taskFailed, \* task_<name>_failed; the other task counters go with their totals
  givenUp     \* history: jobs whose polling ended in failed_jobs, and why

clientVars == <<vuPc, vuTask, vuJob, late, pollResult, loading, started, cutOff,
                submitted, completed, failed, rejected, taskFailed, givenUp>>
vars == <<status, clientVars>>

Service == INSTANCE JobLifecycle

VuPcs == {"idle", "post", "check_deadline", "get"}
Reasons == {"FAILED", "timeout", "http_error"}
Count == 0 .. Cardinality(Ids)

TypeOK ==
  /\ Service!LifecycleTypeOK
  /\ vuPc \in [VUs -> VuPcs]
  /\ vuTask \in [VUs -> Tasks \union {NoTask}]
  /\ vuJob \in [VUs -> Ids \union {NoJob}]
  /\ \A v \in VUs : /\ vuPc[v] = "idle" <=> vuTask[v] = NoTask
                    /\ vuPc[v] \in {"idle", "post"} <=> vuJob[v] = NoJob
  /\ late \subseteq VUs
  /\ {pollResult, loading} \subseteq BOOLEAN
  /\ {started, cutOff, submitted, completed, failed, rejected} \subseteq Count
  /\ taskFailed \in [Tasks -> Count]
  /\ givenUp \subseteq Ids \X Reasons

Init ==
  /\ Service!Init
  /\ vuPc = [v \in VUs |-> "idle"]
  /\ vuTask = [v \in VUs |-> NoTask]
  /\ vuJob = [v \in VUs |-> NoJob]
  /\ late = {}
  /\ pollResult \in BOOLEAN
  /\ loading = TRUE
  /\ started = 0 /\ cutOff = 0
  /\ submitted = 0 /\ completed = 0 /\ failed = 0 /\ rejected = 0
  /\ taskFailed = [t \in Tasks |-> 0]
  /\ givenUp = {}

-----------------------------------------------------------------------------
(* The counters an iteration ends with *)

CountCompleted == completed' = completed + 1 /\ UNCHANGED <<failed, rejected, taskFailed, givenUp>>
CountRejected == rejected' = rejected + 1 /\ UNCHANGED <<completed, failed, taskFailed, givenUp>>
CountNothing == UNCHANGED <<completed, failed, rejected, taskFailed, givenUp>>

\* failed_jobs, and the counter of the task unless it was a poll that got no 200
CountFailed(v, tasks, reasons) ==
  /\ failed' = failed + 1
  /\ taskFailed' = [t \in Tasks |-> IF t \in tasks THEN taskFailed[t] + 1 ELSE taskFailed[t]]
  /\ givenUp' = givenUp \union ({vuJob[v]} \X reasons)
  /\ UNCHANGED <<completed, rejected>>

\* Mutant: the job of the last iteration is kept.
EndKeepsJob(v) ==
  /\ vuPc' = [vuPc EXCEPT ![v] = "idle"]
  /\ vuTask' = [vuTask EXCEPT ![v] = NoTask]
  /\ late' = late \ {v}
  /\ UNCHANGED vuJob

EndIteration(v) ==
  /\ vuPc' = [vuPc EXCEPT ![v] = "idle"]
  /\ vuTask' = [vuTask EXCEPT ![v] = NoTask]
  /\ vuJob' = [vuJob EXCEPT ![v] = NoJob]
  /\ late' = late \ {v}

-----------------------------------------------------------------------------
(* An iteration *)

\* One iteration per job id that is left: the bound of the model.
StartIteration(v) ==
  /\ loading /\ started < Cardinality(Ids)
  /\ vuPc[v] = "idle"
  /\ \E t \in Tasks : vuTask' = [vuTask EXCEPT ![v] = t]
  /\ vuPc' = [vuPc EXCEPT ![v] = "post"]
  /\ started' = started + 1
  /\ UNCHANGED <<status, vuJob, late, pollResult, loading, cutOff, submitted, completed, failed,
                 rejected, taskFailed, givenUp>>

\* POST /jobs was answered 200 with the id of a new job.
PostAccepted(v) ==
  /\ vuPc[v] = "post"
  /\ \E i \in Ids :
       /\ Service!Create(i)
       /\ \/ /\ pollResult
             /\ vuJob' = [vuJob EXCEPT ![v] = i]
             /\ vuPc' = [vuPc EXCEPT ![v] = "check_deadline"]
             /\ UNCHANGED <<vuTask, late>>
          \/ ~pollResult /\ EndIteration(v)
  /\ submitted' = submitted + 1
  /\ CountNothing
  /\ UNCHANGED <<pollResult, loading, started, cutOff>>

\* POST /jobs was answered 429.
PostRejected(v) ==
  /\ vuPc[v] = "post"
  /\ EndIteration(v)
  /\ CountRejected
  /\ UNCHANGED <<status, pollResult, loading, started, cutOff, submitted>>

\* Mutant: the task's counter is forgotten.
PostFailsUntasked(v) ==
  /\ vuPc[v] = "post"
  /\ \/ UNCHANGED status
     \/ \E i \in Ids : Service!Create(i)
  /\ EndIteration(v)
  /\ CountFailed(v, {}, {})
  /\ UNCHANGED <<pollResult, loading, started, cutOff, submitted>>

\* POST /jobs got any other answer, or none; the service may have created the job.
PostFails(v) ==
  /\ vuPc[v] = "post"
  /\ \/ UNCHANGED status
     \/ \E i \in Ids : Service!Create(i)
  /\ EndIteration(v)
  /\ CountFailed(v, {vuTask[v]}, {})
  /\ UNCHANGED <<pollResult, loading, started, cutOff, submitted>>

\* The head of the loop of pollUntilDone: the deadline is looked at before the
\* sleep and not after it.
KeepPolling(v) ==
  /\ vuPc[v] = "check_deadline" /\ v \notin late
  /\ vuPc' = [vuPc EXCEPT ![v] = "get"]
  /\ UNCHANGED <<status, vuTask, vuJob, late, pollResult, loading, started, cutOff, submitted>>
  /\ CountNothing

\* Mutant: a timeout is logged and not counted.
TimeoutUncounted(v) ==
  /\ vuPc[v] = "check_deadline" /\ v \in late
  /\ EndIteration(v)
  /\ CountNothing
  /\ UNCHANGED <<status, pollResult, loading, started, cutOff, submitted>>

PollTimeout(v) ==
  /\ vuPc[v] = "check_deadline" /\ v \in late
  /\ EndIteration(v)
  /\ CountFailed(v, {vuTask[v]}, {"timeout"})
  /\ UNCHANGED <<status, pollResult, loading, started, cutOff, submitted>>

PollSeesFailed(v) ==
  /\ vuPc[v] = "get" /\ status[vuJob[v]] = "FAILED"
  /\ EndIteration(v)
  /\ CountFailed(v, {vuTask[v]}, {"FAILED"})
  /\ UNCHANGED <<status, pollResult, loading, started, cutOff, submitted>>

\* Mutant: any answer 200 to a poll counts as completion.
PollSeesJob(v) ==
  /\ vuPc[v] = "get"
  /\ EndIteration(v)
  /\ CountCompleted
  /\ UNCHANGED <<status, pollResult, loading, started, cutOff, submitted>>

PollSeesDone(v) ==
  /\ vuPc[v] = "get" /\ status[vuJob[v]] = "DONE"
  /\ EndIteration(v)
  /\ CountCompleted
  /\ UNCHANGED <<status, pollResult, loading, started, cutOff, submitted>>

\* Mutant: the deadline is set anew for each poll.
PollRenewsDeadline(v) ==
  /\ vuPc[v] = "get" /\ status[vuJob[v]] \in Service!Unfinished
  /\ vuPc' = [vuPc EXCEPT ![v] = "check_deadline"]
  /\ late' = late \ {v}
  /\ UNCHANGED <<status, vuTask, vuJob, pollResult, loading, started, cutOff, submitted>>
  /\ CountNothing

PollSeesUnfinished(v) ==
  /\ vuPc[v] = "get" /\ status[vuJob[v]] \in Service!Unfinished
  /\ vuPc' = [vuPc EXCEPT ![v] = "check_deadline"]
  /\ UNCHANGED <<status, vuTask, vuJob, late, pollResult, loading, started, cutOff, submitted>>
  /\ CountNothing

\* GET /jobs/{id} is answered by something else than 200, whatever the job does:
\* the polling ends at once, counted in failed_jobs and in no task.
PollHttpError(v) ==
  /\ vuPc[v] = "get"
  /\ EndIteration(v)
  /\ CountFailed(v, {}, {"http_error"})
  /\ UNCHANGED <<status, pollResult, loading, started, cutOff, submitted>>

-----------------------------------------------------------------------------
(* Time, k6 and the service *)

DeadlinePasses(v) ==
  /\ vuPc[v] \in {"check_deadline", "get"} /\ v \notin late
  /\ late' = late \union {v}
  /\ UNCHANGED <<status, vuPc, vuTask, vuJob, pollResult, loading, started, cutOff, submitted>>
  /\ CountNothing

\* DURATION is over.
LoadEnds ==
  /\ loading /\ loading' = FALSE
  /\ UNCHANGED <<status, vuPc, vuTask, vuJob, late, pollResult, started, cutOff, submitted>>
  /\ CountNothing

\* The grace period of the scenario is over: k6 interrupts an iteration where it waits.
\* A POST under way may still be carried out.
CutOff(v) ==
  /\ ~loading /\ vuPc[v] # "idle"
  /\ \/ UNCHANGED status
     \/ vuPc[v] = "post" /\ \E i \in Ids : Service!Create(i)
  /\ EndIteration(v)
  /\ cutOff' = cutOff + 1
  /\ CountNothing
  /\ UNCHANGED <<pollResult, loading, started, submitted>>

JobMoves ==
  /\ \E i \in Ids : Service!Start(i) \/ Service!Finish(i) \/ Service!Fail(i)
  /\ UNCHANGED clientVars

Iteration(v) ==
  \/ PostAccepted(v) \/ PostRejected(v) \/ PostFails(v)
  \/ KeepPolling(v) \/ PollTimeout(v)
  \/ PollSeesDone(v) \/ PollSeesFailed(v) \/ PollSeesUnfinished(v) \/ PollHttpError(v)

Next ==
  \/ \E v \in VUs : StartIteration(v) \/ Iteration(v) \/ DeadlinePasses(v) \/ CutOff(v)
  \/ LoadEnds
  \/ JobMoves

Spec == Init /\ [][Next]_vars

\* Every HTTP request of k6 has a timeout, sleeps end, and time passes.
FairSpec ==
  Spec /\ \A v \in VUs : WF_vars(Iteration(v)) /\ WF_vars(DeadlinePasses(v))

-----------------------------------------------------------------------------
(* Properties *)

Running == {v \in VUs : vuPc[v] # "idle"}

\* Every iteration is counted once, as completed (or as submitted, when it does not
\* poll), failed or rejected, as long as k6 lets it end (jobs.js:125-226).
EveryIterationCounted ==
  started = (IF pollResult THEN completed ELSE submitted)
              + failed + rejected + cutOff + Cardinality(Running)

\* A job counted as completed is DONE: completed_jobs, from which the throughput of a
\* run is computed, never exceeds what the service has finished.
CompletedIsDone == completed <= Cardinality({i \in Ids : status[i] = "DONE"})

\* The per-task failures add up to failed_jobs but for polls that got no 200.
TaskFailuresMissPollErrors ==
  failed = SumFunction(taskFailed)
             + Cardinality({g \in givenUp : g[2] = "http_error"})

\* An iteration ends, whatever becomes of its job.
IterationsEnd == \A v \in VUs : vuPc[v] # "idle" ~> vuPc[v] = "idle"
=============================================================================
