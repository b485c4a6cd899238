SPECIFICATION FairSpec
CONSTANTS
  VUs = {v1, v2}
  Tasks = {t1, t2}
  Ids = {i1, i2}
  NoJob = no_job
  NoTask = no_task
INVARIANTS
  TypeOK
  EveryIterationCounted
  CompletedIsDone
  TaskFailuresMissPollErrors
PROPERTIES
  IterationsEnd
\* All iterations have ended and all jobs are finished: nothing is left to do.
CHECK_DEADLOCK FALSE
