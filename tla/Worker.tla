-------------------------------- MODULE Worker --------------------------------
(***************************************************************************)
(* The worker process of worker/app/worker.py: run_forever repeats         *)
(* run_once, which takes one job id from the list of the worker's pool and *)
(* carries the job through.  wPc[w] is the next call of worker w, wJob[w]  *)
(* the job it works on, wTry[w] the attempt retry_with_backoff is at.      *)
(*                                                                         *)
(* The id leaves Redis when it is popped: nothing but the worker's memory  *)
(* holds it until the job's row says DONE or FAILED.                       *)
(***************************************************************************)
EXTENDS PipelineServices

CONSTANTS
  Workers,      \* the worker processes
  PoolOf,       \* PoolOf[w]: the list worker w consumes, its REDIS_QUEUE_NAME
  MaxAttempts   \* max_attempts of retry_with_backoff

ASSUME WorkerAssumption ==
  /\ PoolOf \in [Workers -> Queues]
  /\ MaxAttempts \in Nat \ {0}

VARIABLES wPc, wJob, wTry

workerVars == <<wPc, wJob, wTry>>

\* The calls inside the try block of run_once.
TryBlock == {"load", "mark_processing", "download", "process", "upload", "mark_done"}
WorkerPcs == {"idle", "mark_failed", "down"} \union TryBlock

WorkerTypeOK ==
  /\ wPc \in [Workers -> WorkerPcs]
  /\ wJob \in [Workers -> Ids \union {NoJob}]
  /\ \A w \in Workers : wPc[w] \in {"idle", "down"} <=> wJob[w] = NoJob
  /\ wTry \in [Workers -> 1..MaxAttempts]

WorkerInit ==
  /\ wPc = [w \in Workers |-> "idle"]
  /\ wJob = [w \in Workers |-> NoJob]
  /\ wTry = [w \in Workers |-> 1]

-----------------------------------------------------------------------------

\* run_once goes on with its next call, the first attempt at it.
Advance(w, to) ==
  /\ wPc' = [wPc EXCEPT ![w] = to]
  /\ wTry' = [wTry EXCEPT ![w] = 1]
  /\ UNCHANGED wJob

\* Mutant: the next round starts with the job of the last one.
ReleaseKeepsJob(w, to) == Advance(w, to)

\* run_once is over, or the process is: the job id is forgotten.
Release(w, to) ==
  /\ wPc' = [wPc EXCEPT ![w] = to]
  /\ wTry' = [wTry EXCEPT ![w] = 1]
  /\ wJob' = [wJob EXCEPT ![w] = NoJob]

\* Mutant: the last attempt's error is dropped and the upload counts as done.
RetryThenIgnore(w) ==
  \/ /\ wTry[w] < MaxAttempts
     /\ wTry' = [wTry EXCEPT ![w] = @ + 1]
     /\ UNCHANGED <<wPc, wJob>>
  \/ /\ wTry[w] = MaxAttempts
     /\ Advance(w, IF wPc[w] = "upload" THEN "mark_done" ELSE "mark_failed")

\* Mutant: the attempts are counted afresh instead of giving up.
RetryForever(w) ==
  /\ wTry' = [wTry EXCEPT ![w] = IF @ < MaxAttempts THEN @ + 1 ELSE 1]
  /\ UNCHANGED <<wPc, wJob>>

\* A call under retry_with_backoff raised: it is tried again after the delay,
\* and the last attempt's error reaches the except clause of run_once.
RetryOrFail(w) ==
  \/ /\ wTry[w] < MaxAttempts
     /\ wTry' = [wTry EXCEPT ![w] = @ + 1]
     /\ UNCHANGED <<wPc, wJob>>
  \/ wTry[w] = MaxAttempts /\ Advance(w, "mark_failed")

-----------------------------------------------------------------------------

\* BRPOP hands over the id at the head of the pool's list.
TakeJob(w) ==
  LET q == PoolOf[w] IN
  /\ wPc[w] = "idle"
  /\ queues[q] # << >>
  /\ wJob' = [wJob EXCEPT ![w] = Head(queues[q])]
  /\ wPc' = [wPc EXCEPT ![w] = "load"]
  /\ Pop(q)
  /\ UNCHANGED <<wTry, jobs, inputs, outputs>>

\* BRPOP raises.  A TimeoutError is answered with None and run_forever goes
\* round; any other error is outside the try block and ends the process.
\* Either way Redis may already have removed the id it was sending.
TakeJobRaises(w) ==
  LET q == PoolOf[w] IN
  /\ wPc[w] = "idle"
  /\ \E to \in {"idle", "down"} : Release(w, to)
  /\ \/ Raises("redis") /\ UNCHANGED queues
     \/ RaisesAfterEffect("redis") /\ queues[q] # << >> /\ Pop(q)
  /\ UNCHANGED <<jobs, inputs, outputs>>

\* job_repository.get_job raises ValueError when there is no row.
Load(w) ==
  /\ wPc[w] = "load"
  /\ \/ wJob[w] \in Stored /\ Advance(w, "mark_processing")
     \/ wJob[w] \notin Stored /\ Advance(w, "mark_failed")
     \/ Raises("db") /\ Advance(w, "mark_failed")
  /\ UNCHANGED serviceVars

MarkProcessing(w) ==
  /\ wPc[w] = "mark_processing"
  /\ \/ UpdateStatus(wJob[w], "PROCESSING") /\ Advance(w, "download")
     \/ UpdateRaises(wJob[w], "PROCESSING") /\ Advance(w, "mark_failed")
  /\ UNCHANGED <<queues, inputs, outputs>>

\* storage.download of the original, retried; a missing object raises too
Download(w) ==
  /\ wPc[w] = "download"
  /\ \/ wJob[w] \in inputs /\ Advance(w, "process")
     \/ wJob[w] \notin inputs /\ RetryOrFail(w)
     \/ Raises("storage") /\ RetryOrFail(w)
  /\ UNCHANGED serviceVars

\* Image.open, process_image and the encoding of the result: deterministic in
\* the payload.
Process(w) ==
  /\ wPc[w] = "process"
  /\ \/ jobs[wJob[w]].payload \notin Broken /\ Advance(w, "upload")
     \/ jobs[wJob[w]].payload \in Broken /\ Advance(w, "mark_failed")
  /\ UNCHANGED serviceVars

\* storage.upload of the result, retried: the object is overwritten
UploadResult(w) ==
  /\ wPc[w] = "upload"
  /\ \/ UploadOutput(wJob[w]) /\ Advance(w, "mark_done")
     \/ Raises("storage") /\ UNCHANGED outputs /\ RetryOrFail(w)
     \/ RaisesAfterEffect("storage") /\ UploadOutput(wJob[w]) /\ RetryOrFail(w)
  /\ UNCHANGED <<jobs, queues, inputs>>

\* Mutant: mark_failed in a finally clause, run after mark_done too.
MarkDoneFinally(w) ==
  /\ wPc[w] = "mark_done"
  /\ \/ UpdateStatus(wJob[w], "DONE")
     \/ UpdateRaises(wJob[w], "DONE")
  /\ Advance(w, "mark_failed")
  /\ UNCHANGED <<queues, inputs, outputs>>

MarkDone(w) ==
  /\ wPc[w] = "mark_done"
  /\ \/ UpdateStatus(wJob[w], "DONE") /\ Release(w, "idle")
     \/ UpdateRaises(wJob[w], "DONE") /\ Advance(w, "mark_failed")
  /\ UNCHANGED <<queues, inputs, outputs>>

\* The except clause of run_once; its own error ends the process.
MarkFailed(w) ==
  /\ wPc[w] = "mark_failed"
  /\ \/ UpdateStatus(wJob[w], "FAILED") /\ Release(w, "idle")
     \/ UpdateRaises(wJob[w], "FAILED") /\ Release(w, "down")
  /\ UNCHANGED <<queues, inputs, outputs>>

-----------------------------------------------------------------------------

WorkerCrash(w) ==
  /\ "worker_crash" \in Faults
  /\ wPc[w] # "down"
  /\ Release(w, "down")
  /\ UNCHANGED serviceVars

\* restart: unless-stopped
WorkerRestart(w) == wPc[w] = "down" /\ Advance(w, "idle") /\ UNCHANGED serviceVars

RunOnce(w) ==
  \/ TakeJob(w) \/ Load(w) \/ MarkProcessing(w) \/ Download(w) \/ Process(w)
  \/ UploadResult(w) \/ MarkDone(w) \/ MarkFailed(w)

WorkerNext ==
  \E w \in Workers : RunOnce(w) \/ TakeJobRaises(w) \/ WorkerCrash(w) \/ WorkerRestart(w)
=============================================================================
