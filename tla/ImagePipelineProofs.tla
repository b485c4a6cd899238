------------------------- MODULE ImagePipelineProofs -------------------------
(***************************************************************************)
(* Theorems about ImagePipeline, for every number of API processes,        *)
(* workers, requests, keys and payloads, and under every set of faults.    *)
(***************************************************************************)
EXTENDS ImagePipeline, FiniteSetTheorems, TLAPS

(***************************************************************************)
(* The disjuncts of Next: every action leaves the variables of the other   *)
(* component alone.                                                        *)
(***************************************************************************)
ApiStep(a) ==
  \/ Receive(a) \/ Lookup(a) \/ Admit(a) \/ Upload(a) \/ Insert(a) \/ Reread(a)
  \/ PushJob(a) \/ MarkPushFailed(a) \/ ApiCrash(a) \/ ApiRestart(a)

WorkerStep(w) ==
  \/ TakeJob(w) \/ Load(w) \/ MarkProcessing(w) \/ Download(w) \/ Process(w)
  \/ UploadResult(w) \/ MarkDone(w) \/ MarkFailed(w) \/ TakeJobRaises(w)
  \/ WorkerCrash(w) \/ WorkerRestart(w)

\* A step of the system is a step of one process.
LEMMA StepCases ==
  ASSUME [Next]_vars
  PROVE  \/ \E a \in Apis : ApiStep(a) /\ UNCHANGED workerVars
         \/ \E w \in Workers : WorkerStep(w) /\ UNCHANGED apiVars
         \/ UNCHANGED vars
BY DEF Next, ApiNext, WorkerNext, Handle, RunOnce, ApiStep, WorkerStep

(***************************************************************************)
(* Lemmas about the store                                                  *)
(***************************************************************************)

\* UPDATE keeps the table a table, and changes one status at most.
LEMMA UpdateType ==
  ASSUME ServicesTypeOK, NEW i \in Ids, NEW s \in Statuses, UpdateStatus(i, s)
  PROVE  jobs' \in [Ids -> Row \union {NoRow}]
<1>1. CASE i \in Stored
  <2>1. jobs[i] \in Row
    BY <1>1 DEF Stored, ServicesTypeOK
  <2>2. [jobs[i] EXCEPT !.status = s] \in Row
    BY <2>1 DEF Row
  <2>3. jobs' = [jobs EXCEPT ![i] = [jobs[i] EXCEPT !.status = s]]
    BY <1>1 DEF UpdateStatus, ServicesTypeOK
  <2> QED BY <2>2, <2>3 DEF ServicesTypeOK
<1>2. CASE i \notin Stored
  BY <1>2 DEF UpdateStatus, ServicesTypeOK
<1> QED BY <1>1, <1>2

LEMMA UpdateRaisesType ==
  ASSUME ServicesTypeOK, NEW i \in Ids, NEW s \in Statuses, UpdateRaises(i, s)
  PROVE  jobs' \in [Ids -> Row \union {NoRow}]
<1>1. CASE UNCHANGED jobs
  BY <1>1 DEF ServicesTypeOK
<1>2. CASE UpdateStatus(i, s)
  BY <1>2, UpdateType
<1> QED BY <1>1, <1>2 DEF UpdateRaises

LEMMA InsertType ==
  ASSUME ServicesTypeOK, NEW i \in Ids, NEW k \in KeysSent, NEW p \in Payloads,
         InsertJob(i, k, p)
  PROVE  jobs' \in [Ids -> Row \union {NoRow}]
BY DEF InsertJob, ServicesTypeOK, Row, Statuses

LEMMA PushType ==
  ASSUME ServicesTypeOK, NEW q \in Queues, NEW i \in Ids, Push(q, i)
  PROVE  queues' \in [Queues -> Seq(Ids)]
BY DEF Push, ServicesTypeOK

LEMMA PopType ==
  ASSUME ServicesTypeOK, NEW q \in Queues, queues[q] # << >>, Pop(q)
  PROVE  queues' \in [Queues -> Seq(Ids)]
BY DEF Pop, ServicesTypeOK

(***************************************************************************)
(* Lemmas about a process                                                  *)
(***************************************************************************)

\* A process of the API that is neither ready nor down serves a request.
LEMMA Serving ==
  ASSUME ApiTypeOK, NEW a \in Apis, apiPc[a] \notin {"ready", "down"}
  PROVE  /\ apiReq[a] \in Request
         /\ apiReq[a].id \in Ids /\ apiReq[a].key \in KeysSent /\ apiReq[a].payload \in Payloads
<1>1. apiReq[a] \in Request
  BY DEF ApiTypeOK
<1> QED BY <1>1 DEF Request

LEMMA GotoType ==
  ASSUME ApiTypeOK, NEW a \in Apis, NEW to \in ApiPcs \ {"ready", "down"},
         apiPc[a] \notin {"ready", "down"}, Goto(a, to)
  PROVE  ApiTypeOK'
BY DEF ApiTypeOK, Goto

LEMMA RespondType ==
  ASSUME ApiTypeOK, NEW a \in Apis, NEW code \in Codes, NEW job \in Ids \union {NoJob},
         apiPc[a] \notin {"ready", "down"}, Respond(a, code, job)
  PROVE  ApiTypeOK'
<1>1. apiReq[a] \in Request /\ apiReq[a].id \in Ids /\ apiReq[a].key \in KeysSent
        /\ apiReq[a].payload \in Payloads
  BY Serving
<1>2. [key |-> apiReq[a].key, payload |-> apiReq[a].payload, code |-> code, job |-> job] \in Reply
  BY <1>1 DEF Reply
<1>3. replies' \in [Ids -> Reply \union {NoReply}]
  BY <1>1, <1>2 DEF Respond, ApiTypeOK
<1> QED BY <1>3, ApiNoneAssumption DEF Respond, ApiTypeOK, ApiPcs

LEMMA Fail500Type ==
  ASSUME ApiTypeOK, NEW a \in Apis, apiPc[a] \notin {"ready", "down"}, Fail500(a)
  PROVE  ApiTypeOK'
BY RespondType DEF Fail500, Codes

LEMMA AnswerType ==
  ASSUME ApiTypeOK, NEW a \in Apis, apiPc[a] \notin {"ready", "down"}, AnswerFromExisting(a)
  PROVE  ApiTypeOK'
BY RespondType DEF AnswerFromExisting, Codes, JobsWithKey, Stored

LEMMA AdvanceType ==
  ASSUME WorkerTypeOK, NEW w \in Workers, NEW to \in WorkerPcs \ {"idle", "down"},
         wPc[w] \notin {"idle", "down"}, Advance(w, to)
  PROVE  WorkerTypeOK'
BY WorkerAssumption DEF WorkerTypeOK, Advance

LEMMA ReleaseType ==
  ASSUME WorkerTypeOK, NEW w \in Workers, NEW to \in {"idle", "down"}, Release(w, to)
  PROVE  WorkerTypeOK'
BY WorkerAssumption DEF WorkerTypeOK, Release, WorkerPcs

LEMMA RetryType ==
  ASSUME WorkerTypeOK, NEW w \in Workers, wPc[w] \notin {"idle", "down"}, RetryOrFail(w)
  PROVE  WorkerTypeOK'
<1>1. CASE Advance(w, "mark_failed")
  BY <1>1, AdvanceType DEF WorkerPcs
<1>2. CASE /\ wTry[w] < MaxAttempts
           /\ wTry' = [wTry EXCEPT ![w] = @ + 1]
           /\ UNCHANGED <<wPc, wJob>>
  BY <1>2, WorkerAssumption DEF WorkerTypeOK
<1> QED BY <1>1, <1>2 DEF RetryOrFail

(***************************************************************************)
(* Type correctness                                                        *)
(***************************************************************************)

LEMMA ApiStepType ==
  ASSUME TypeOK, NEW a \in Apis, ApiStep(a), UNCHANGED workerVars
  PROVE  TypeOK'
<1> USE DEF TypeOK
<1>0. WorkerTypeOK'
  BY DEF workerVars, WorkerTypeOK
<1>1. CASE Receive(a)
  <2>1. PICK r \in Request :
          /\ received' = received \union {r.id}
          /\ apiReq' = [apiReq EXCEPT ![a] = r]
          /\ apiPc' = [apiPc EXCEPT ![a] = IF Truthy(r.key) THEN "lookup" ELSE "admit"]
    BY <1>1 DEF Receive
  <2>2. r.id \in Ids
    BY DEF Request
  <2>3. ApiTypeOK'
    BY <1>1, <2>1, <2>2, ApiNoneAssumption DEF Receive, ApiTypeOK, ApiPcs
  <2> QED BY <1>0, <1>1, <2>3 DEF Receive, serviceVars, ServicesTypeOK
<1>2. CASE Lookup(a)
  <2>1. ServicesTypeOK'
    BY <1>2 DEF Lookup, serviceVars, ServicesTypeOK
  <2>2. apiPc[a] \notin {"ready", "down"}
    BY <1>2 DEF Lookup
  <2> QED BY <1>0, <1>2, <2>1, <2>2, GotoType, AnswerType, Fail500Type DEF Lookup, ApiPcs
<1>3. CASE Admit(a)
  <2>1. ServicesTypeOK'
    BY <1>3 DEF Admit, serviceVars, ServicesTypeOK
  <2>2. apiPc[a] \notin {"ready", "down"}
    BY <1>3 DEF Admit
  <2>3. ApiTypeOK'
    BY <1>3, <2>2, GotoType, RespondType, Fail500Type DEF Admit, ApiPcs, Codes
  <2> QED BY <1>0, <2>1, <2>3
<1>4. CASE Upload(a)
  <2>1. apiPc[a] \notin {"ready", "down"}
    BY <1>4 DEF Upload
  <2>2. apiReq[a].id \in Ids
    BY <2>1, Serving
  <2>3. ServicesTypeOK'
    BY <1>4, <2>2 DEF Upload, UploadInput, ServicesTypeOK
  <2>4. ApiTypeOK'
    BY <1>4, <2>1, GotoType, Fail500Type DEF Upload, ApiPcs
  <2> QED BY <1>0, <2>3, <2>4
<1>5. CASE Insert(a)
  <2>1. apiPc[a] \notin {"ready", "down"}
    BY <1>5 DEF Insert
  <2>2. jobs' \in [Ids -> Row \union {NoRow}]
    BY <1>5, <2>1, Serving, InsertType DEF Insert, ServicesTypeOK
  <2>3. ServicesTypeOK'
    BY <1>5, <2>2 DEF Insert, ServicesTypeOK
  <2>4. ApiTypeOK'
    BY <1>5, <2>1, GotoType, Fail500Type DEF Insert, ApiPcs
  <2> QED BY <1>0, <2>3, <2>4
<1>6. CASE Reread(a)
  <2>1. ServicesTypeOK'
    BY <1>6 DEF Reread, serviceVars, ServicesTypeOK
  <2>2. apiPc[a] \notin {"ready", "down"}
    BY <1>6 DEF Reread
  <2> QED BY <1>0, <1>6, <2>1, <2>2, AnswerType, Fail500Type DEF Reread
<1>7. CASE PushJob(a)
  <2>1. apiPc[a] \notin {"ready", "down"}
    BY <1>7 DEF PushJob
  <2>2. apiReq[a].id \in Ids /\ TargetQueue(a) \in Queues
    BY <2>1, Serving, ServicesAssumption DEF TargetQueue
  <2>3. queues' \in [Queues -> Seq(Ids)]
    BY <1>7, <2>2, PushType DEF PushJob, ServicesTypeOK
  <2>4. ServicesTypeOK'
    BY <1>7, <2>3 DEF PushJob, ServicesTypeOK
  <2>5. ApiTypeOK'
    BY <1>7, <2>1, <2>2, GotoType, RespondType DEF PushJob, ApiPcs, Codes
  <2> QED BY <1>0, <2>4, <2>5
<1>8. CASE MarkPushFailed(a)
  <2>1. apiPc[a] \notin {"ready", "down"}
    BY <1>8 DEF MarkPushFailed
  <2>2. jobs' \in [Ids -> Row \union {NoRow}]
    BY <1>8, <2>1, Serving, UpdateType, UpdateRaisesType DEF MarkPushFailed, Statuses
  <2>3. ServicesTypeOK'
    BY <1>8, <2>2 DEF MarkPushFailed, ServicesTypeOK
  <2>4. ApiTypeOK'
    BY <1>8, <2>1, RespondType, Fail500Type DEF MarkPushFailed, Codes
  <2> QED BY <1>0, <2>3, <2>4
<1>9. CASE ApiCrash(a)
  BY <1>0, <1>9, ApiNoneAssumption DEF ApiCrash, ApiTypeOK, ApiPcs, serviceVars, ServicesTypeOK
<1>10. CASE ApiRestart(a)
  BY <1>0, <1>10 DEF ApiRestart, Goto, ApiTypeOK, ApiPcs, serviceVars, ServicesTypeOK
<1> QED
  BY <1>1, <1>2, <1>3, <1>4, <1>5, <1>6, <1>7, <1>8, <1>9, <1>10 DEF ApiStep

LEMMA WorkerStepType ==
  ASSUME TypeOK, NEW w \in Workers, WorkerStep(w), UNCHANGED apiVars
  PROVE  TypeOK'
<1> USE DEF TypeOK
<1>0. ApiTypeOK'
  BY DEF apiVars, ApiTypeOK
<1>q. PoolOf[w] \in Queues
  BY WorkerAssumption
<1>j. ASSUME wPc[w] \notin {"idle", "down"} PROVE wJob[w] \in Ids
  BY <1>j DEF WorkerTypeOK
<1>1. CASE TakeJob(w)
  <2>1. Head(queues[PoolOf[w]]) \in Ids
    BY <1>1, <1>q DEF TakeJob, ServicesTypeOK
  <2>2. WorkerTypeOK'
    BY <1>1, <2>1, ServicesAssumption DEF TakeJob, WorkerTypeOK, WorkerPcs, TryBlock
  <2>3. ServicesTypeOK'
    BY <1>1, <1>q, PopType DEF TakeJob, ServicesTypeOK
  <2> QED BY <1>0, <2>2, <2>3
<1>2. CASE TakeJobRaises(w)
  <2>1. WorkerTypeOK'
    BY <1>2, ReleaseType DEF TakeJobRaises
  <2>2. ServicesTypeOK'
    BY <1>2, <1>q, PopType DEF TakeJobRaises, ServicesTypeOK
  <2> QED BY <1>0, <2>1, <2>2
<1>3. CASE Load(w)
  <2>1. WorkerTypeOK'
    BY <1>3, AdvanceType DEF Load, WorkerPcs, TryBlock
  <2> QED BY <1>0, <1>3, <2>1 DEF Load, serviceVars, ServicesTypeOK
<1>4. CASE MarkProcessing(w)
  <2>1. WorkerTypeOK'
    BY <1>4, AdvanceType DEF MarkProcessing, WorkerPcs, TryBlock
  <2>2. jobs' \in [Ids -> Row \union {NoRow}]
    BY <1>4, <1>j, UpdateType, UpdateRaisesType DEF MarkProcessing, Statuses
  <2> QED BY <1>0, <1>4, <2>1, <2>2 DEF MarkProcessing, ServicesTypeOK
<1>5. CASE Download(w)
  <2>1. WorkerTypeOK'
    BY <1>5, AdvanceType, RetryType DEF Download, WorkerPcs, TryBlock
  <2> QED BY <1>0, <1>5, <2>1 DEF Download, serviceVars, ServicesTypeOK
<1>6. CASE Process(w)
  <2>1. WorkerTypeOK'
    BY <1>6, AdvanceType DEF Process, WorkerPcs, TryBlock
  <2> QED BY <1>0, <1>6, <2>1 DEF Process, serviceVars, ServicesTypeOK
<1>7. CASE UploadResult(w)
  <2>1. WorkerTypeOK'
    BY <1>7, AdvanceType, RetryType DEF UploadResult, WorkerPcs, TryBlock
  <2> QED BY <1>0, <1>7, <1>j, <2>1 DEF UploadResult, UploadOutput, ServicesTypeOK
<1>8. CASE MarkDone(w)
  <2>1. WorkerTypeOK'
    BY <1>8, AdvanceType, ReleaseType DEF MarkDone, WorkerPcs, TryBlock
  <2>2. jobs' \in [Ids -> Row \union {NoRow}]
    BY <1>8, <1>j, UpdateType, UpdateRaisesType DEF MarkDone, Statuses
  <2> QED BY <1>0, <1>8, <2>1, <2>2 DEF MarkDone, ServicesTypeOK
<1>9. CASE MarkFailed(w)
  <2>1. WorkerTypeOK'
    BY <1>9, ReleaseType DEF MarkFailed
  <2>2. jobs' \in [Ids -> Row \union {NoRow}]
    BY <1>9, <1>j, UpdateType, UpdateRaisesType DEF MarkFailed, Statuses
  <2> QED BY <1>0, <1>9, <2>1, <2>2 DEF MarkFailed, ServicesTypeOK
<1>10. CASE WorkerCrash(w)
  <2>1. WorkerTypeOK'
    BY <1>10, ReleaseType DEF WorkerCrash
  <2> QED BY <1>0, <1>10, <2>1 DEF WorkerCrash, serviceVars, ServicesTypeOK
<1>11. CASE WorkerRestart(w)
  <2>1. WorkerTypeOK'
    BY <1>11, WorkerAssumption DEF WorkerRestart, Advance, WorkerTypeOK, WorkerPcs
  <2> QED BY <1>0, <1>11, <2>1 DEF WorkerRestart, serviceVars, ServicesTypeOK
<1> QED
  BY <1>1, <1>2, <1>3, <1>4, <1>5, <1>6, <1>7, <1>8, <1>9, <1>10, <1>11 DEF WorkerStep

LEMMA InitType == Init => TypeOK
<1> SUFFICES ASSUME Init PROVE TypeOK
  OBVIOUS
<1>1. ServicesTypeOK
  BY DEF Init, ServicesInit, ServicesTypeOK
<1>2. ApiTypeOK
  BY DEF Init, ApiInit, ApiTypeOK, ApiPcs
<1>3. WorkerTypeOK
  BY WorkerAssumption DEF Init, WorkerInit, WorkerTypeOK, WorkerPcs
<1> QED BY <1>1, <1>2, <1>3 DEF TypeOK

LEMMA StepType == TypeOK /\ [Next]_vars => TypeOK'
<1> SUFFICES ASSUME TypeOK, [Next]_vars PROVE TypeOK'
  OBVIOUS
<1>1. CASE UNCHANGED vars
  BY <1>1 DEF vars, serviceVars, apiVars, workerVars, TypeOK, ServicesTypeOK, ApiTypeOK,
              WorkerTypeOK
<1> QED BY <1>1, StepCases, ApiStepType, WorkerStepType

\* In every state the tables, lists and processes hold what the code puts there:
\* rows with one of the four statuses, lists of job ids, and a process has a
\* request, or a job, exactly while it is serving one.
THEOREM TypeCorrect == Spec => []TypeOK
BY InitType, StepType, PTL DEF Spec

(***************************************************************************)
(* DONE means that there is a result                                       *)
(***************************************************************************)

\* What makes DoneHasResult inductive: a worker about to write DONE has an
\* acknowledged upload behind it.
ResultInv ==
  /\ DoneHasResult
  /\ \A w \in Workers : wPc[w] = "mark_done" => wJob[w] \in outputs

\* A job the step left alone, or moved to another status than DONE, is DONE after
\* it only if it was DONE before.
LEMMA DoneBefore ==
  ASSUME TypeOK, NEW i \in Ids, NEW s \in Statuses \ {"DONE"},
         UNCHANGED jobs \/ UpdateStatus(i, s) \/ UpdateRaises(i, s),
         NEW j \in Stored', (jobs[j].status = "DONE")'
  PROVE  j \in Stored /\ jobs[j].status = "DONE"
<1>1. CASE UNCHANGED jobs
  BY <1>1 DEF Stored
<1>2. CASE UpdateStatus(i, s)
  BY <1>2 DEF UpdateStatus, Stored, TypeOK, ServicesTypeOK, Row
<1> QED BY <1>1, <1>2 DEF UpdateRaises

LEMMA ApiStepResult ==
  ASSUME TypeOK, ResultInv, NEW a \in Apis, ApiStep(a), UNCHANGED workerVars
  PROVE  ResultInv'
<1>1. outputs' = outputs /\ wPc' = wPc /\ wJob' = wJob
  BY DEF ApiStep, Receive, Lookup, Admit, Upload, Insert, Reread, PushJob, MarkPushFailed,
         ApiCrash, ApiRestart, serviceVars, workerVars
<1>2. ASSUME NEW j \in Stored', (jobs[j].status = "DONE")'
      PROVE  j \in Stored /\ jobs[j].status = "DONE"
  <2>1. CASE UNCHANGED jobs
    BY <1>2, <2>1 DEF Stored
  <2>2. CASE Insert(a)
    <3>1. CASE InsertJob(apiReq[a].id, apiReq[a].key, apiReq[a].payload)
      BY <1>2, <3>1 DEF InsertJob, Stored, TypeOK, ServicesTypeOK
    <3> QED BY <2>1, <2>2, <3>1 DEF Insert
  <2>3. CASE MarkPushFailed(a)
    <3>1. apiReq[a].id \in Ids
      BY <2>3, Serving DEF MarkPushFailed, TypeOK
    <3> QED BY <1>2, <2>3, <3>1, DoneBefore DEF MarkPushFailed, Statuses
  <2> QED
    BY <2>1, <2>2, <2>3 DEF ApiStep, Receive, Lookup, Admit, Upload, Reread, PushJob, ApiCrash,
                            ApiRestart, serviceVars
<1> QED BY <1>1, <1>2 DEF ResultInv, DoneHasResult

LEMMA WorkerStepResult ==
  ASSUME TypeOK, ResultInv, NEW w \in Workers, WorkerStep(w), UNCHANGED apiVars
  PROVE  ResultInv'
<1>j. ASSUME wPc[w] \notin {"idle", "down"} PROVE wJob[w] \in Ids
  BY <1>j DEF TypeOK, WorkerTypeOK
<1>1. outputs \subseteq outputs'
  BY DEF WorkerStep, TakeJob, TakeJobRaises, Load, MarkProcessing, Download, Process, UploadResult,
         UploadOutput, MarkDone, MarkFailed, WorkerCrash, WorkerRestart, serviceVars
<1>2. \A v \in Workers : (wPc[v] = "mark_done")' => (wJob[v] \in outputs)'
  <2> SUFFICES ASSUME NEW v \in Workers, (wPc[v] = "mark_done")' PROVE (wJob[v] \in outputs)'
    OBVIOUS
  <2>1. CASE v # w
    <3>1. wPc'[v] = wPc[v] /\ wJob'[v] = wJob[v]
      BY <2>1 DEF WorkerStep, TakeJob, TakeJobRaises, Load, MarkProcessing, Download, Process,
                  UploadResult, MarkDone, MarkFailed, WorkerCrash, WorkerRestart, Advance, Release,
                  RetryOrFail, TypeOK, WorkerTypeOK
    <3> QED BY <1>1, <3>1 DEF ResultInv
  <2>2. CASE v = w
    BY <1>1, <2>2 DEF WorkerStep, TakeJob, TakeJobRaises, Load, MarkProcessing, Download, Process,
                UploadResult, UploadOutput, MarkDone, MarkFailed, WorkerCrash, WorkerRestart,
                Advance, Release, RetryOrFail, TypeOK, WorkerTypeOK
  <2> QED BY <2>1, <2>2
<1>3. ASSUME NEW j \in Stored', (jobs[j].status = "DONE")'
      PROVE  j \in outputs
  <2>1. CASE UNCHANGED jobs
    BY <1>3, <2>1 DEF Stored, ResultInv, DoneHasResult
  <2>2. CASE MarkProcessing(w)
    BY <1>3, <1>j, <2>2, DoneBefore DEF MarkProcessing, Statuses, ResultInv, DoneHasResult
  <2>3. CASE MarkFailed(w)
    BY <1>3, <1>j, <2>3, DoneBefore DEF MarkFailed, Statuses, ResultInv, DoneHasResult
  <2>4. CASE MarkDone(w)
    <3>1. wJob[w] \in outputs
      BY <2>4 DEF MarkDone, ResultInv
    <3>2. CASE UpdateStatus(wJob[w], "DONE")
      BY <1>3, <3>1, <3>2 DEF UpdateStatus, Stored, TypeOK, ServicesTypeOK, ResultInv, DoneHasResult
    <3> QED BY <2>1, <2>4, <3>2 DEF MarkDone, UpdateRaises
  <2> QED
    BY <2>1, <2>2, <2>3, <2>4 DEF WorkerStep, TakeJob, TakeJobRaises, Load, Download, Process,
       UploadResult, WorkerCrash, WorkerRestart, serviceVars
<1> QED BY <1>1, <1>2, <1>3 DEF ResultInv, DoneHasResult

\* Whatever fails and whoever dies, a job whose row says DONE has its result in
\* MinIO: get_job_result never misses the object of a DONE job.
THEOREM DoneHasResultAlways == Spec => []DoneHasResult
<1>1. Init => ResultInv
  BY DEF Init, ServicesInit, WorkerInit, ResultInv, DoneHasResult, Stored
<1>2. TypeOK /\ ResultInv /\ [Next]_vars => ResultInv'
  <2> SUFFICES ASSUME TypeOK, ResultInv, [Next]_vars PROVE ResultInv'
    OBVIOUS
  <2>1. CASE UNCHANGED vars
    BY <2>1 DEF vars, serviceVars, workerVars, ResultInv, DoneHasResult, Stored
  <2> QED BY <2>1, StepCases, ApiStepResult, WorkerStepResult
<1>3. ResultInv => DoneHasResult
  BY DEF ResultInv
<1> QED BY <1>1, <1>2, <1>3, TypeCorrect, PTL DEF Spec

-----------------------------------------------------------------------------
(* The length of the Redis lists, for every number of API processes and every
   MAX_QUEUE_LENGTH: QueueBound. *)

\* What makes QueueBound inductive: a job that passed the length check counts
\* from then on, not only once it is pushed.
AdmissionInv ==
  \A q \in Queues :
    Len(queues[q]) + Cardinality(Admitted(q)) < MaxQueueLength + Cardinality(Apis)

LEMMA LenType ==
  ASSUME TypeOK, NEW q \in Queues
  PROVE  Len(queues[q]) \in Nat
BY DEF TypeOK, ServicesTypeOK

\* The handlers admitted to a list are some of the API processes.
LEMMA AdmittedCard ==
  ASSUME NEW q \in Queues
  PROVE  /\ IsFiniteSet(Admitted(q)) /\ Cardinality(Admitted(q)) \in Nat
         /\ Cardinality(Admitted(q)) <= Cardinality(Apis)
         /\ Cardinality(Apis) \in Nat \ {0}
<1>1. Admitted(q) \subseteq Apis /\ IsFiniteSet(Apis) /\ Apis # {}
  BY ApiAssumption DEF Admitted
<1>2. IsFiniteSet(Admitted(q)) /\ Cardinality(Admitted(q)) <= Cardinality(Apis)
  BY <1>1, FS_Subset
<1>3. Cardinality(Admitted(q)) \in Nat /\ Cardinality(Apis) \in Nat
  BY <1>1, <1>2, FS_CardinalityType
<1>4. Cardinality(Apis) # 0
  BY <1>1, FS_EmptySet
<1> QED BY <1>2, <1>3, <1>4

\* A step that admits nobody to a list and adds nothing to it keeps its bound.
LEMMA NoNewcomer ==
  ASSUME TypeOK, TypeOK', AdmissionInv, NEW q \in Queues,
         Admitted(q)' \subseteq Admitted(q), Len(queues'[q]) <= Len(queues[q])
  PROVE  Len(queues'[q]) + Cardinality(Admitted(q)') < MaxQueueLength + Cardinality(Apis)
<1>1. Cardinality(Admitted(q)') \in Nat /\ Cardinality(Admitted(q)') <= Cardinality(Admitted(q))
  BY AdmittedCard, FS_Subset, FS_CardinalityType
<1>2. Len(queues[q]) \in Nat /\ Len(queues'[q]) \in Nat
  BY DEF TypeOK, ServicesTypeOK
<1>3. MaxQueueLength \in Nat
  BY ApiAssumption
<1> QED BY <1>1, <1>2, <1>3, AdmittedCard DEF AdmissionInv

\* Nobody is admitted by a handler that responds, dies or restarts, nor by one
\* that stays among the admitted.
LEMMA NoneAdmitted ==
  ASSUME TypeOK, NEW q \in Queues, NEW a \in Apis, NEW to,
         apiPc' = [apiPc EXCEPT ![a] = to],
         \/ apiReq' = [apiReq EXCEPT ![a] = NoRequest]
         \/ to \notin {"upload", "insert", "push"}
            /\ \A b \in Apis \ {a} : apiReq'[b] = apiReq[b]
         \/ apiPc[a] \in {"upload", "insert", "push"} /\ apiReq' = apiReq
  PROVE  Admitted(q)' \subseteq Admitted(q)
BY DEF Admitted, TargetQueue, TypeOK, ApiTypeOK

LEMMA ApiStepAdmission ==
  ASSUME TypeOK, TypeOK', AdmissionInv, NEW a \in Apis, ApiStep(a), NEW q \in Queues
  PROVE  Len(queues'[q]) + Cardinality(Admitted(q)') < MaxQueueLength + Cardinality(Apis)
<1>t. Len(queues[q]) \in Nat
  BY LenType
<1>1. CASE Admit(a) /\ apiPc' = [apiPc EXCEPT ![a] = "upload"] /\ apiReq' = apiReq
           /\ TargetQueue(a) = q /\ Len(queues[q]) < MaxQueueLength
  <2>1. queues' = queues
    BY <1>1 DEF Admit, serviceVars
  <2>2. Admitted(q)' \subseteq Apis
    BY DEF Admitted
  <2>3. Cardinality(Admitted(q)') \in Nat /\ Cardinality(Admitted(q)') <= Cardinality(Apis)
    BY <2>2, ApiAssumption, FS_Subset, FS_CardinalityType
  <2> QED BY <1>1, <1>t, <2>1, <2>3, ApiAssumption, AdmittedCard
<1>2. CASE Admit(a) /\ apiPc' = [apiPc EXCEPT ![a] = "upload"] /\ apiReq' = apiReq
           /\ TargetQueue(a) # q
  <2>1. Admitted(q)' \subseteq Admitted(q)
    BY <1>2 DEF Admitted, TargetQueue, TypeOK, ApiTypeOK
  <2> QED BY <1>2, <1>t, <2>1, NoNewcomer DEF Admit, serviceVars
<1>3. CASE PushJob(a) /\ Push(TargetQueue(a), apiReq[a].id) /\ TargetQueue(a) = q
  <2>1. apiPc[a] = "push" /\ apiReq[a].id \in Ids /\ apiReq[a] # NoRequest
    BY <1>3, Serving, ApiNoneAssumption DEF PushJob, TypeOK
  <2>2. a \in Admitted(q)
    BY <1>3, <2>1 DEF Admitted
  <2>3. Admitted(q)' \subseteq Admitted(q) \ {a}
    BY <1>3 DEF PushJob, Respond, Goto, Admitted, TargetQueue, TypeOK, ApiTypeOK
  <2>4. /\ IsFiniteSet(Admitted(q) \ {a})
        /\ Cardinality(Admitted(q) \ {a}) = Cardinality(Admitted(q)) - 1
    BY <2>2, AdmittedCard, FS_RemoveElement
  <2>5. Cardinality(Admitted(q)') \in Nat
        /\ Cardinality(Admitted(q)') <= Cardinality(Admitted(q)) - 1
    BY <2>3, <2>4, FS_Subset, FS_CardinalityType
  <2>6. Len(queues'[q]) = Len(queues[q]) + 1
    BY <1>3, <2>1 DEF Push, TypeOK, ServicesTypeOK
  <2> QED BY <1>t, <2>5, <2>6, ApiAssumption, AdmittedCard DEF AdmissionInv
<1>4. CASE PushJob(a) /\ Push(TargetQueue(a), apiReq[a].id) /\ TargetQueue(a) # q
  <2>1. queues'[q] = queues[q]
    BY <1>4 DEF Push, TypeOK, ServicesTypeOK
  <2>2. Admitted(q)' \subseteq Admitted(q)
    BY <1>4, NoneAdmitted DEF PushJob, Respond, Goto
  <2> QED BY <1>t, <2>1, <2>2, NoNewcomer
<1>5. CASE queues' = queues /\ Admitted(q)' \subseteq Admitted(q)
  BY <1>5, <1>t, NoNewcomer
<1>6. CASE Receive(a)
  <2>1. PICK r \in Request :
          /\ apiReq' = [apiReq EXCEPT ![a] = r]
          /\ apiPc' = [apiPc EXCEPT ![a] = IF Truthy(r.key) THEN "lookup" ELSE "admit"]
    BY <1>6 DEF Receive
  <2>2. Admitted(q)' \subseteq Admitted(q)
    BY <2>1 DEF Admitted, TargetQueue, TypeOK, ApiTypeOK
  <2> QED BY <1>5, <1>6, <2>2 DEF Receive, serviceVars
<1>7. CASE Lookup(a) \/ Reread(a) \/ MarkPushFailed(a)
  <2>1. Admitted(q)' \subseteq Admitted(q)
    BY <1>7, NoneAdmitted DEF Lookup, Reread, MarkPushFailed, Goto, Fail500, AnswerFromExisting,
                              Respond
  <2> QED BY <1>5, <1>7, <2>1 DEF Lookup, Reread, MarkPushFailed, serviceVars
<1>8. CASE Upload(a) \/ Insert(a)
  <2>1. Admitted(q)' \subseteq Admitted(q)
    BY <1>8, NoneAdmitted DEF Upload, Insert, Goto, Fail500, Respond
  <2> QED BY <1>5, <1>8, <2>1 DEF Upload, Insert
<1>9. CASE Admit(a)
  <2>1. CASE Goto(a, "upload") /\ Len(queues[TargetQueue(a)]) < MaxQueueLength
    BY <1>1, <1>2, <1>9, <2>1 DEF Goto
  <2>2. CASE Respond(a, "429", NoJob) \/ Fail500(a)
    <3>1. Admitted(q)' \subseteq Admitted(q)
      BY <2>2, NoneAdmitted DEF Fail500, Respond
    <3> QED BY <1>5, <1>9, <3>1 DEF Admit, serviceVars
  <2> QED BY <1>9, <2>1, <2>2 DEF Admit
<1>10. CASE PushJob(a)
  <2>1. CASE UNCHANGED queues
    <3>1. Admitted(q)' \subseteq Admitted(q)
      BY <1>10, NoneAdmitted DEF PushJob, Respond, Goto
    <3> QED BY <1>5, <2>1, <3>1
  <2> QED BY <1>3, <1>4, <1>10, <2>1 DEF PushJob
<1>11. CASE ApiCrash(a) \/ ApiRestart(a)
  <2>1. Admitted(q)' \subseteq Admitted(q)
    BY <1>11, NoneAdmitted DEF ApiCrash, ApiRestart, Goto
  <2> QED BY <1>5, <1>11, <2>1 DEF ApiCrash, ApiRestart, serviceVars
<1> QED BY <1>6, <1>7, <1>8, <1>9, <1>10, <1>11 DEF ApiStep

\* Workers only take from the lists.
LEMMA WorkerStepAdmission ==
  ASSUME TypeOK, TypeOK', AdmissionInv, NEW w \in Workers, WorkerStep(w), UNCHANGED apiVars,
         NEW q \in Queues
  PROVE  Len(queues'[q]) + Cardinality(Admitted(q)') < MaxQueueLength + Cardinality(Apis)
<1>1. Admitted(q)' = Admitted(q)
  BY DEF apiVars, Admitted, TargetQueue
<1>2. Len(queues'[q]) <= Len(queues[q])
  <2>1. CASE UNCHANGED queues
    BY <2>1, LenType
  <2>2. CASE queues[PoolOf[w]] # << >> /\ Pop(PoolOf[w])
    BY <2>2, WorkerAssumption DEF Pop, TypeOK, ServicesTypeOK
  <2> QED
    BY <2>1, <2>2 DEF WorkerStep, TakeJob, TakeJobRaises, Load, MarkProcessing, Download, Process,
       UploadResult, MarkDone, MarkFailed, WorkerCrash, WorkerRestart, serviceVars
<1> QED BY <1>1, <1>2, NoNewcomer

\* No Redis list ever holds MAX_QUEUE_LENGTH jobs plus one per API process or
\* more, although each process checks the length several calls before it pushes
\* and whatever fails in between.
THEOREM QueueBounded == Spec => []QueueBound
<1>1. Init => AdmissionInv
  <2> SUFFICES ASSUME Init, NEW q \in Queues
               PROVE  Len(queues[q]) + Cardinality(Admitted(q)) < MaxQueueLength + Cardinality(Apis)
    BY DEF AdmissionInv
  <2>1. queues[q] = << >> /\ Admitted(q) = {}
    BY DEF Init, ServicesInit, ApiInit, Admitted
  <2>2. Len(queues[q]) = 0 /\ Cardinality(Admitted(q)) = 0
    BY <2>1, FS_EmptySet
  <2> QED BY <2>2, ApiAssumption, AdmittedCard
<1>2. TypeOK /\ TypeOK' /\ AdmissionInv /\ [Next]_vars => AdmissionInv'
  <2> SUFFICES ASSUME TypeOK, TypeOK', AdmissionInv, [Next]_vars,
                      NEW q \in Queues
               PROVE  Len(queues'[q]) + Cardinality(Admitted(q)')
                        < MaxQueueLength + Cardinality(Apis)
    BY DEF AdmissionInv
  <2>1. CASE UNCHANGED vars
    BY <2>1 DEF vars, serviceVars, apiVars, AdmissionInv, Admitted, TargetQueue
  <2> QED BY <2>1, StepCases, ApiStepAdmission, WorkerStepAdmission
<1>3. TypeOK /\ AdmissionInv => QueueBound
  <2> SUFFICES ASSUME TypeOK, AdmissionInv, NEW q \in Queues
               PROVE  Len(queues[q]) < MaxQueueLength + Cardinality(Apis)
    BY DEF QueueBound
  <2> QED BY LenType, AdmittedCard, ApiAssumption DEF AdmissionInv
<1> QED BY <1>1, <1>2, <1>3, TypeCorrect, PTL DEF Spec

=============================================================================
