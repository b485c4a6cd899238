--------------------------- MODULE LifecycleProofs ---------------------------
(***************************************************************************)
(* When no acknowledgement is lost, that is when a call that raises had no *)
(* effect, the pipeline implements JobLifecycle and a refused request      *)
(* leaves no work behind, whatever else fails.  And what the clients of    *)
(* GET /jobs/{id} and GET /jobs/{id}/result are told, with any number of   *)
(* clients, whatever jobs they follow.                                     *)
(***************************************************************************)
EXTENDS CustodyProofs, QueriedPipeline

Clean == "lost_ack" \notin Faults

\* A handler that is about to mark its job FAILED has the only copy of the id.
FailedPush ==
  \A a \in Apis, i \in Ids :
    apiPc[a] = "mark_failed" /\ apiReq[a].id = i => ~Queued(i) /\ ~Held(i)

\* The status that goes with each stage of a job.
ApiStatus ==
  \A a \in Apis : apiPc[a] \in {"push", "mark_failed"} => Status(apiReq[a].id) = "PENDING"

QueueStatus == \A i \in Ids : Queued(i) => Status(i) = "PENDING"

WorkerStatus ==
  \A w \in Workers :
    /\ wPc[w] \in {"load", "mark_processing"} => Status(wJob[w]) = "PENDING"
    /\ wPc[w] \in {"download", "process", "upload", "mark_done"} => Status(wJob[w]) = "PROCESSING"
    /\ wPc[w] = "mark_failed" => Status(wJob[w]) \in {"PENDING", "PROCESSING"}

\* A request that was answered is not served any more.
Answered ==
  \A i \in Ids :
    replies[i] # NoReply =>
      i \in received /\ \A a \in Apis : apiReq[a] # NoRequest => apiReq[a].id # i

StageInv == CustodyInv /\ FailedPush /\ ApiStatus /\ QueueStatus /\ WorkerStatus

-----------------------------------------------------------------------------
(* How a step changes statuses *)

LEMMA UpdateOne ==
  ASSUME TypeOK, NEW i \in Stored, NEW s \in Statuses, UpdateStatus(i, s)
  PROVE  /\ Status(i)' = s
         /\ \A j \in Ids : j # i => Status(j)' = Status(j)
<1>1. i \in Ids /\ jobs[i] \in Row
  BY DEF Stored, TypeOK, ServicesTypeOK
<1>2. jobs' = [jobs EXCEPT ![i] = [jobs[i] EXCEPT !.status = s]]
  BY DEF UpdateStatus
<1>3. jobs'[i] = [jobs[i] EXCEPT !.status = s] /\ jobs'[i] \in Row /\ jobs'[i].status = s
  BY <1>1, <1>2 DEF Row, TypeOK, ServicesTypeOK
<1>4. \A j \in Ids : j # i => jobs'[j] = jobs[j]
  BY <1>2 DEF TypeOK, ServicesTypeOK
<1> QED BY <1>3, <1>4, NoRowAssumption DEF Status

LEMMA InsertOne ==
  ASSUME TypeOK, Fresh, NEW a \in Apis, InsertStep(a), NEW i, i = apiReq[a].id
  PROVE  /\ i \in Ids /\ Status(i) = "none" /\ Status(i)' = "PENDING"
         /\ \A j \in Ids : j # i => Status(j)' = Status(j)
<1>1. i \in Ids /\ apiReq[a].key \in KeysSent /\ apiReq[a].payload \in Payloads
  BY Serving DEF InsertStep, TypeOK
<1>2. i \notin Stored
  BY DEF InsertStep, Fresh
<1> DEFINE row == [status |-> "PENDING", key |-> apiReq[a].key, payload |-> apiReq[a].payload]
<1>3. row \in Row /\ jobs' = [jobs EXCEPT ![i] = row]
  BY <1>1 DEF InsertStep, InsertJob, Row, Statuses
<1>4. jobs'[i] = row /\ row # NoRow /\ row.status = "PENDING"
  BY <1>1, <1>3, NoRowAssumption DEF TypeOK, ServicesTypeOK
<1>5. \A j \in Ids : j # i => jobs'[j] = jobs[j]
  BY <1>1, <1>3 DEF TypeOK, ServicesTypeOK
<1> QED BY <1>1, <1>2, <1>4, <1>5 DEF Status, Stored

\* Without lost acknowledgements a handler changes its own job's status, twice at most.
LEMMA ApiStatusStep ==
  ASSUME Clean, TypeOK, StageInv, NEW a \in Apis, ApiStep(a), NEW j \in Ids, Status(j)' # Status(j)
  PROVE  /\ j = apiReq[a].id /\ apiReq[a] # NoRequest
         /\ \/ InsertStep(a) /\ apiPc'[a] = "push" /\ Status(j) = "none" /\ Status(j)' = "PENDING"
            \/ /\ apiPc[a] = "mark_failed" /\ apiPc'[a] = "ready"
               /\ Status(j) = "PENDING" /\ Status(j)' = "FAILED"
<1>1. jobs' # jobs
  BY DEF Status
<1>2. CASE MarkPushFailed(a)
  <2>1. UpdateStatus(apiReq[a].id, "FAILED") /\ apiPc[a] = "mark_failed"
    BY <1>1, <1>2 DEF MarkPushFailed, UpdateRaises, RaisesAfterEffect, Clean
  <2>2. apiReq[a].id \in Stored /\ Status(apiReq[a].id) = "PENDING" /\ apiReq[a] # NoRequest
    BY <2>1, Serving, ApiNoneAssumption DEF StageInv, CustodyInv, Inserted, ApiStatus, TypeOK
  <2>3. apiPc'[a] = "ready"
    BY <1>2 DEF MarkPushFailed, Fail500, Respond, TypeOK, ApiTypeOK
  <2>4. PICK i : i = apiReq[a].id
    OBVIOUS
  <2>5. Status(i)' = "FAILED" /\ \A k \in Ids : k # i => Status(k)' = Status(k)
    BY <2>1, <2>2, <2>4, UpdateOne DEF Statuses
  <2> QED BY <2>1, <2>2, <2>3, <2>4, <2>5
<1>3. CASE Insert(a)
  <2>1. InsertStep(a) /\ apiPc'[a] = "push"
    BY <1>1, <1>3 DEF Insert, InsertStep, RaisesAfterEffect, Clean, Goto, TypeOK, ApiTypeOK
  <2>2. PICK i : i = apiReq[a].id
    OBVIOUS
  <2>3. apiReq[a] # NoRequest
    BY <2>1, Serving, ApiNoneAssumption DEF InsertStep, TypeOK
  <2>4. Status(i) = "none" /\ Status(i)' = "PENDING" /\ \A k \in Ids : k # i => Status(k)' = Status(k)
    BY <2>1, <2>2, InsertOne DEF StageInv, CustodyInv
  <2> QED BY <2>1, <2>2, <2>3, <2>4
<1> QED
  BY <1>1, <1>2, <1>3 DEF ApiStep, Receive, Lookup, Admit, Upload, Reread, PushJob, ApiCrash,
                          ApiRestart, serviceVars

\* A worker changes the status of the job it has, and none if its call raises.
LEMMA WorkerStatusStep ==
  ASSUME Clean, TypeOK, StageInv, NEW w \in Workers, WorkerStep(w), NEW j \in Ids,
         Status(j)' # Status(j)
  PROVE  /\ j = wJob[w]
         /\ \/ /\ wPc[w] = "mark_processing" /\ wPc'[w] = "download" /\ wJob'[w] = wJob[w]
               /\ Status(j) = "PENDING" /\ Status(j)' = "PROCESSING"
            \/ /\ wPc[w] = "mark_done" /\ wJob'[w] = NoJob /\ wPc'[w] = "idle"
               /\ Status(j) = "PROCESSING" /\ Status(j)' = "DONE"
            \/ /\ wPc[w] = "mark_failed" /\ wJob'[w] = NoJob /\ wPc'[w] = "idle"
               /\ Status(j) \in {"PENDING", "PROCESSING"} /\ Status(j)' = "FAILED"
<1>1. jobs' # jobs
  BY DEF Status
<1>2. ASSUME wJob[w] # NoJob PROVE wJob[w] \in Stored
  BY <1>2 DEF StageInv, CustodyInv, PublishedIsStored
<1>3. ASSUME wPc[w] \notin {"idle", "down"} PROVE wJob[w] # NoJob
  BY <1>3 DEF TypeOK, WorkerTypeOK
<1>h. PICK i : i = wJob[w]
  OBVIOUS
<1>4. ASSUME NEW s \in Statuses, UpdateStatus(wJob[w], s), wPc[w] \notin {"idle", "down"}
      PROVE  Status(i)' = s /\ \A k \in Ids : k # i => Status(k)' = Status(k)
  BY <1>2, <1>3, <1>4, <1>h, UpdateOne
<1>5. CASE MarkProcessing(w)
  BY <1>1, <1>4, <1>5, <1>h DEF MarkProcessing, UpdateRaises, RaisesAfterEffect, Clean, Advance,
     StageInv, WorkerStatus, Statuses, TypeOK, WorkerTypeOK
<1>6. CASE MarkDone(w)
  BY <1>1, <1>4, <1>6, <1>h DEF MarkDone, UpdateRaises, RaisesAfterEffect, Clean, Release,
     StageInv, WorkerStatus, Statuses, TypeOK, WorkerTypeOK
<1>7. CASE MarkFailed(w)
  BY <1>1, <1>4, <1>7, <1>h DEF MarkFailed, UpdateRaises, RaisesAfterEffect, Clean, Release,
     StageInv, WorkerStatus, Statuses, TypeOK, WorkerTypeOK
<1> QED
  BY <1>1, <1>5, <1>6, <1>7 DEF WorkerStep, TakeJob, TakeJobRaises, Load, Download, Process,
     UploadResult, WorkerCrash, WorkerRestart, serviceVars

-----------------------------------------------------------------------------
(* Each stage keeps its status *)

\* The job of a handler past its insert, and no worker, has the id.
LEMMA PastInsert ==
  ASSUME TypeOK, StageInv, NEW a \in Apis, apiPc[a] \in {"push", "mark_failed"}
  PROVE  /\ apiReq[a] # NoRequest /\ apiReq[a].id \in Ids
         /\ ~Queued(apiReq[a].id) /\ ~Held(apiReq[a].id)
<1>1. apiReq[a].id \in Ids /\ apiReq[a] \in Request
  BY Serving DEF TypeOK
<1> QED BY <1>1, ApiNoneAssumption DEF StageInv, FailedPush, CustodyInv, NotYetPublished

\* What the lists and the workers hold after a handler's step.
LEMMA ApiSeen ==
  ASSUME Clean, TypeOK, StageInv, NEW a \in Apis, ApiStep(a), UNCHANGED workerVars,
         NEW i \in Ids
  PROVE  /\ Held(i)' <=> Held(i)
         /\ Queued(i)' => \/ Queued(i)
                          \/ apiPc[a] = "push" /\ apiReq[a].id = i /\ apiPc'[a] \in {"ready", "down"}
<1>1. Held(i)' <=> Held(i)
  BY DEF Held, workerVars
<1>2. CASE UNCHANGED queues
  BY <1>1, <1>2 DEF Queued, InQueue
<1>3. CASE ~UNCHANGED queues
  <2>1. PushJob(a)
    BY <1>3 DEF ApiStep, Receive, Lookup, Admit, Upload, Insert, Reread, MarkPushFailed, ApiCrash,
       ApiRestart, serviceVars
  <2>2. apiPc[a] = "push" /\ apiReq[a].id \in Ids /\ TargetQueue(a) \in Queues
    BY <2>1, Serving, ServicesAssumption DEF PushJob, TargetQueue, TypeOK
  <2>3. Push(TargetQueue(a), apiReq[a].id) /\ apiPc'[a] = "ready"
    BY <1>3, <2>1 DEF PushJob, RaisesAfterEffect, Clean, Respond, Goto, TypeOK, ApiTypeOK
  <2>4. PICK r, q : r = apiReq[a].id /\ q = TargetQueue(a)
    OBVIOUS
  <2>5. \A p \in Queues : InQueue(i, p)' <=> InQueue(i, p) \/ (p = q /\ i = r)
    BY <2>2, <2>3, <2>4, PushList
  <2> QED BY <1>1, <2>2, <2>3, <2>4, <2>5 DEF Queued
<1> QED BY <1>2, <1>3

LEMMA ApiStepStage ==
  ASSUME Clean, TypeOK, StageInv, NEW a \in Apis, ApiStep(a), UNCHANGED workerVars
  PROVE  FailedPush' /\ ApiStatus' /\ QueueStatus' /\ WorkerStatus'
<1>1. FailedPush'
  <2> SUFFICES ASSUME NEW b \in Apis, NEW i \in Ids, apiPc'[b] = "mark_failed", apiReq'[b].id = i
               PROVE  ~Queued(i)' /\ ~Held(i)'
    BY DEF FailedPush
  <2>1. apiPc[b] \in {"push", "mark_failed"} /\ apiReq'[b] = apiReq[b]
    BY ApiMove, ReceiveMove
  <2>2. apiReq[b] # NoRequest /\ ~Queued(i) /\ ~Held(i)
    BY <2>1, PastInsert
  <2>3. CASE apiPc[a] = "push" /\ apiReq[a].id = i /\ apiPc'[a] \in {"ready", "down"}
    <3>1. a = b
      BY <2>1, <2>2, <2>3, PastInsert DEF StageInv, CustodyInv, Fresh
    <3> QED BY <2>3, <3>1
  <2> QED BY <2>2, <2>3, ApiSeen
<1>2. ApiStatus'
  <2> SUFFICES ASSUME NEW b \in Apis, apiPc'[b] \in {"push", "mark_failed"},
                      NEW i, i = apiReq'[b].id
               PROVE  Status(i)' = "PENDING"
    BY DEF ApiStatus, Status
  <2>1. CASE b = a /\ InsertStep(a) /\ apiReq'[a] = apiReq[a]
    BY <2>1, InsertOne DEF StageInv, CustodyInv
  <2>2. CASE apiPc[b] \in {"push", "mark_failed"} /\ apiReq'[b] = apiReq[b]
    <3>1. i \in Ids /\ Status(i) = "PENDING" /\ apiReq[b] # NoRequest /\ apiReq[b].id = i
      BY <2>2, PastInsert DEF StageInv, ApiStatus
    <3>2. SUFFICES ASSUME Status(i)' # Status(i) PROVE FALSE
      BY <3>1
    <3>3. i = apiReq[a].id /\ apiReq[a] # NoRequest /\ apiPc'[a] = "ready"
      BY <3>1, <3>2, ApiStatusStep
    <3>4. a = b
      BY <3>1, <3>3 DEF StageInv, CustodyInv, Fresh
    <3> QED BY <3>3, <3>4
  <2> QED BY <2>1, <2>2, ApiMove, ReceiveMove
<1>3. QueueStatus'
  <2> SUFFICES ASSUME NEW i \in Ids, Queued(i)' PROVE Status(i)' = "PENDING"
    BY DEF QueueStatus
  <2>1. Status(i) = "PENDING"
    BY ApiSeen DEF StageInv, QueueStatus, ApiStatus
  <2>2. SUFFICES ASSUME Status(i)' # Status(i) PROVE FALSE
    BY <2>1
  <2>3. apiPc[a] = "mark_failed" /\ i = apiReq[a].id
    BY <2>1, <2>2, ApiStatusStep
  <2> QED BY <2>3, ApiSeen, PastInsert
<1>4. WorkerStatus'
  <2>1. ASSUME NEW w \in Workers, wJob[w] # NoJob, NEW i, i = wJob[w]
        PROVE  Status(i)' = Status(i)
    <3>1. i \in Ids /\ Held(i) /\ Status(i) # "none"
      BY <2>1, NoRowAssumption DEF Held, TypeOK, ServicesTypeOK, WorkerTypeOK, StageInv, CustodyInv,
         PublishedIsStored, Stored, Status, Row, Statuses
    <3>2. SUFFICES ASSUME Status(i)' # Status(i) PROVE FALSE
      OBVIOUS
    <3>3. apiPc[a] = "mark_failed" /\ i = apiReq[a].id
      BY <3>1, <3>2, ApiStatusStep
    <3> QED BY <3>1, <3>3, PastInsert
  <2>2. wPc' = wPc /\ wJob' = wJob
    BY DEF workerVars
  <2>3. \A w \in Workers : wPc[w] \notin {"idle", "down"} => Status(wJob[w])' = Status(wJob[w])
    BY <2>1, <2>2 DEF TypeOK, WorkerTypeOK, Status
  <2> QED BY <2>2, <2>3 DEF StageInv, WorkerStatus
<1> QED BY <1>1, <1>2, <1>3, <1>4

\* How a step of a worker moves it on, apart from statuses.
LEMMA WorkerMove ==
  ASSUME Clean, TypeOK, NEW w \in Workers, WorkerStep(w), NEW h, h = Head(queues[PoolOf[w]])
  PROVE  \/ wPc'[w] \in {"idle", "down"} /\ wJob'[w] = NoJob
         \/ /\ wPc'[w] = "load" /\ wJob'[w] = h /\ UNCHANGED jobs
            /\ queues[PoolOf[w]] # << >> /\ Pop(PoolOf[w])
         \/ /\ wJob'[w] = wJob[w] /\ UNCHANGED <<jobs, queues>>
            /\ \/ wPc'[w] = wPc[w]
               \/ wPc[w] = "load" /\ wPc'[w] \in {"mark_processing", "mark_failed"}
               \/ wPc[w] = "mark_processing" /\ wPc'[w] = "mark_failed"
               \/ /\ wPc[w] \in {"download", "process", "upload", "mark_done"}
                  /\ wPc'[w] \in {"process", "upload", "mark_done", "mark_failed"}
         \/ /\ wJob'[w] = wJob[w] /\ UNCHANGED queues
            /\ wPc[w] = "mark_processing" /\ wPc'[w] = "download"
            /\ UpdateStatus(wJob[w], "PROCESSING")
<1> USE DEF TypeOK, WorkerTypeOK
<1>1. CASE TakeJob(w)
  BY <1>1 DEF TakeJob
<1>2. CASE TakeJobRaises(w) \/ WorkerCrash(w) \/ WorkerRestart(w)
  BY <1>2 DEF TakeJobRaises, WorkerCrash, WorkerRestart, Release, Advance
<1>3. CASE Load(w) \/ Process(w)
  BY <1>3 DEF Load, Process, Advance, serviceVars
<1>4. CASE Download(w) \/ UploadResult(w)
  BY <1>4 DEF Download, UploadResult, Advance, RetryOrFail, serviceVars
<1>5. CASE MarkProcessing(w)
  BY <1>5 DEF MarkProcessing, UpdateRaises, RaisesAfterEffect, Clean, Advance
<1>6. CASE MarkDone(w)
  BY <1>6 DEF MarkDone, UpdateRaises, RaisesAfterEffect, Clean, Advance, Release
<1>7. CASE MarkFailed(w)
  BY <1>7 DEF MarkFailed, Release
<1> QED BY <1>1, <1>2, <1>3, <1>4, <1>5, <1>6, <1>7 DEF WorkerStep

\* After a worker's step an id in a list was in one before, and an id that a worker
\* has was in a list or with that worker.
LEMMA WorkerSeen ==
  ASSUME TypeOK, StageInv, NEW w \in Workers, WorkerStep(w), NEW i \in Ids
  PROVE  /\ Queued(i)' => Queued(i)
         /\ Held(i)' => Held(i) \/ Queued(i)
<1>1. PICK h : h = Head(queues[PoolOf[w]])
  OBVIOUS
<1>2. PoolOf[w] \in Queues
  BY WorkerAssumption
<1>3. CASE UNCHANGED queues /\ wJob'[w] \in {wJob[w], NoJob}
  BY <1>3, WorkerLists, ServicesAssumption DEF Queued, Held, InQueue
<1>4. CASE queues[PoolOf[w]] # << >> /\ Pop(PoolOf[w]) /\ wJob'[w] \in {h, NoJob}
  <2>1. InQueue(h, PoolOf[w]) /\ \A p \in Queues : InQueue(i, p)' => InQueue(i, p)
    BY <1>1, <1>2, <1>4, PopList
  <2> QED BY <1>2, <1>4, <2>1, WorkerLists, ServicesAssumption DEF Queued, Held
<1> QED BY <1>1, <1>3, <1>4, WorkerLists

LEMMA WorkerStepStage ==
  ASSUME Clean, TypeOK, StageInv, NEW w \in Workers, WorkerStep(w), UNCHANGED apiVars
  PROVE  FailedPush' /\ ApiStatus' /\ QueueStatus' /\ WorkerStatus'
<1>0. apiPc' = apiPc /\ apiReq' = apiReq
  BY DEF apiVars
<1>s. ASSUME NEW i \in Ids, Status(i)' # Status(i) PROVE Held(i) /\ i = wJob[w] /\ ~Queued(i)
  <2>1. i = wJob[w] /\ i # NoJob
    BY <1>s, WorkerStatusStep, ServicesAssumption
  <2> QED BY <2>1 DEF Held, StageInv, CustodyInv, SingleDelivery
<1>1. FailedPush'
  BY <1>0, PastInsert, WorkerSeen DEF FailedPush
<1>2. ApiStatus'
  <2> SUFFICES ASSUME NEW a \in Apis, apiPc[a] \in {"push", "mark_failed"}, NEW i, i = apiReq[a].id
               PROVE  Status(i)' = "PENDING"
    BY <1>0 DEF ApiStatus, Status
  <2>1. i \in Ids /\ Status(i) = "PENDING" /\ ~Held(i)
    BY PastInsert DEF StageInv, ApiStatus
  <2> QED BY <1>s, <2>1
<1>3. QueueStatus'
  BY <1>s, WorkerSeen DEF QueueStatus, StageInv
<1>4. WorkerStatus'
  <2>h. PICK h : h = Head(queues[PoolOf[w]])
    OBVIOUS
  <2>1. ASSUME NEW v \in Workers, NEW j, j = wJob'[v]
        PROVE  /\ wPc'[v] \in {"load", "mark_processing"} => Status(j)' = "PENDING"
               /\ wPc'[v] \in {"download", "process", "upload", "mark_done"} => Status(j)' = "PROCESSING"
               /\ wPc'[v] = "mark_failed" => Status(j)' \in {"PENDING", "PROCESSING"}
    <3>1. CASE v # w
      <4>1. wPc'[v] = wPc[v] /\ wJob[v] = j
        BY <2>1, <3>1, WorkerLists
      <4>2. CASE wPc[v] \in {"idle", "down"}
        BY <4>1, <4>2
      <4>3. CASE wPc[v] \notin {"idle", "down"}
        <5>1. j \in Ids /\ j # wJob[w]
          BY <3>1, <4>1, <4>3, ServicesAssumption
             DEF TypeOK, WorkerTypeOK, StageInv, CustodyInv, SingleDelivery
        <5>2. Status(j)' = Status(j)
          BY <1>s, <5>1
        <5> QED BY <4>1, <5>2 DEF StageInv, WorkerStatus
      <4> QED BY <4>2, <4>3
    <3>2. CASE v = w /\ wPc'[w] \in {"idle", "down"}
      BY <3>2
    <3>3. CASE /\ v = w /\ wPc'[w] = "load" /\ wJob'[w] = h /\ UNCHANGED jobs
               /\ queues[PoolOf[w]] # << >> /\ Pop(PoolOf[w])
      <4>1. h \in Ids /\ Queued(h)
        BY <2>h, <3>3, PopList, WorkerAssumption DEF Queued
      <4>2. Status(h)' = "PENDING"
        BY <3>3, <4>1 DEF StageInv, QueueStatus, Status
      <4> QED BY <2>1, <3>3, <4>2
    <3>4. CASE /\ v = w /\ wJob'[w] = wJob[w] /\ UNCHANGED jobs
               /\ \/ wPc'[w] = wPc[w]
                  \/ wPc[w] = "load" /\ wPc'[w] \in {"mark_processing", "mark_failed"}
                  \/ wPc[w] = "mark_processing" /\ wPc'[w] = "mark_failed"
                  \/ /\ wPc[w] \in {"download", "process", "upload", "mark_done"}
                     /\ wPc'[w] \in {"process", "upload", "mark_done", "mark_failed"}
      <4>1. Status(j)' = Status(j) /\ j = wJob[w]
        BY <2>1, <3>4 DEF Status
      <4> QED BY <3>4, <4>1 DEF StageInv, WorkerStatus
    <3>5. CASE /\ v = w /\ wJob'[w] = wJob[w] /\ wPc[w] = "mark_processing" /\ wPc'[w] = "download"
               /\ UpdateStatus(wJob[w], "PROCESSING")
      <4>1. j \in Stored /\ j = wJob[w]
        BY <2>1, <3>5 DEF TypeOK, WorkerTypeOK, StageInv, CustodyInv, PublishedIsStored
      <4>2. Status(j)' = "PROCESSING"
        BY <3>5, <4>1, UpdateOne DEF Statuses
      <4> QED BY <3>5, <4>2
    <3> QED BY <2>h, <3>1, <3>2, <3>3, <3>4, <3>5, WorkerMove
  <2> QED BY <2>1 DEF WorkerStatus, Status
<1> QED BY <1>1, <1>2, <1>3, <1>4

LEMMA StageInit == Init => StageInv
<1> SUFFICES ASSUME Init PROVE StageInv
  OBVIOUS
<1>1. CustodyInv
  BY CustodyInit
<1>2. /\ \A q \in Queues : DOMAIN queues[q] = {}
      /\ \A a \in Apis : apiPc[a] = "ready"
      /\ \A w \in Workers : wPc[w] = "idle"
  BY DEF Init, ServicesInit, ApiInit, WorkerInit
<1> QED BY <1>1, <1>2 DEF StageInv, FailedPush, ApiStatus, QueueStatus, WorkerStatus, Queued, InQueue

LEMMA StageStep ==
  ASSUME Clean, TypeOK, StageInv, [Next]_vars
  PROVE  StageInv'
<1>1. CustodyInv'
  BY CustodyStep DEF StageInv
<1>2. CASE UNCHANGED vars
  BY <1>1, <1>2 DEF vars, serviceVars, apiVars, workerVars, StageInv, FailedPush, ApiStatus,
       QueueStatus, WorkerStatus, Queued, Held, InQueue, Status
<1> QED BY <1>1, <1>2, StepCases, ApiStepStage, WorkerStepStage DEF StageInv

-----------------------------------------------------------------------------
(* Refused requests *)

RefusalInv == StageInv /\ Answered /\ RefusedLeavesNoWork

\* A reply is new only for the request its handler serves, which ends with it.
LEMMA NewReply ==
  ASSUME TypeOK, NEW a \in Apis, ApiStep(a), NEW i \in Ids, replies'[i] # replies[i]
  PROVE  /\ apiReq[a] # NoRequest /\ apiReq[a].id = i /\ apiReq'[a] = NoRequest
         /\ replies'[i].code = "503" => MarkPushFailed(a) /\ UpdateStatus(i, "FAILED")
         /\ replies'[i].code \in {"409", "429"} =>
              apiPc[a] \in {"lookup", "admit", "reread"} /\ UNCHANGED <<jobs, queues>>
<1> USE DEF TypeOK, ApiTypeOK
<1>1. replies' # replies
  OBVIOUS
<1>2. apiPc[a] \notin {"ready", "down"}
  BY <1>1 DEF ApiStep, Receive, Lookup, Admit, Upload, Insert, Reread, PushJob, MarkPushFailed,
         ApiCrash, ApiRestart, Goto
<1>3. apiReq[a] \in Request /\ apiReq[a].id \in Ids /\ apiReq[a] # NoRequest
  BY <1>2, Serving, ApiNoneAssumption
<1>r. ASSUME NEW code, NEW job, Respond(a, code, job)
      PROVE  apiReq[a].id = i /\ apiReq'[a] = NoRequest /\ replies'[i].code = code
  BY <1>3, <1>r DEF Respond
<1>4. CASE Lookup(a) \/ Reread(a) \/ Admit(a)
  BY <1>1, <1>3, <1>4, <1>r DEF Lookup, Reread, Admit, AnswerFromExisting, Fail500, Goto, serviceVars
<1>5. CASE Upload(a) \/ Insert(a) \/ PushJob(a)
  BY <1>1, <1>3, <1>5, <1>r DEF Upload, Insert, PushJob, Fail500, Goto
<1>6. CASE MarkPushFailed(a)
  BY <1>1, <1>3, <1>6, <1>r DEF MarkPushFailed, Fail500
<1> QED BY <1>1, <1>4, <1>5, <1>6 DEF ApiStep, Receive, ApiCrash, ApiRestart, Goto

LEMMA AnsweredStep ==
  ASSUME TypeOK, CustodyInv, Answered, [Next]_vars
  PROVE  Answered'
<1>1. ASSUME NEW a \in Apis, ApiStep(a), NEW i \in Ids, replies'[i] # NoReply
      PROVE  i \in received' /\ \A b \in Apis : apiReq'[b] # NoRequest => apiReq'[b].id # i
  <2>1. CASE replies'[i] # replies[i]
    <3>1. apiReq[a] # NoRequest /\ apiReq[a].id = i /\ apiReq'[a] = NoRequest
      BY <1>1, <2>1, NewReply
    <3>2. received \subseteq received'
      BY <1>1, ApiMove, ReceiveMove
    <3> QED BY <1>1, <3>1, <3>2, ApiMove, ReceiveMove DEF CustodyInv, Fresh
  <2>2. CASE replies'[i] = replies[i]
    <3>1. i \in received /\ \A b \in Apis : apiReq[b] # NoRequest => apiReq[b].id # i
      BY <1>1, <2>2 DEF Answered
    <3> QED BY <1>1, <3>1, ApiMove, ReceiveMove
  <2> QED BY <2>1, <2>2
<1>2. CASE UNCHANGED apiVars
  BY <1>2 DEF apiVars, Answered
<1> QED BY <1>1, <1>2, StepCases DEF Answered, vars

\* A job that is not stored, or FAILED, and that nobody has, stays so.
LEMMA GoneStaysGone ==
  ASSUME Clean, TypeOK, StageInv, [Next]_vars, NEW i \in Ids,
         \A a \in Apis : apiReq[a] # NoRequest => apiReq[a].id # i,
         Status(i) \in {"none", "FAILED"}, ~Queued(i), ~Held(i)
  PROVE  Status(i)' = Status(i) /\ ~Queued(i)' /\ ~Held(i)'
<1>1. ASSUME NEW a \in Apis, ApiStep(a), UNCHANGED workerVars
      PROVE  Status(i)' = Status(i) /\ ~Queued(i)' /\ ~Held(i)'
  <2>1. Status(i)' = Status(i)
    BY <1>1, ApiStatusStep
  <2> QED BY <1>1, <2>1, ApiSeen, PastInsert
<1>2. ASSUME NEW w \in Workers, WorkerStep(w), UNCHANGED apiVars
      PROVE  Status(i)' = Status(i) /\ ~Queued(i)' /\ ~Held(i)'
  BY <1>2, WorkerStatusStep, WorkerSeen
<1>3. CASE UNCHANGED vars
  BY <1>3 DEF vars, serviceVars, workerVars, Status, Queued, InQueue, Held
<1> QED BY <1>1, <1>2, <1>3, StepCases

\* The refusal of a request, put as a fact about its status.
Refused(i) == replies[i] # NoReply /\ replies[i].code \in {"409", "429", "503"}

LEMMA RefusedMeans ==
  ASSUME TypeOK
  PROVE  RefusedLeavesNoWork <=>
    \A i \in Ids : Refused(i) => Status(i) \in {"none", "FAILED"} /\ ~Queued(i) /\ ~Held(i)
BY DEF RefusedLeavesNoWork, Refused, Status, Stored, TypeOK, ServicesTypeOK, Row, Statuses

LEMMA RefusalStep ==
  ASSUME Clean, TypeOK, RefusalInv, [Next]_vars
  PROVE  RefusedLeavesNoWork'
<1> SUFFICES ASSUME NEW i \in Ids, Refused(i)'
             PROVE  (Status(i) \in {"none", "FAILED"} /\ ~Queued(i) /\ ~Held(i))'
  BY StepType DEF RefusedLeavesNoWork, Refused, Status, Stored, TypeOK, ServicesTypeOK, Row,
                  Statuses
<1>1. CASE replies'[i] = replies[i]
  <2>1. Refused(i)
    BY <1>1 DEF Refused
  <2>2. \A a \in Apis : apiReq[a] # NoRequest => apiReq[a].id # i
    BY <2>1 DEF RefusalInv, Answered, Refused
  <2>3. Status(i) \in {"none", "FAILED"} /\ ~Queued(i) /\ ~Held(i)
    BY <2>1, RefusedMeans DEF RefusalInv
  <2> QED BY <2>2, <2>3, GoneStaysGone DEF RefusalInv
<1>2. ASSUME NEW a \in Apis, ApiStep(a), UNCHANGED workerVars, replies'[i] # replies[i]
      PROVE  (Status(i) \in {"none", "FAILED"} /\ ~Queued(i) /\ ~Held(i))'
  <2>1. apiReq[a] # NoRequest /\ apiReq[a].id = i
    BY <1>2, NewReply
  <2>2. CASE MarkPushFailed(a) /\ UpdateStatus(i, "FAILED")
    <3>1. i \in Stored /\ ~Queued(i) /\ ~Held(i)
      BY <2>1, <2>2, PastInsert DEF MarkPushFailed, RefusalInv, StageInv, CustodyInv, Inserted
    <3>2. Status(i)' = "FAILED"
      BY <2>2, <3>1, UpdateOne DEF Statuses
    <3>3. queues' = queues /\ wJob' = wJob
      BY <1>2, <2>2 DEF MarkPushFailed, workerVars
    <3> QED BY <3>1, <3>2, <3>3 DEF Queued, Held, InQueue
  <2>3. CASE apiPc[a] \in {"lookup", "admit", "reread"} /\ UNCHANGED <<jobs, queues>>
    <3>1. i \notin Stored
      BY <2>1, <2>3 DEF RefusalInv, StageInv, CustodyInv, Fresh
    <3>2. ~Queued(i) /\ ~Held(i) /\ Status(i) = "none"
      BY <3>1, UnstoredIsUnseen DEF RefusalInv, StageInv, CustodyInv, Stored, Status
    <3>3. jobs' = jobs /\ queues' = queues /\ wJob' = wJob
      BY <1>2, <2>3 DEF workerVars
    <3> QED BY <3>2, <3>3 DEF Queued, Held, InQueue, Status
  <2> QED BY <1>2, <2>2, <2>3, NewReply DEF Refused
<1>3. CASE UNCHANGED apiVars \/ UNCHANGED vars
  BY <1>1, <1>3 DEF apiVars, vars
<1> QED BY <1>1, <1>2, <1>3, StepCases

LEMMA RefusalInit == Init => RefusalInv
BY StageInit DEF Init, ApiInit, RefusalInv, Answered, RefusedLeavesNoWork

\* A request answered 409, 429 or 503 leaves nothing to be done: no row that is not
\* FAILED, no entry in a list, no worker at it, unless a call could raise after it
\* took effect.
THEOREM RefusedLeavesNoWorkAlways == Clean => (Spec => []RefusedLeavesNoWork)
<1> SUFFICES ASSUME Clean PROVE Spec => []RefusedLeavesNoWork
  OBVIOUS
<1>1. TypeOK /\ RefusalInv /\ [Next]_vars => RefusalInv'
  BY StageStep, AnsweredStep, RefusalStep DEF RefusalInv, StageInv
<1>2. RefusalInv => RefusedLeavesNoWork
  BY DEF RefusalInv
<1> QED BY <1>1, <1>2, RefusalInit, TypeCorrect, PTL DEF Spec

-----------------------------------------------------------------------------
(* The refinement *)

\* A step that moves the status of one job as JobLifecycle lets it is a step of it.
LEMMA OneMove ==
  ASSUME NEW i \in Ids,
         \A j \in Ids : j # i => Status(j)' = Status(j),
         \/ Status(i) = "none" /\ Status(i)' = "PENDING"
         \/ Status(i) = "PENDING" /\ Status(i)' = "PROCESSING"
         \/ Status(i) = "PROCESSING" /\ Status(i)' = "DONE"
         \/ Status(i) \in {"PENDING", "PROCESSING"} /\ Status(i)' = "FAILED"
  PROVE  Lifecycle!Next
<1> DEFINE st == [j \in Ids |-> Status(j)]
<1>1. ASSUME NEW s, Status(i)' = s PROVE st' = [st EXCEPT ![i] = s]
  BY <1>1
<1>2. CASE Status(i) = "none" /\ Status(i)' = "PENDING"
  BY <1>1, <1>2 DEF Lifecycle!Next, Lifecycle!Create, Lifecycle!Move
<1>3. CASE Status(i) = "PENDING" /\ Status(i)' = "PROCESSING"
  BY <1>1, <1>3 DEF Lifecycle!Next, Lifecycle!Start, Lifecycle!Move
<1>4. CASE Status(i) = "PROCESSING" /\ Status(i)' = "DONE"
  BY <1>1, <1>4 DEF Lifecycle!Next, Lifecycle!Finish, Lifecycle!Move
<1>5. CASE Status(i) \in {"PENDING", "PROCESSING"} /\ Status(i)' = "FAILED"
  BY <1>1, <1>5 DEF Lifecycle!Next, Lifecycle!Fail, Lifecycle!Move, Lifecycle!Unfinished
<1> QED BY <1>2, <1>3, <1>4, <1>5

LEMMA LifecycleStep ==
  ASSUME Clean, TypeOK, StageInv, [Next]_vars
  PROVE  [Lifecycle!Next]_([i \in Ids |-> Status(i)])
<1>1. CASE \A i \in Ids : Status(i)' = Status(i)
  BY <1>1
<1>2. ASSUME NEW i \in Ids, Status(i)' # Status(i)
      PROVE  Lifecycle!Next
  <2>1. ASSUME NEW a \in Apis, ApiStep(a) PROVE Lifecycle!Next
    <3>1. \A j \in Ids : j # i => Status(j)' = Status(j)
      BY <1>2, <2>1, ApiStatusStep
    <3> QED BY <1>2, <2>1, <3>1, ApiStatusStep, OneMove
  <2>2. ASSUME NEW w \in Workers, WorkerStep(w) PROVE Lifecycle!Next
    <3>1. \A j \in Ids : j # i => Status(j)' = Status(j)
      BY <1>2, <2>2, WorkerStatusStep
    <3> QED BY <1>2, <2>2, <3>1, WorkerStatusStep, OneMove
  <2>3. ~UNCHANGED vars
    BY <1>2 DEF vars, serviceVars, Status
  <2> QED BY <2>1, <2>2, <2>3, StepCases
<1> QED BY <1>1, <1>2

\* Whatever calls fail and whatever processes die, and with any number of them, the
\* pipeline implements JobLifecycle as long as a call that raises had no effect: the
\* status of a job only moves forward, and DONE and FAILED are final.
THEOREM ImplementsLifecycle == Clean => (Spec => LifecycleSpec)
<1> SUFFICES ASSUME Clean PROVE Spec => LifecycleSpec
  OBVIOUS
<1>1. Init => Lifecycle!Init
  BY DEF Init, ServicesInit, Lifecycle!Init, Status
<1>2. TypeOK /\ StageInv /\ [Next]_vars => StageInv'
  BY StageStep
<1>3. TypeOK /\ StageInv /\ [Next]_vars => [Lifecycle!Next]_([i \in Ids |-> Status(i)])
  BY LifecycleStep
<1> QED
  BY <1>1, <1>2, <1>3, StageInit, TypeCorrect, PTL DEF Spec, LifecycleSpec, Lifecycle!Spec

-----------------------------------------------------------------------------
(* No job is stranded *)

\* No process dies, PostgreSQL answers, and a call that raises had no effect.
Dependable == Faults \subseteq {"redis", "storage"}

Unfinished(i) == Status(i) \in {"PENDING", "PROCESSING"}

\* Job i is in hands that will carry it on.
Carried(i) ==
  \/ Queued(i) \/ Held(i)
  \/ \E a \in Apis : Serves(a, i) /\ apiPc[a] \in {"push", "mark_failed"}

LEMMA StrandedMeans ==
  ASSUME TypeOK
  PROVE  NoJobIsStranded <=> \A i \in Ids : Unfinished(i) => Carried(i)
BY DEF NoJobIsStranded, Unfinished, Carried, Status, Stored

\* BRPOP takes the head of its list and leaves the rest.
LEMMA PopKeeps ==
  ASSUME TypeOK, NEW q \in Queues, queues[q] # << >>, Pop(q), NEW h, h = Head(queues[q]),
         NEW i \in Ids, Queued(i)
  PROVE  i = h \/ Queued(i)'
<1> DEFINE s == queues[q]
<1>1. /\ Len(s) \in Nat \ {0} /\ DOMAIN s = 1..Len(s) /\ h = s[1]
      /\ queues'[q] = Tail(s) /\ \A p \in Queues \ {q} : queues'[p] = queues[p]
  BY DEF Pop, TypeOK, ServicesTypeOK
<1>2. /\ DOMAIN queues'[q] = 1..(Len(s) - 1)
      /\ \A n \in 1..(Len(s) - 1) : queues'[q][n] = s[n + 1]
  BY <1>1 DEF TypeOK, ServicesTypeOK
<1>3. PICK p \in Queues : InQueue(i, p)
  BY DEF Queued
<1>4. CASE p = q
  <2>1. PICK n \in 1..Len(s) : s[n] = i
    BY <1>1, <1>3, <1>4 DEF InQueue
  <2>2. CASE n = 1
    BY <1>1, <2>1, <2>2
  <2>3. CASE n # 1
    <3>1. n - 1 \in 1..(Len(s) - 1) /\ (n - 1) + 1 = n
      BY <1>1, <2>3
    <3>2. queues'[q][n - 1] = i
      BY <1>2, <2>1, <3>1
    <3> QED BY <1>2, <3>1, <3>2 DEF Queued, InQueue
  <2> QED BY <2>2, <2>3
<1>5. CASE p # q
  BY <1>1, <1>3, <1>5 DEF Queued, InQueue
<1> QED BY <1>4, <1>5

LEMMA ApiKeepsCarried ==
  ASSUME Dependable, TypeOK, StageInv, NEW a \in Apis, ApiStep(a), UNCHANGED workerVars,
         NEW i \in Ids, Unfinished(i) => Carried(i), Unfinished(i)'
  PROVE  Carried(i)'
<1>c. Clean
  BY DEF Dependable, Clean
<1>1. CASE Status(i)' # Status(i)
  <2>1. i = apiReq[a].id /\ apiReq[a] # NoRequest /\ InsertStep(a) /\ apiPc'[a] = "push"
    BY <1>1, <1>c, ApiStatusStep DEF Unfinished
  <2>2. apiReq'[a] = apiReq[a]
    BY <2>1, ApiMove, ReceiveMove DEF InsertStep, Receive
  <2> QED BY <2>1, <2>2 DEF Carried, Serves
<1>2. CASE Queued(i)
  <2>1. CASE UNCHANGED queues
    BY <1>2, <2>1 DEF Carried, Queued, InQueue
  <2>2. CASE apiPc[a] = "push" /\ Push(TargetQueue(a), apiReq[a].id)
    <3>1. apiReq[a].id \in Ids /\ TargetQueue(a) \in Queues
      BY <2>2, Serving, ServicesAssumption DEF TargetQueue, TypeOK
    <3> QED BY <1>2, <2>2, <3>1, PushList DEF Carried, Queued
  <2> QED BY <2>1, <2>2, ApiLists
<1>3. CASE Held(i)
  BY <1>3 DEF Carried, Held, workerVars
<1>4. ASSUME Status(i)' = Status(i),
             NEW b \in Apis, Serves(b, i), apiPc[b] \in {"push", "mark_failed"}
      PROVE  Carried(i)'
  <2>1. CASE b # a
    BY <1>4, <2>1, ApiMove DEF Carried, Serves
  <2>2. CASE b = a /\ apiPc[a] = "push"
    <3>1. PushJob(a)
      BY <2>2 DEF ApiStep, Receive, Lookup, Admit, Upload, Insert, Reread, MarkPushFailed,
                  ApiCrash, ApiRestart, Dependable
    <3>2. CASE Push(TargetQueue(a), apiReq[a].id)
      <4>1. apiReq[a].id = i /\ TargetQueue(a) \in Queues
        BY <1>4, <2>2, Serving, ServicesAssumption DEF Serves, TargetQueue, TypeOK
      <4> QED BY <3>2, <4>1, PushList DEF Carried, Queued
    <3>3. CASE Goto(a, "mark_failed")
      BY <1>4, <2>2, <3>3 DEF Goto, Carried, Serves, TypeOK, ApiTypeOK
    <3> QED BY <3>1, <3>2, <3>3 DEF PushJob
  <2>3. CASE b = a /\ apiPc[a] = "mark_failed"
    <3>1. MarkPushFailed(a)
      BY <2>3 DEF ApiStep, Receive, Lookup, Admit, Upload, Insert, Reread, PushJob, ApiCrash,
                  ApiRestart, Dependable
    <3>2. UpdateStatus(i, "FAILED") /\ i \in Stored
      BY <1>4, <2>3, <3>1 DEF MarkPushFailed, UpdateRaises, Raises, RaisesAfterEffect, Dependable,
                              Serves, StageInv, CustodyInv, Inserted
    <3>3. Status(i)' = "FAILED"
      BY <3>2, UpdateOne DEF Statuses
    <3> QED BY <3>3 DEF Unfinished
  <2> QED BY <1>4, <2>1, <2>2, <2>3
<1> QED BY <1>1, <1>2, <1>3, <1>4 DEF Carried, Unfinished

LEMMA WorkerKeepsCarried ==
  ASSUME Dependable, TypeOK, StageInv, NEW w \in Workers, WorkerStep(w), UNCHANGED apiVars,
         NEW i \in Ids, Unfinished(i) => Carried(i), Unfinished(i)'
  PROVE  Carried(i)'
<1>c. Clean
  BY DEF Dependable, Clean
<1>1. Carried(i)
  BY <1>c, WorkerStatusStep DEF Unfinished
<1>2. CASE Queued(i)
  <2>1. CASE UNCHANGED queues
    BY <1>2, <2>1 DEF Carried, Queued, InQueue
  <2>2. CASE ~UNCHANGED queues
    <3>1. TakeJob(w)
      BY <2>2 DEF WorkerStep, TakeJobRaises, RaisesAfterEffect, Dependable, Load, MarkProcessing,
         Download, Process, UploadResult, MarkDone, MarkFailed, WorkerCrash, WorkerRestart,
         serviceVars
    <3>2. PICK h : h = Head(queues[PoolOf[w]])
      OBVIOUS
    <3>3. i = h \/ Queued(i)'
      BY <1>2, <3>1, <3>2, PopKeeps, WorkerAssumption DEF TakeJob
    <3>4. wJob'[w] = h
      BY <3>1, <3>2 DEF TakeJob, TypeOK, WorkerTypeOK
    <3> QED BY <3>3, <3>4 DEF Carried, Held
  <2> QED BY <2>1, <2>2
<1>3. ASSUME NEW v \in Workers, wJob[v] = i
      PROVE  Carried(i)'
  <2>1. CASE wJob'[v] = i
    BY <2>1 DEF Carried, Held
  <2>2. CASE wJob'[v] # i
    <3>1. v = w
      BY <1>3, <2>2, WorkerLists
    <3>2. i \in Stored /\ wPc[w] \notin {"idle", "down"}
      BY <1>3, <3>1, ServicesAssumption DEF StageInv, CustodyInv, PublishedIsStored, TypeOK, WorkerTypeOK
    <3>3. MarkDone(w) \/ MarkFailed(w)
      BY <1>3, <2>2, <3>1, <3>2 DEF WorkerStep, TakeJob, TakeJobRaises, Load, MarkProcessing,
         Download, Process, UploadResult, WorkerCrash, WorkerRestart, Advance, RetryOrFail, Dependable
    <3>4. UpdateStatus(i, "DONE") \/ UpdateStatus(i, "FAILED")
      BY <1>3, <2>2, <3>1, <3>3 DEF MarkDone, MarkFailed, UpdateRaises, Raises, RaisesAfterEffect,
                                    Dependable
    <3>5. Status(i)' \in {"DONE", "FAILED"}
      BY <3>2, <3>4, UpdateOne DEF Statuses
    <3> QED BY <3>5 DEF Unfinished
  <2> QED BY <2>1, <2>2
<1>4. CASE \E a \in Apis : Serves(a, i) /\ apiPc[a] \in {"push", "mark_failed"}
  BY <1>4 DEF Carried, Serves, apiVars
<1> QED BY <1>1, <1>2, <1>3, <1>4 DEF Carried, Held

LEMMA CarriedStep ==
  ASSUME Dependable, TypeOK, StageInv, NoJobIsStranded, [Next]_vars
  PROVE  NoJobIsStranded'
<1>1. \A i \in Ids : Unfinished(i) => Carried(i)
  BY StrandedMeans
<1> SUFFICES ASSUME NEW i \in Ids, Unfinished(i)' PROVE Carried(i)'
  BY DEF NoJobIsStranded, Unfinished, Carried, Status, Stored
<1>2. CASE UNCHANGED vars
  BY <1>1, <1>2 DEF vars, serviceVars, apiVars, workerVars, Unfinished, Carried, Status, Queued,
                    InQueue, Held, Serves
<1> QED BY <1>1, <1>2, StepCases, ApiKeepsCarried, WorkerKeepsCarried

\* However many processes there are, and whichever calls on Redis and MinIO fail: a
\* job that is PENDING or PROCESSING is in a list, with a worker, or with the handler
\* that has yet to push it or to fail it.
THEOREM NoJobIsStrandedAlways == Dependable => (Spec => []NoJobIsStranded)
<1> SUFFICES ASSUME Dependable PROVE Spec => []NoJobIsStranded
  OBVIOUS
<1>1. Clean
  BY DEF Dependable, Clean
<1>2. Init => StageInv /\ NoJobIsStranded
  BY StageInit DEF Init, ServicesInit, NoJobIsStranded, Stored
<1>3. TypeOK /\ StageInv /\ NoJobIsStranded /\ [Next]_vars => (StageInv /\ NoJobIsStranded)'
  BY <1>1, StageStep, CarriedStep
<1> QED BY <1>2, <1>3, TypeCorrect, PTL DEF Spec

-----------------------------------------------------------------------------
(* The clients of the query API *)

Ask(c) == GetJob(c) \/ GetResult(c) \/ DownloadResult(c)

\* A poll changes nothing but what its client knows.
LEMMA QueriedCases ==
  ASSUME [QueriedNext]_queriedVars
  PROVE  \/ [Next]_vars /\ UNCHANGED queryVars
         \/ \E c \in Clients : Ask(c) /\ UNCHANGED vars
<1>1. CASE QueryNext /\ UNCHANGED <<apiVars, workerVars>>
  <2>1. PICK c \in Clients : Ask(c)
    BY <1>1 DEF QueryNext, Ask
  <2>2. UNCHANGED serviceVars
    BY <2>1 DEF Ask, GetJob, GetResult, DownloadResult, serviceVars
  <2> QED BY <1>1, <2>1, <2>2 DEF vars
<1> QED BY <1>1 DEF QueriedNext, queriedVars

\* The pipeline does not notice who polls it.
LEMMA QueriedIsPipeline == QueriedSpec => Spec
<1>1. QueriedInit => Init
  BY DEF QueriedInit
<1>2. [QueriedNext]_queriedVars => [Next]_vars
  BY QueriedCases
<1> QED BY <1>1, <1>2, PTL DEF QueriedSpec, Spec

\* What a request of client c that ends, or goes on to the storage, has read.
LEMMA AskMove ==
  ASSUME TypeOK, QueryTypeOK, NEW c \in Clients, Ask(c)
  PROVE  /\ \A d \in Clients \ {c} : told'[d] = told[d] /\ (d \in reading' <=> d \in reading)
         /\ \/ told'[c] = RowRead(c) /\ reading' = reading
            \/ told'[c] = told[c] /\ c \in reading' /\ RowRead(c) = "DONE"
            \/ told'[c] = told[c] /\ c \notin reading'
            \/ told'[c] = "image" /\ c \in reading /\ c \notin reading'
BY DEF Ask, GetJob, GetResult, DownloadResult, Tell, QueryTypeOK

LEMMA RowReadIs ==
  ASSUME TypeOK, NEW c \in Clients
  PROVE  /\ Follows[c] \in Ids
         /\ RowRead(c) = IF Follows[c] \in Stored THEN Status(Follows[c]) ELSE "404"
         /\ Follows[c] \in Stored => Status(Follows[c]) \in Statuses
         /\ Follows[c] \notin Stored => Status(Follows[c]) = "none"
BY QueryAssumption DEF RowRead, Status, Stored, TypeOK, ServicesTypeOK, Row

\* The clients' state keeps its type: what they are told is an answer of the API.
THEOREM QueriedTypeCorrect == QueriedSpec => []QueriedTypeOK
<1>1. QueriedInit => QueryTypeOK
  BY DEF QueriedInit, QueryInit, QueryTypeOK, Answers
<1>2. TypeOK /\ QueryTypeOK /\ [QueriedNext]_queriedVars => QueryTypeOK'
  <2> SUFFICES ASSUME TypeOK, QueryTypeOK, [QueriedNext]_queriedVars PROVE QueryTypeOK'
    OBVIOUS
  <2>1. CASE UNCHANGED queryVars
    BY <2>1 DEF queryVars, QueryTypeOK
  <2>2. ASSUME NEW c \in Clients, Ask(c) PROVE QueryTypeOK'
    <3>1. RowRead(c) \in Answers /\ "image" \in Answers
      BY RowReadIs DEF Answers
    <3> QED BY <2>2, <3>1 DEF Ask, GetJob, GetResult, DownloadResult, Tell, QueryTypeOK
  <2> QED BY <2>1, <2>2, QueriedCases
<1> QED BY <1>1, <1>2, QueriedIsPipeline, TypeCorrect, PTL DEF QueriedSpec, QueriedTypeOK

-----------------------------------------------------------------------------
(* The result of a DONE job *)

\* Nothing removes an object.
LEMMA OutputsStay ==
  ASSUME [Next]_vars
  PROVE  outputs \subseteq outputs'
<1>1. ASSUME NEW a \in Apis, ApiStep(a) PROVE outputs \subseteq outputs'
  BY <1>1 DEF ApiStep, Receive, Lookup, Admit, Upload, Insert, Reread, PushJob, MarkPushFailed,
              ApiCrash, ApiRestart, serviceVars
<1>2. ASSUME NEW w \in Workers, WorkerStep(w) PROVE outputs \subseteq outputs'
  BY <1>2 DEF WorkerStep, TakeJob, TakeJobRaises, Load, MarkProcessing, Download, Process,
              UploadResult, UploadOutput, MarkDone, MarkFailed, WorkerCrash, WorkerRestart, serviceVars
<1> QED BY <1>1, <1>2, StepCases DEF vars, serviceVars

\* Whatever fails and however many clients poll: between the row that says DONE and
\* the download, the object is there.
THEOREM ResultIsThereAlways == QueriedSpec => []ResultIsThere
<1>1. QueriedInit => ResultIsThere
  BY DEF QueriedInit, QueryInit, ResultIsThere
<1>2. TypeOK /\ QueryTypeOK /\ DoneHasResult /\ ResultIsThere /\ [QueriedNext]_queriedVars
        => ResultIsThere'
  <2> SUFFICES ASSUME TypeOK, QueryTypeOK, DoneHasResult, ResultIsThere,
                      [QueriedNext]_queriedVars, NEW c \in reading'
               PROVE  Follows[c] \in outputs'
    BY DEF ResultIsThere
  <2>1. CASE [Next]_vars /\ UNCHANGED queryVars
    BY <2>1, OutputsStay DEF queryVars, ResultIsThere
  <2>2. ASSUME NEW d \in Clients, Ask(d), UNCHANGED vars
        PROVE  Follows[c] \in outputs'
    <3>1. outputs' = outputs
      BY <2>2 DEF vars, serviceVars
    <3>2. c \in reading \/ (c = d /\ RowRead(d) = "DONE")
      BY <2>2 DEF Ask, GetJob, GetResult, DownloadResult
    <3>3. RowRead(d) = "DONE" => Follows[d] \in outputs
      BY DEF RowRead, DoneHasResult
    <3> QED BY <3>1, <3>2, <3>3 DEF ResultIsThere
  <2> QED BY <2>1, <2>2, QueriedCases
<1> QED
  BY <1>1, <1>2, QueriedIsPipeline, QueriedTypeCorrect, DoneHasResultAlways, PTL
     DEF QueriedSpec, QueriedTypeOK

-----------------------------------------------------------------------------
(* The answers *)

\* Whatever fails: a client that was given a job id is never told that there is no
\* such job.
THEOREM GivenIsFoundAlways == QueriedSpec => GivenIsFound
<1> DEFINE Found(c) == WasGiven(c) /\ told'[c] = "404" => told[c] = "404"
<1>1. TypeOK /\ QueryTypeOK /\ IdempotencyInv /\ [QueriedNext]_queriedVars
        => [\A c \in Clients : Found(c)]_queriedVars
  <2> SUFFICES ASSUME TypeOK, QueryTypeOK, IdempotencyInv, [QueriedNext]_queriedVars,
                      NEW c \in Clients, WasGiven(c), told'[c] = "404"
               PROVE  told[c] = "404"
    OBVIOUS
  <2>1. Follows[c] \in Stored
    BY DEF WasGiven, IdempotencyInv, ToldTheJob
  <2>2. RowRead(c) # "404"
    BY <2>1, RowReadIs DEF Statuses
  <2>3. told'[c] = told[c]
    BY <2>2, QueriedCases, AskMove DEF queryVars
  <2> QED BY <2>3
<1> QED
  BY <1>1, QueriedIsPipeline, QueriedTypeCorrect, IdempotencyInvariant, PTL
     DEF QueriedSpec, QueriedTypeOK, GivenIsFound

\* The statuses a job can have once a client was told so of it.
Since(answer) ==
  CASE answer = "PENDING" -> Statuses
    [] answer = "PROCESSING" -> Statuses \ {"PENDING"}
    [] answer \in {"DONE", "image"} -> {"DONE"}
    [] answer = "FAILED" -> {"FAILED"}
    [] OTHER -> Statuses \union {"none"}

ToldInv ==
  \A c \in Clients :
    /\ Status(Follows[c]) \in Since(told[c])
    /\ c \in reading => Status(Follows[c]) = "DONE"

\* The status of a job moves forward.
LEMMA StatusForward ==
  ASSUME Clean, TypeOK, StageInv, [Next]_vars, NEW i \in Ids
  PROVE  \/ Status(i)' = Status(i)
         \/ Status(i) = "none" /\ Status(i)' = "PENDING"
         \/ Status(i) = "PENDING" /\ Status(i)' \in {"PROCESSING", "FAILED"}
         \/ Status(i) = "PROCESSING" /\ Status(i)' \in {"DONE", "FAILED"}
<1>1. CASE UNCHANGED vars
  BY <1>1 DEF vars, serviceVars, Status
<1> QED BY <1>1, StepCases, ApiStatusStep, WorkerStatusStep

LEMMA ToldInvStep ==
  ASSUME Clean, TypeOK, QueryTypeOK, StageInv, ToldInv, [QueriedNext]_queriedVars
  PROVE  ToldInv'
<1> SUFFICES ASSUME NEW c \in Clients, NEW f, f = Follows[c]
             PROVE  Status(f)' \in Since(told'[c]) /\ (c \in reading' => Status(f)' = "DONE")
  BY DEF ToldInv, Since, Status
<1>0. f \in Ids /\ Status(f) \in Since(told[c]) /\ (c \in reading => Status(f) = "DONE")
  BY RowReadIs DEF ToldInv
<1>1. CASE [Next]_vars /\ UNCHANGED queryVars
  BY <1>0, <1>1, StatusForward DEF queryVars, Since, Statuses
<1>2. ASSUME NEW d \in Clients, Ask(d), UNCHANGED vars
      PROVE  Status(f)' \in Since(told'[c]) /\ (c \in reading' => Status(f)' = "DONE")
  <2>1. Status(f)' = Status(f)
    BY <1>2 DEF vars, serviceVars, Status
  <2>2. CASE c # d
    BY <1>0, <1>2, <2>1, <2>2, AskMove
  <2>3. CASE c = d
    <3>1. RowRead(c) = IF f \in Stored THEN Status(f) ELSE "404"
      BY RowReadIs
    <3>2. /\ f \in Stored => Status(f) \in Statuses
          /\ f \notin Stored => Status(f) = "none"
      BY RowReadIs
    <3>3. Status(f) \in Since(RowRead(c))
      BY <3>1, <3>2 DEF Since, Statuses
    <3>4. RowRead(c) = "DONE" => Status(f) = "DONE"
      BY <3>1
    <3>5. Since("image") = {"DONE"}
      BY DEF Since
    <3> QED BY <1>0, <1>2, <2>1, <2>3, <3>3, <3>4, <3>5, AskMove
  <2> QED BY <2>2, <2>3
<1> QED BY <1>1, <1>2, QueriedCases

\* As long as a call that raises had no effect: what a client learns of its job from
\* either endpoint only moves forward, however many polls, handlers and workers run.
THEOREM AnswersMoveForwardAlways == Clean => (QueriedSpec => AnswersMoveForward)
<1> SUFFICES ASSUME Clean PROVE QueriedSpec => AnswersMoveForward
  OBVIOUS
<1> DEFINE Forward(c) == told[c] # "404" => told'[c] \in Later[told[c]]
<1>1. QueriedInit => StageInv /\ ToldInv
  <2>1. QueriedInit => ToldInv
    BY QueryAssumption DEF QueriedInit, Init, ServicesInit, QueryInit, ToldInv, Since, Status
  <2> QED BY <2>1, StageInit DEF QueriedInit
<1>2. TypeOK /\ QueryTypeOK /\ StageInv /\ ToldInv /\ [QueriedNext]_queriedVars
        => (StageInv /\ ToldInv)'
  BY StageStep, ToldInvStep, QueriedCases DEF vars
<1>3. TypeOK /\ QueryTypeOK /\ ToldInv /\ [QueriedNext]_queriedVars
        => [\A c \in Clients : Forward(c)]_queriedVars
  <2> SUFFICES ASSUME TypeOK, QueryTypeOK, ToldInv, [QueriedNext]_queriedVars,
                      NEW c \in Clients, told[c] # "404"
               PROVE  told'[c] \in Later[told[c]]
    OBVIOUS
  <2>1. told[c] \in Answers /\ Status(Follows[c]) \in Since(told[c])
        /\ (c \in reading => Status(Follows[c]) = "DONE")
    BY DEF QueryTypeOK, ToldInv
  <2>2. \/ told'[c] = told[c]
        \/ told'[c] = RowRead(c)
        \/ told'[c] = "image" /\ c \in reading
    BY QueriedCases, AskMove DEF queryVars
  <2>3. told[c] \in Later[told[c]]
    BY <2>1 DEF Later, Answers, Statuses
  <2>4. RowRead(c) \in Later[told[c]]
    BY <2>1, RowReadIs DEF Later, Since, Answers, Statuses
  <2>5. c \in reading => "image" \in Later[told[c]]
    BY <2>1 DEF Later, Since, Answers, Statuses
  <2> QED BY <2>2, <2>3, <2>4, <2>5
<1> QED
  BY <1>1, <1>2, <1>3, QueriedIsPipeline, QueriedTypeCorrect, TypeCorrect, PTL
     DEF QueriedSpec, QueriedTypeOK, AnswersMoveForward
=============================================================================
