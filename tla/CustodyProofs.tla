---------------------------- MODULE CustodyProofs ----------------------------
(***************************************************************************)
(* What clients are told about one Idempotency-Key, however their requests *)
(* race and whatever fails (IdempotencyContract), and where a job id is on *)
(* its way from the handler that drew it to the worker that carries it out *)
(* (PublishedIsStored and SingleDelivery).                                 *)
(***************************************************************************)
EXTENDS ImagePipelineProofs

(* IdempotencyContract *)

\* A job id belongs to one request: it is in the table only when the handler of
\* that request put it there.
Fresh ==
  /\ \A a \in Apis : apiReq[a] # NoRequest => apiReq[a].id \in received
  /\ \A a, b \in Apis :
       apiReq[a] # NoRequest /\ apiReq[b] # NoRequest /\ apiReq[a].id = apiReq[b].id => a = b
  /\ Stored \subseteq received
  /\ \A a \in Apis :
       apiPc[a] \in {"lookup", "admit", "upload", "insert", "reread"} => apiReq[a].id \notin Stored

\* The row a handler is about to publish is the one it inserted.
Inserted ==
  \A a \in Apis :
    apiPc[a] \in {"push", "mark_failed"} =>
      /\ apiReq[a].id \in Stored
      /\ jobs[apiReq[a].id].key = apiReq[a].key
      /\ jobs[apiReq[a].id].payload = apiReq[a].payload

\* The UNIQUE constraint, as a fact about the table.
UniqueKeys ==
  \A i, j \in Stored : jobs[i].key = jobs[j].key /\ jobs[i].key # NoKey => i = j

\* A client that was answered 200 was given a job stored with its key and payload.
ToldTheJob ==
  \A i \in Ids :
    replies[i] # NoReply /\ replies[i].code = "200" =>
      LET j == replies[i].job IN
      j \in Stored /\ jobs[j].key = replies[i].key /\ jobs[j].payload = replies[i].payload

ToldConflict ==
  \A i \in Ids :
    replies[i] # NoReply /\ replies[i].code = "409" =>
      \E j \in JobsWithKey(replies[i].key) : jobs[j].payload # replies[i].payload

IdempotencyInv == Fresh /\ Inserted /\ UniqueKeys /\ ToldTheJob /\ ToldConflict

\* What no step does to a row, once it is there.
RowsKept ==
  \A i \in Stored :
    i \in Stored' /\ jobs'[i].key = jobs[i].key /\ jobs'[i].payload = jobs[i].payload

-----------------------------------------------------------------------------

InsertStep(a) ==
  /\ apiPc[a] = "insert" /\ ~UniqueViolation(apiReq[a].key)
  /\ InsertJob(apiReq[a].id, apiReq[a].key, apiReq[a].payload)

\* The table changes by the insert of a handler or by an update of a status.
LEMMA JobsStep ==
  ASSUME TypeOK, [Next]_vars
  PROVE  \/ UNCHANGED jobs
         \/ \E i \in Ids, s \in Statuses : UpdateStatus(i, s)
         \/ \E a \in Apis : InsertStep(a) /\ Insert(a)
<1>1. ASSUME NEW a \in Apis, ApiStep(a), UNCHANGED workerVars
      PROVE  \/ UNCHANGED jobs
             \/ \E i \in Ids, s \in Statuses : UpdateStatus(i, s)
             \/ InsertStep(a) /\ Insert(a)
  <2>1. CASE MarkPushFailed(a)
    <3>1. apiReq[a].id \in Ids
      BY <2>1, Serving DEF MarkPushFailed, TypeOK
    <3> QED BY <2>1, <3>1 DEF MarkPushFailed, UpdateRaises, Statuses
  <2>2. CASE Insert(a)
    BY <2>2 DEF Insert, InsertStep
  <2> QED
    BY <1>1, <2>1, <2>2 DEF ApiStep, Receive, Lookup, Admit, Upload, Reread, PushJob, ApiCrash,
                            ApiRestart, serviceVars
<1>2. ASSUME NEW w \in Workers, WorkerStep(w)
      PROVE  UNCHANGED jobs \/ \E i \in Ids, s \in Statuses : UpdateStatus(i, s)
  <2>1. CASE MarkProcessing(w) \/ MarkDone(w) \/ MarkFailed(w)
    <3>1. wJob[w] \in Ids
      BY <2>1 DEF MarkProcessing, MarkDone, MarkFailed, TypeOK, WorkerTypeOK
    <3> QED BY <2>1, <3>1 DEF MarkProcessing, MarkDone, MarkFailed, UpdateRaises, Statuses
  <2> QED
    BY <1>2, <2>1 DEF WorkerStep, TakeJob, TakeJobRaises, Load, Download, Process, UploadResult,
                      WorkerCrash, WorkerRestart, serviceVars
<1> QED BY <1>1, <1>2, StepCases DEF vars, serviceVars

\* Updates leave keys, payloads and the set of rows alone.
LEMMA UpdateKeeps ==
  ASSUME TypeOK, NEW i \in Ids, NEW s \in Statuses, UpdateStatus(i, s)
  PROVE  RowsKept /\ Stored' = Stored
<1>1. ASSUME NEW j \in Ids
      PROVE  /\ jobs[j] = NoRow <=> jobs'[j] = NoRow
             /\ jobs[j] # NoRow => jobs'[j].key = jobs[j].key /\ jobs'[j].payload = jobs[j].payload
  <2>1. CASE i \in Stored /\ j = i
    <3>1. jobs[i] \in Row /\ jobs'[i] = [jobs[i] EXCEPT !.status = s]
      BY <2>1 DEF UpdateStatus, Stored, TypeOK, ServicesTypeOK
    <3>2. jobs'[i] \in Row
      BY <3>1 DEF Row
    <3> QED BY <2>1, <3>1, <3>2, NoRowAssumption DEF Row
  <2> QED BY <2>1 DEF UpdateStatus, TypeOK, ServicesTypeOK
<1> QED BY <1>1 DEF RowsKept, Stored

LEMMA InsertKeeps ==
  ASSUME TypeOK, Fresh, NEW a \in Apis, InsertStep(a)
  PROVE  /\ RowsKept /\ Stored' = Stored \union {apiReq[a].id}
         /\ jobs'[apiReq[a].id].key = apiReq[a].key
         /\ jobs'[apiReq[a].id].payload = apiReq[a].payload
<1>1. apiReq[a].id \in Ids /\ apiReq[a].key \in KeysSent /\ apiReq[a].payload \in Payloads
  BY Serving DEF InsertStep, TypeOK
<1>2. apiReq[a].id \notin Stored
  BY DEF InsertStep, Fresh
<1> DEFINE row == [status |-> "PENDING", key |-> apiReq[a].key, payload |-> apiReq[a].payload]
<1>3. row \in Row /\ jobs' = [jobs EXCEPT ![apiReq[a].id] = row]
  BY <1>1 DEF InsertStep, InsertJob, Row, Statuses
<1>4. row # NoRow
  BY <1>3, NoRowAssumption
<1>5. jobs'[apiReq[a].id] = row
  BY <1>1, <1>3 DEF TypeOK, ServicesTypeOK
<1>6. \A j \in Ids : j # apiReq[a].id => jobs'[j] = jobs[j]
  BY <1>1, <1>3 DEF TypeOK, ServicesTypeOK
<1>7. Stored' = Stored \union {apiReq[a].id}
  BY <1>1, <1>4, <1>5, <1>6 DEF Stored
<1>8. RowsKept
  BY <1>1, <1>2, <1>6, <1>7 DEF RowsKept, Stored
<1> QED BY <1>5, <1>7, <1>8

LEMMA StepKeepsRows ==
  ASSUME TypeOK, Fresh, [Next]_vars
  PROVE  RowsKept
<1>1. CASE UNCHANGED jobs
  BY <1>1 DEF RowsKept, Stored
<1> QED BY <1>1, JobsStep, UpdateKeeps, InsertKeeps

\* A row that appears is the one a handler inserts.
LEMMA NewRow ==
  ASSUME TypeOK, Fresh, [Next]_vars, NEW i \in Stored', i \notin Stored
  PROVE  \E a \in Apis : InsertStep(a) /\ Insert(a) /\ i = apiReq[a].id
<1>1. CASE UNCHANGED jobs
  BY <1>1 DEF Stored
<1> QED BY <1>1, JobsStep, UpdateKeeps, InsertKeeps

-----------------------------------------------------------------------------

\* How a step of a handler moves it on.
LEMMA ApiMove ==
  ASSUME TypeOK, NEW a \in Apis, ApiStep(a)
  PROVE  /\ \A b \in Apis \ {a} : apiPc'[b] = apiPc[b] /\ apiReq'[b] = apiReq[b]
         /\ \/ Receive(a)
            \/ /\ received' = received /\ replies' = replies /\ apiReq'[a] = apiReq[a]
               /\ \/ /\ apiPc[a] \in {"lookup", "admit", "upload", "insert"}
                     /\ apiPc'[a] \in {"admit", "upload", "insert", "reread"}
                     /\ UNCHANGED jobs
                  \/ apiPc'[a] = "push" /\ InsertStep(a)
                  \/ apiPc[a] = "push" /\ apiPc'[a] = "mark_failed" /\ UNCHANGED jobs
            \/ /\ received' = received /\ apiReq'[a] = NoRequest
               /\ apiPc'[a] \in {"ready", "down"}
<1> USE DEF TypeOK, ApiTypeOK
<1>g. ASSUME NEW to, Goto(a, to)
      PROVE  /\ apiPc'[a] = to /\ apiReq'[a] = apiReq[a]
             /\ received' = received /\ replies' = replies
             /\ \A b \in Apis \ {a} : apiPc'[b] = apiPc[b] /\ apiReq'[b] = apiReq[b]
  BY <1>g DEF Goto
<1>r. ASSUME NEW code, NEW job, Respond(a, code, job)
      PROVE  /\ apiPc'[a] = "ready" /\ apiReq'[a] = NoRequest /\ received' = received
             /\ \A b \in Apis \ {a} : apiPc'[b] = apiPc[b] /\ apiReq'[b] = apiReq[b]
  BY <1>r DEF Respond
<1>1. CASE Receive(a)
  BY <1>1 DEF Receive
<1>2. CASE Lookup(a)
  BY <1>2, <1>g, <1>r DEF Lookup, AnswerFromExisting, Fail500, serviceVars
<1>3. CASE Admit(a)
  BY <1>3, <1>g, <1>r DEF Admit, Fail500, serviceVars
<1>4. CASE Upload(a)
  BY <1>4, <1>g, <1>r DEF Upload, Fail500
<1>5. CASE Insert(a)
  BY <1>5, <1>g, <1>r DEF Insert, InsertStep, Fail500
<1>6. CASE Reread(a)
  BY <1>6, <1>r DEF Reread, AnswerFromExisting, Fail500
<1>7. CASE PushJob(a)
  BY <1>7, <1>g, <1>r DEF PushJob
<1>8. CASE MarkPushFailed(a)
  BY <1>8, <1>r DEF MarkPushFailed, Fail500
<1>9. CASE ApiCrash(a)
  BY <1>9 DEF ApiCrash
<1>10. CASE ApiRestart(a)
  BY <1>10, <1>g DEF ApiRestart
<1> QED
  BY <1>1, <1>2, <1>3, <1>4, <1>5, <1>6, <1>7, <1>8, <1>9, <1>10 DEF ApiStep

LEMMA ReceiveMove ==
  ASSUME TypeOK, NEW a \in Apis, Receive(a)
  PROVE  /\ apiReq'[a] # NoRequest /\ apiReq'[a].id \notin received
         /\ received' = received \union {apiReq'[a].id}
         /\ apiPc'[a] \in {"lookup", "admit"}
         /\ UNCHANGED <<replies, jobs, queues, inputs, outputs>>
BY ApiNoneAssumption DEF Receive, TypeOK, ApiTypeOK, serviceVars

\* A worker's step only updates statuses.
LEMMA WorkerKeepsStored ==
  ASSUME TypeOK, NEW w \in Workers, WorkerStep(w), UNCHANGED apiVars
  PROVE  RowsKept /\ Stored' = Stored
<1>1. CASE UNCHANGED jobs
  BY <1>1 DEF RowsKept, Stored
<1>2. CASE MarkProcessing(w) \/ MarkDone(w) \/ MarkFailed(w)
  <2>1. wJob[w] \in Ids
    BY <1>2 DEF MarkProcessing, MarkDone, MarkFailed, TypeOK, WorkerTypeOK
  <2> QED BY <1>1, <1>2, <2>1, UpdateKeeps DEF MarkProcessing, MarkDone, MarkFailed, UpdateRaises, Statuses
<1> QED
  BY <1>1, <1>2 DEF WorkerStep, TakeJob, TakeJobRaises, Load, Download, Process, UploadResult,
                    WorkerCrash, WorkerRestart, serviceVars

LEMMA FreshStep ==
  ASSUME TypeOK, Fresh, [Next]_vars
  PROVE  Fresh'
<1>1. ASSUME NEW a \in Apis, ApiStep(a), UNCHANGED workerVars
      PROVE  Fresh'
  <2>1. /\ \A b \in Apis : apiReq'[b] # NoRequest => apiReq'[b].id \in received'
        /\ \A b, c \in Apis :
             apiReq'[b] # NoRequest /\ apiReq'[c] # NoRequest /\ apiReq'[b].id = apiReq'[c].id => b = c
    <3>1. CASE Receive(a)
      BY <1>1, <3>1, ApiMove, ReceiveMove DEF Fresh
    <3>2. CASE received' = received /\ (apiReq'[a] = apiReq[a] \/ apiReq'[a] = NoRequest)
      BY <1>1, <3>2, ApiMove DEF Fresh
    <3> QED BY <1>1, <3>1, <3>2, ApiMove
  <2>2. Stored' \subseteq received'
    <3>1. received \subseteq received'
      BY <1>1, ApiMove, ReceiveMove
    <3>2. ASSUME NEW i \in Stored', i \notin Stored PROVE i \in received
      <4>1. PICK b \in Apis : InsertStep(b) /\ i = apiReq[b].id
        BY <3>2, NewRow
      <4>2. apiReq[b] # NoRequest
        BY <4>1, Serving, ApiNoneAssumption DEF InsertStep, TypeOK
      <4> QED BY <4>1, <4>2 DEF Fresh
    <3> QED BY <3>1, <3>2 DEF Fresh
  <2>3. ASSUME NEW b \in Apis, apiPc'[b] \in {"lookup", "admit", "upload", "insert", "reread"}
        PROVE  apiReq'[b].id \notin Stored'
    <3>1. CASE Receive(a) /\ b = a
      BY <3>1, ReceiveMove DEF Fresh, Stored
    <3>2. CASE b = a /\ ~Receive(a)
      <4>1. apiPc[a] \in {"lookup", "admit", "upload", "insert"} /\ UNCHANGED jobs
            /\ apiReq'[a] = apiReq[a]
        BY <1>1, <2>3, <3>2, ApiMove
      <4> QED BY <3>2, <4>1 DEF Fresh, Stored
    <3>3. CASE b # a
      <4>1. apiPc[b] = apiPc'[b] /\ apiReq'[b] = apiReq[b]
        BY <1>1, <3>3, ApiMove
      <4>2. apiReq[b].id \notin Stored
        BY <2>3, <4>1 DEF Fresh
      <4>3. SUFFICES ASSUME apiReq[b].id \in Stored' PROVE FALSE
        BY <4>1
      <4>4. PICK c \in Apis : InsertStep(c) /\ Insert(c) /\ apiReq[b].id = apiReq[c].id
        BY <4>2, <4>3, NewRow
      <4>5. apiReq[b] # NoRequest /\ apiReq[c] # NoRequest
        BY <2>3, <4>1, <4>4, Serving, ApiNoneAssumption DEF InsertStep, TypeOK
      <4>6. b = c
        BY <4>4, <4>5 DEF Fresh
      <4>7. apiPc'[c] # apiPc[c]
        BY <4>4 DEF Insert, Goto, Fail500, Respond, TypeOK, ApiTypeOK
      <4> QED BY <4>1, <4>6, <4>7
    <3> QED BY <3>1, <3>2, <3>3
  <2> QED BY <2>1, <2>2, <2>3 DEF Fresh
<1>2. ASSUME NEW w \in Workers, WorkerStep(w), UNCHANGED apiVars
      PROVE  Fresh'
  BY <1>2, WorkerKeepsStored DEF Fresh, apiVars
<1>3. CASE UNCHANGED vars
  BY <1>3 DEF vars, serviceVars, apiVars, Fresh, Stored
<1> QED BY <1>1, <1>2, <1>3, StepCases

LEMMA InsertedStep ==
  ASSUME TypeOK, Fresh, Inserted, [Next]_vars
  PROVE  Inserted'
<1>k. RowsKept
  BY StepKeepsRows
<1>1. ASSUME NEW a \in Apis, ApiStep(a), NEW b \in Apis, apiPc'[b] \in {"push", "mark_failed"}
      PROVE  /\ apiReq'[b].id \in Stored'
             /\ jobs'[apiReq'[b].id].key = apiReq'[b].key
             /\ jobs'[apiReq'[b].id].payload = apiReq'[b].payload
  <2>1. CASE apiPc[b] \in {"push", "mark_failed"} /\ apiReq'[b] = apiReq[b]
    BY <1>k, <2>1 DEF Inserted, RowsKept
  <2>2. CASE b = a /\ InsertStep(a) /\ apiReq'[a] = apiReq[a]
    BY <2>2, InsertKeeps
  <2>3. ~Receive(a) \/ b # a
    BY <1>1, ReceiveMove
  <2> QED BY <1>1, <2>1, <2>2, <2>3, ApiMove
<1>2. CASE UNCHANGED apiVars
  BY <1>2, <1>k DEF apiVars, Inserted, RowsKept
<1> QED BY <1>1, <1>2, StepCases DEF Inserted, vars

LEMMA UniqueStep ==
  ASSUME TypeOK, Fresh, UniqueKeys, [Next]_vars
  PROVE  UniqueKeys'
<1>k. RowsKept
  BY StepKeepsRows
<1> SUFFICES ASSUME NEW i \in Stored', NEW j \in Stored',
                    jobs'[i].key = jobs'[j].key, jobs'[i].key # NoKey
             PROVE  i = j
  BY DEF UniqueKeys
<1>1. CASE i \in Stored /\ j \in Stored
  BY <1>1, <1>k DEF UniqueKeys, RowsKept
<1>2. ASSUME NEW m \in Stored', NEW n \in Stored, m \notin Stored,
             jobs'[m].key = jobs'[n].key, jobs'[m].key # NoKey
      PROVE  FALSE
  <2>1. PICK a \in Apis : InsertStep(a) /\ m = apiReq[a].id
    BY <1>2, NewRow
  <2>2. jobs'[m].key = apiReq[a].key
    BY <2>1, InsertKeeps
  <2>3. jobs[n].key = apiReq[a].key
    BY <1>2, <1>k, <2>2 DEF RowsKept
  <2> QED BY <1>2, <2>1, <2>2, <2>3 DEF InsertStep, UniqueViolation, JobsWithKey
<1>3. ASSUME i \notin Stored, j \notin Stored
      PROVE  i = j
  <2>1. PICK a \in Apis : InsertStep(a) /\ Insert(a) /\ i = apiReq[a].id
    BY <1>3, NewRow
  <2>2. Stored' = Stored \union {apiReq[a].id}
    BY <2>1, InsertKeeps
  <2> QED BY <1>3, <2>1, <2>2
<1> QED BY <1>1, <1>2, <1>3

-----------------------------------------------------------------------------

\* What a new reply says, by its code.
LEMMA ReplyStep ==
  ASSUME TypeOK, Inserted, NEW a \in Apis, ApiStep(a), replies' # replies
  PROVE  \E code \in Codes, job \in Ids \union {NoJob} :
           /\ replies' = [replies EXCEPT ![apiReq[a].id] =
                [key |-> apiReq[a].key, payload |-> apiReq[a].payload, code |-> code, job |-> job]]
           /\ apiReq[a].id \in Ids
           /\ code = "200" => /\ job \in Stored /\ jobs[job].key = apiReq[a].key
                              /\ jobs[job].payload = apiReq[a].payload
           /\ code = "409" => \E j \in JobsWithKey(apiReq[a].key) : jobs[j].payload # apiReq[a].payload
<1>0. apiPc[a] \notin {"ready", "down"}
  BY DEF ApiStep, Receive, Lookup, Admit, Upload, Insert, Reread, PushJob, MarkPushFailed,
         ApiCrash, ApiRestart, Goto
<1>1. apiReq[a].id \in Ids
  BY <1>0, Serving DEF TypeOK
<1>2. CASE Lookup(a) \/ Reread(a)
  <2>1. CASE AnswerFromExisting(a)
    <3>1. PICK i \in JobsWithKey(apiReq[a].key) :
            \/ jobs[i].payload = apiReq[a].payload /\ Respond(a, "200", i)
            \/ jobs[i].payload # apiReq[a].payload /\ Respond(a, "409", NoJob)
      BY <2>1 DEF AnswerFromExisting
    <3>2. i \in Stored /\ i \in Ids /\ jobs[i].key = apiReq[a].key
      BY DEF JobsWithKey, Stored
    <3>3. CASE jobs[i].payload = apiReq[a].payload /\ Respond(a, "200", i)
      BY <1>1, <3>2, <3>3 DEF Respond, Codes
    <3>4. CASE jobs[i].payload # apiReq[a].payload /\ Respond(a, "409", NoJob)
      BY <1>1, <3>4 DEF Respond, Codes
    <3> QED BY <3>1, <3>3, <3>4
  <2> QED BY <1>1, <1>2, <2>1 DEF Lookup, Reread, Goto, Fail500, Respond, Codes
<1>3. CASE PushJob(a)
  BY <1>1, <1>3 DEF PushJob, Goto, Respond, Inserted, Codes
<1>4. CASE Admit(a) \/ Upload(a) \/ Insert(a) \/ MarkPushFailed(a)
  BY <1>1, <1>4 DEF Admit, Upload, Insert, MarkPushFailed, Goto, Fail500, Respond, Codes
<1> QED BY <1>2, <1>3, <1>4 DEF ApiStep, Receive, ApiCrash, ApiRestart, Goto

LEMMA ToldStep ==
  ASSUME TypeOK, Fresh, Inserted, ToldTheJob, ToldConflict, [Next]_vars
  PROVE  ToldTheJob' /\ ToldConflict'
<1>k. RowsKept
  BY StepKeepsRows
<1>c. \A k \in KeysSent, p \in Payloads :
        (\E j \in JobsWithKey(k) : jobs[j].payload # p)
          => \E j \in JobsWithKey(k)' : jobs'[j].payload # p
  BY <1>k DEF JobsWithKey, RowsKept
<1>t. \A i \in Ids : replies[i] # NoReply => replies[i].key \in KeysSent /\ replies[i].payload \in Payloads
  BY DEF TypeOK, ApiTypeOK, Reply
<1>1. CASE UNCHANGED replies
  <2>1. ToldTheJob'
    BY <1>1, <1>k DEF ToldTheJob, RowsKept
  <2>2. ToldConflict'
    BY <1>1, <1>c, <1>t DEF ToldConflict
  <2> QED BY <2>1, <2>2
<1>2. ASSUME NEW a \in Apis, ApiStep(a), replies' # replies
      PROVE  ToldTheJob' /\ ToldConflict'
  <2>1. PICK code \in Codes, job \in Ids \union {NoJob} :
           /\ replies' = [replies EXCEPT ![apiReq[a].id] =
                [key |-> apiReq[a].key, payload |-> apiReq[a].payload, code |-> code, job |-> job]]
           /\ apiReq[a].id \in Ids
           /\ code = "200" => /\ job \in Stored /\ jobs[job].key = apiReq[a].key
                              /\ jobs[job].payload = apiReq[a].payload
           /\ code = "409" => \E j \in JobsWithKey(apiReq[a].key) : jobs[j].payload # apiReq[a].payload
    BY <1>2, ReplyStep
  <2>2. /\ replies'[apiReq[a].id] =
             [key |-> apiReq[a].key, payload |-> apiReq[a].payload, code |-> code, job |-> job]
        /\ \A i \in Ids : i # apiReq[a].id => replies'[i] = replies[i]
    BY <2>1 DEF TypeOK, ApiTypeOK
  <2>3. apiReq[a].key \in KeysSent /\ apiReq[a].payload \in Payloads
    <3>1. apiPc[a] \notin {"ready", "down"}
      BY <1>2 DEF ApiStep, Receive, Lookup, Admit, Upload, Insert, Reread, PushJob, MarkPushFailed,
                  ApiCrash, ApiRestart, Goto
    <3> QED BY <3>1, Serving DEF TypeOK
  <2>4. ToldTheJob'
    BY <1>k, <2>1, <2>2 DEF ToldTheJob, RowsKept
  <2>5. ToldConflict'
    BY <1>c, <1>t, <2>1, <2>2, <2>3 DEF ToldConflict
  <2> QED BY <2>4, <2>5
<1> QED BY <1>1, <1>2, StepCases DEF vars, apiVars

LEMMA IdempotencyInvariant == Spec => []IdempotencyInv
<1>1. Init => IdempotencyInv
  BY DEF Init, ServicesInit, ApiInit, IdempotencyInv, Fresh, Inserted, UniqueKeys, ToldTheJob,
         ToldConflict, Stored
<1>2. TypeOK /\ IdempotencyInv /\ [Next]_vars => IdempotencyInv'
  BY FreshStep, InsertedStep, UniqueStep, ToldStep DEF IdempotencyInv
<1> QED BY <1>1, <1>2, TypeCorrect, PTL DEF Spec

\* However many requests with one Idempotency-Key race through however many API
\* processes, and whatever calls fail: those answered 200 sent the same request and
\* were given the same job, and 409 is answered only to a request that differs.
THEOREM IdempotencyHolds == Spec => []IdempotencyContract
<1>1. TypeOK /\ IdempotencyInv => IdempotencyContract
  <2> SUFFICES ASSUME TypeOK, IdempotencyInv PROVE IdempotencyContract
    OBVIOUS
  <2>1. NoKey \notin Keys
    BY ServicesAssumption
  <2> QED BY <2>1 DEF IdempotencyInv, UniqueKeys, ToldTheJob, ToldConflict, IdempotencyContract, Truthy
<1> QED BY <1>1, IdempotencyInvariant, TypeCorrect, PTL

-----------------------------------------------------------------------------
(* PublishedIsStored and SingleDelivery *)

\* The original of a job is in MinIO before its row is written.
InputFirst ==
  \A a \in Apis : apiPc[a] \in {"insert", "push", "mark_failed"} => apiReq[a].id \in inputs

\* A handler that has yet to push holds the only copy of the id.
NotYetPublished ==
  \A a \in Apis, i \in Ids :
    apiPc[a] = "push" /\ apiReq[a].id = i => ~Queued(i) /\ ~Held(i)

\* No id is in a list twice.
Distinct(q) == \A m, n \in DOMAIN queues[q] : queues[q][m] = queues[q][n] => m = n

CustodyInv ==
  /\ Fresh /\ Inserted /\ InputFirst /\ NotYetPublished
  /\ PublishedIsStored /\ SingleDelivery

-----------------------------------------------------------------------------
(* Lists *)

LEMMA PushList ==
  ASSUME TypeOK, NEW q \in Queues, NEW i \in Ids, Push(q, i)
  PROVE  /\ \A p \in Queues, j \in Ids :
              InQueue(j, p)' <=> InQueue(j, p) \/ (p = q /\ j = i)
         /\ (\A p \in Queues : Distinct(p)) /\ ~InQueue(i, q) => \A p \in Queues : Distinct(p)'
<1>1. /\ Len(queues[q]) \in Nat /\ DOMAIN queues[q] = 1..Len(queues[q])
      /\ queues'[q] = Append(queues[q], i)
      /\ \A p \in Queues \ {q} : queues'[p] = queues[p]
  BY DEF Push, TypeOK, ServicesTypeOK
<1>2. /\ DOMAIN queues'[q] = 1..(Len(queues[q]) + 1)
      /\ queues'[q][Len(queues[q]) + 1] = i
      /\ \A n \in 1..Len(queues[q]) : queues'[q][n] = queues[q][n]
  BY <1>1 DEF TypeOK, ServicesTypeOK
<1>3. ASSUME NEW p \in Queues, NEW j \in Ids
      PROVE  InQueue(j, p)' <=> InQueue(j, p) \/ (p = q /\ j = i)
  <2>1. CASE p = q
    <3>1. \A n \in 1..(Len(queues[q]) + 1) : n \in 1..Len(queues[q]) \/ n = Len(queues[q]) + 1
      BY <1>1
    <3>2. Len(queues[q]) + 1 \in 1..(Len(queues[q]) + 1)
          /\ \A n \in 1..Len(queues[q]) : n \in 1..(Len(queues[q]) + 1)
      BY <1>1
    <3>3. InQueue(j, q)' <=> \E n \in 1..(Len(queues[q]) + 1) : queues'[q][n] = j
      BY <1>2 DEF InQueue
    <3>4. InQueue(j, q) <=> \E n \in 1..Len(queues[q]) : queues[q][n] = j
      BY <1>1 DEF InQueue
    <3>5. ASSUME InQueue(j, q)' PROVE InQueue(j, q) \/ j = i
      <4>1. PICK n \in 1..(Len(queues[q]) + 1) : queues'[q][n] = j
        BY <3>3, <3>5
      <4>2. CASE n \in 1..Len(queues[q])
        BY <1>2, <3>4, <4>1, <4>2
      <4>3. CASE n = Len(queues[q]) + 1
        BY <1>2, <4>1, <4>3
      <4> QED BY <3>1, <4>2, <4>3
    <3>6. ASSUME InQueue(j, q) \/ j = i PROVE InQueue(j, q)'
      <4>1. CASE j = i
        BY <1>2, <3>2, <3>3, <4>1
      <4>2. CASE InQueue(j, q)
        <5>1. PICK n \in 1..Len(queues[q]) : queues[q][n] = j
          BY <3>4, <4>2
        <5> QED BY <1>2, <3>2, <3>3, <5>1
      <4> QED BY <3>6, <4>1, <4>2
    <3> QED BY <2>1, <3>5, <3>6
  <2>2. CASE p # q
    BY <1>1, <2>2 DEF InQueue
  <2> QED BY <2>1, <2>2
<1>4. ASSUME \A p \in Queues : Distinct(p), ~InQueue(i, q), NEW p \in Queues
      PROVE  Distinct(p)'
  <2>1. CASE p = q
    <3>1. \A n \in 1..Len(queues[q]) : queues[q][n] # i
      BY <1>1, <1>4 DEF InQueue
    <3>2. \A m, n \in 1..Len(queues[q]) : queues[q][m] = queues[q][n] => m = n
      BY <1>1, <1>4 DEF Distinct
    <3> SUFFICES ASSUME NEW m \in 1..(Len(queues[q]) + 1), NEW n \in 1..(Len(queues[q]) + 1),
                        queues'[q][m] = queues'[q][n]
                 PROVE  m = n
      BY <1>2, <2>1 DEF Distinct
    <3>3. /\ m \in 1..Len(queues[q]) \/ m = Len(queues[q]) + 1
          /\ n \in 1..Len(queues[q]) \/ n = Len(queues[q]) + 1
      BY <1>1
    <3> QED BY <1>2, <3>1, <3>2, <3>3
  <2>2. CASE p # q
    BY <1>1, <1>4, <2>2 DEF Distinct
  <2> QED BY <2>1, <2>2
<1> QED BY <1>3, <1>4

LEMMA PopList ==
  ASSUME TypeOK, NEW q \in Queues, queues[q] # << >>, Pop(q),
         NEW h, h = Head(queues[q])
  PROVE  /\ h \in Ids /\ InQueue(h, q)
         /\ \A p \in Queues, j \in Ids : InQueue(j, p)' => InQueue(j, p)
         /\ (\A p \in Queues : Distinct(p)) =>
              (\A p \in Queues : Distinct(p)') /\ ~InQueue(h, q)'
<1> DEFINE s == queues[q]
<1>1. /\ s \in Seq(Ids) /\ Len(s) \in Nat \ {0} /\ DOMAIN s = 1..Len(s)
      /\ queues'[q] = Tail(s) /\ h = s[1]
      /\ \A p \in Queues \ {q} : queues'[p] = queues[p]
  BY DEF Pop, TypeOK, ServicesTypeOK
<1>2. /\ DOMAIN queues'[q] = 1..(Len(s) - 1)
      /\ \A n \in 1..(Len(s) - 1) : queues'[q][n] = s[n + 1]
  BY <1>1
<1>3. \A n \in 1..(Len(s) - 1) : n + 1 \in 1..Len(s) /\ n + 1 # 1
  BY <1>1
<1>4. h \in Ids /\ InQueue(h, q)
  BY <1>1 DEF InQueue
<1>5. ASSUME NEW p \in Queues, NEW j \in Ids, InQueue(j, p)'
      PROVE  InQueue(j, p)
  <2>1. CASE p = q
    <3>1. PICK n \in 1..(Len(s) - 1) : s[n + 1] = j
      BY <1>2, <1>5, <2>1 DEF InQueue
    <3>2. n + 1 \in DOMAIN queues[q]
      BY <1>1, <1>3
    <3> QED BY <2>1, <3>1, <3>2 DEF InQueue
  <2>2. CASE p # q
    BY <1>1, <1>5, <2>2 DEF InQueue
  <2> QED BY <2>1, <2>2
<1>6. ASSUME \A p \in Queues : Distinct(p)
      PROVE  (\A p \in Queues : Distinct(p)') /\ ~InQueue(h, q)'
  <2>1. \A m, n \in 1..Len(s) : s[m] = s[n] => m = n
    BY <1>1, <1>6 DEF Distinct
  <2>2. Distinct(q)'
    <3> SUFFICES ASSUME NEW m \in 1..(Len(s) - 1), NEW n \in 1..(Len(s) - 1), s[m + 1] = s[n + 1]
                 PROVE  m = n
      BY <1>2 DEF Distinct
    <3>1. m + 1 = n + 1
      BY <1>3, <2>1
    <3> QED BY <1>1, <3>1
  <2>3. \A p \in Queues \ {q} : Distinct(p)'
    BY <1>1, <1>6 DEF Distinct
  <2>4. ~InQueue(h, q)'
    <3> SUFFICES ASSUME NEW n \in 1..(Len(s) - 1), s[n + 1] = s[1] PROVE FALSE
      BY <1>1, <1>2 DEF InQueue
    <3> QED BY <1>1, <1>3, <2>1
  <2> QED BY <2>2, <2>3, <2>4
<1> QED BY <1>4, <1>5, <1>6

\* The handlers change a list only by the push.
LEMMA ApiLists ==
  ASSUME TypeOK, NEW a \in Apis, ApiStep(a)
  PROVE  /\ inputs \subseteq inputs'
         /\ \/ UNCHANGED queues
            \/ apiPc[a] = "push" /\ Push(TargetQueue(a), apiReq[a].id) /\ apiPc'[a] # "push"
<1>1. inputs \subseteq inputs'
  BY DEF ApiStep, Receive, Lookup, Admit, Upload, UploadInput, Insert, Reread, PushJob,
         MarkPushFailed, ApiCrash, ApiRestart, serviceVars
<1>2. CASE PushJob(a)
  BY <1>1, <1>2 DEF PushJob, Goto, Respond, TypeOK, ApiTypeOK
<1> QED
  BY <1>1, <1>2 DEF ApiStep, Receive, Lookup, Admit, Upload, Insert, Reread, MarkPushFailed,
                    ApiCrash, ApiRestart, serviceVars

\* A worker changes a list only by the pop, and takes up no job but the popped one.
LEMMA WorkerLists ==
  ASSUME TypeOK, NEW w \in Workers, WorkerStep(w)
  PROVE  /\ inputs' = inputs
         /\ \A v \in Workers \ {w} : wPc'[v] = wPc[v] /\ wJob'[v] = wJob[v]
         /\ \/ UNCHANGED queues /\ wJob'[w] \in {wJob[w], NoJob}
            \/ /\ queues[PoolOf[w]] # << >> /\ Pop(PoolOf[w])
               /\ wJob'[w] \in {Head(queues[PoolOf[w]]), NoJob}
BY DEF WorkerStep, TakeJob, TakeJobRaises, Load, MarkProcessing, Download, Process, UploadResult,
       MarkDone, MarkFailed, WorkerCrash, WorkerRestart, Advance, Release, RetryOrFail, serviceVars,
       TypeOK, WorkerTypeOK

-----------------------------------------------------------------------------

\* A job that no list and no worker has is not stored, or its handler still has it.
LEMMA UnstoredIsUnseen ==
  ASSUME TypeOK, PublishedIsStored, NEW i \in Ids, i \notin Stored
  PROVE  ~Queued(i) /\ ~Held(i)
BY ServicesAssumption DEF PublishedIsStored, Queued, Held

LEMMA ApiStepCustody ==
  ASSUME TypeOK, CustodyInv, [Next]_vars, NEW a \in Apis, ApiStep(a), UNCHANGED workerVars
  PROVE  InputFirst' /\ NotYetPublished' /\ PublishedIsStored' /\ SingleDelivery'
<1>k. RowsKept
  BY StepKeepsRows DEF CustodyInv
<1>i. inputs \subseteq inputs'
  BY ApiLists
<1>w. wJob' = wJob
  BY DEF workerVars
<1>p. ASSUME apiPc[a] = "push"
      PROVE  /\ apiReq[a].id \in Ids \intersect Stored \intersect inputs
             /\ TargetQueue(a) \in Queues /\ QueueOf[jobs[apiReq[a].id].payload] = TargetQueue(a)
             /\ ~Queued(apiReq[a].id) /\ ~Held(apiReq[a].id)
  <2>1. apiReq[a].id \in Ids /\ apiReq[a].payload \in Payloads
    BY <1>p, Serving DEF TypeOK
  <2> QED
    BY <1>p, <2>1, ServicesAssumption DEF CustodyInv, Inserted, InputFirst, NotYetPublished, TargetQueue
<1>q. ASSUME NEW p \in Queues, NEW j \in Ids, InQueue(j, p)'
      PROVE  \/ InQueue(j, p)
             \/ p = TargetQueue(a) /\ j = apiReq[a].id /\ apiPc[a] = "push" /\ apiPc'[a] # "push"
  <2>1. CASE UNCHANGED queues
    BY <1>q, <2>1 DEF InQueue
  <2> QED BY <1>p, <1>q, <2>1, ApiLists, PushList
<1>1. InputFirst'
  <2> SUFFICES ASSUME NEW b \in Apis, apiPc'[b] \in {"insert", "push", "mark_failed"}
               PROVE  apiReq'[b].id \in inputs'
    BY DEF InputFirst
  <2>1. CASE apiPc[b] \in {"insert", "push", "mark_failed"} /\ apiReq'[b] = apiReq[b]
    BY <1>i, <2>1 DEF CustodyInv, InputFirst
  <2>2. CASE b = a /\ Upload(a)
    BY <2>2 DEF Upload, UploadInput, Goto, Fail500, Respond, TypeOK, ApiTypeOK
  <2>3. CASE b = a /\ (Lookup(a) \/ Admit(a))
    BY <2>3 DEF Lookup, Admit, AnswerFromExisting, Goto, Fail500, Respond, TypeOK, ApiTypeOK
  <2>4. CASE b = a /\ Insert(a)
    BY <1>i, <2>4 DEF Insert, Goto, Fail500, Respond, TypeOK, ApiTypeOK, CustodyInv, InputFirst
  <2>5. CASE b = a /\ (Receive(a) \/ ApiCrash(a) \/ ApiRestart(a))
    BY <2>5, ReceiveMove DEF ApiCrash, ApiRestart, Goto, TypeOK, ApiTypeOK
  <2>6. CASE b = a /\ (Reread(a) \/ MarkPushFailed(a))
    BY <2>6 DEF Reread, MarkPushFailed, AnswerFromExisting, Fail500, Respond, TypeOK, ApiTypeOK
  <2>7. CASE b = a /\ PushJob(a)
    BY <1>i, <2>7 DEF PushJob, Goto, Respond, TypeOK, ApiTypeOK, CustodyInv, InputFirst
  <2>8. CASE b # a
    BY <2>1, <2>8, ApiMove
  <2> QED BY <2>2, <2>3, <2>4, <2>5, <2>6, <2>7, <2>8 DEF ApiStep
<1>2. NotYetPublished'
  <2> SUFFICES ASSUME NEW b \in Apis, apiPc'[b] = "push", NEW i \in Ids, apiReq'[b].id = i
               PROVE  ~Queued(i)' /\ ~Held(i)'
    BY DEF NotYetPublished
  <2>1. apiReq[b].id = i /\ (b = a => InsertStep(a)) /\ (b # a => apiPc[b] = "push")
    BY ApiMove, ReceiveMove
  <2>2. apiReq[b] # NoRequest
    BY <2>1, Serving, ApiNoneAssumption DEF TypeOK, InsertStep
  <2>3. ~Queued(i) /\ ~Held(i)
    <3>1. CASE b = a
      <4>1. i \notin Stored
        BY <2>1, <3>1 DEF CustodyInv, Fresh, InsertStep
      <4> QED BY <4>1, UnstoredIsUnseen DEF CustodyInv
    <3>2. CASE b # a
      BY <2>1, <3>2 DEF CustodyInv, NotYetPublished
    <3> QED BY <3>1, <3>2
  <2>4. ASSUME NEW p \in Queues, InQueue(i, p)' PROVE FALSE
    <3>1. CASE InQueue(i, p)
      BY <2>3, <3>1 DEF Queued
    <3>2. CASE i = apiReq[a].id /\ apiPc[a] = "push" /\ apiPc'[a] # "push"
      <4>1. a = b
        BY <1>p, <2>1, <2>2, <3>2, Serving, ApiNoneAssumption DEF CustodyInv, Fresh, TypeOK
      <4> QED BY <3>2, <4>1
    <3> QED BY <1>q, <2>4, <3>1, <3>2
  <2> QED BY <1>w, <2>3, <2>4 DEF Queued, Held
<1>3. PublishedIsStored'
  <2>1. ASSUME NEW p \in Queues, NEW j \in Ids, InQueue(j, p)'
        PROVE  j \in Stored' \intersect inputs' /\ QueueOf[jobs'[j].payload] = p
    <3>1. j \in Stored \intersect inputs /\ QueueOf[jobs[j].payload] = p
      BY <1>p, <1>q, <2>1 DEF CustodyInv, PublishedIsStored
    <3> QED BY <1>k, <1>i, <3>1 DEF RowsKept
  <2>2. ASSUME NEW w \in Workers, wJob'[w] # NoJob
        PROVE  /\ wJob'[w] \in Stored' \intersect inputs'
               /\ QueueOf[jobs'[wJob'[w]].payload] = PoolOf[w]
    BY <1>k, <1>i, <1>w, <2>2 DEF RowsKept, CustodyInv, PublishedIsStored
  <2> QED BY <2>1, <2>2 DEF PublishedIsStored
<1>4. SingleDelivery'
  <2>1. \A p \in Queues : Distinct(p)
    BY DEF CustodyInv, SingleDelivery, Distinct
  <2>2. \A p \in Queues : Distinct(p)'
    <3>1. CASE UNCHANGED queues
      BY <2>1, <3>1 DEF Distinct
    <3>2. CASE apiPc[a] = "push" /\ Push(TargetQueue(a), apiReq[a].id)
      BY <1>p, <2>1, <3>2, PushList DEF Queued
    <3> QED BY <3>1, <3>2, ApiLists
  <2>3. ASSUME NEW w \in Workers, wJob[w] # NoJob, NEW i, i = wJob[w]
        PROVE  ~Queued(i)'
    <3>1. i \in Ids
      BY <2>3 DEF TypeOK, WorkerTypeOK
    <3>2. ~Queued(i) /\ Held(i)
      BY <2>3 DEF CustodyInv, SingleDelivery, Held
    <3> QED BY <1>p, <1>q, <3>1, <3>2 DEF Queued
  <2>4. \A w \in Workers : wJob'[w] # NoJob => ~Queued(wJob[w])'
    BY <1>w, <2>3 DEF Queued, InQueue
  <2> QED BY <1>w, <2>2, <2>4 DEF SingleDelivery, CustodyInv, Distinct, Queued, InQueue
<1> QED BY <1>1, <1>2, <1>3, <1>4

LEMMA WorkerStepCustody ==
  ASSUME TypeOK, CustodyInv, [Next]_vars, NEW w \in Workers, WorkerStep(w), UNCHANGED apiVars
  PROVE  InputFirst' /\ NotYetPublished' /\ PublishedIsStored' /\ SingleDelivery'
<1>k. RowsKept
  BY StepKeepsRows DEF CustodyInv
<1>d. \A p \in Queues : Distinct(p)
  BY DEF CustodyInv, SingleDelivery, Distinct
<1>h. PICK h : h = Head(queues[PoolOf[w]])
  OBVIOUS
<1>p. PoolOf[w] \in Queues
  BY WorkerAssumption
<1>v. \A v \in Workers \ {w} : wJob'[v] = wJob[v]
  BY WorkerLists
<1>1. \/ UNCHANGED queues /\ wJob'[w] \in {wJob[w], NoJob}
      \/ /\ h \in Ids /\ InQueue(h, PoolOf[w])
         /\ \A p \in Queues, j \in Ids : InQueue(j, p)' => InQueue(j, p)
         /\ \A p \in Queues : Distinct(p)'
         /\ ~InQueue(h, PoolOf[w])'
         /\ wJob'[w] \in {h, NoJob}
  BY <1>d, <1>h, <1>p, WorkerLists, PopList
<1>q. ASSUME NEW p \in Queues, NEW j \in Ids, InQueue(j, p)'
      PROVE  InQueue(j, p)
  BY <1>1, <1>q DEF InQueue
<1>2. ASSUME NEW v \in Workers, NEW j \in Ids, wJob'[v] = j
      PROVE  \/ wJob[v] = j
             \/ v = w /\ j = h /\ InQueue(h, PoolOf[w]) /\ ~InQueue(h, PoolOf[w])'
  BY <1>1, <1>2, <1>v, ServicesAssumption DEF InQueue
<1>t. \A v \in Workers : wJob'[v] = NoJob \/ wJob'[v] \in Ids
  BY <1>1, <1>v DEF TypeOK, WorkerTypeOK
<1>3. InputFirst'
  BY WorkerLists DEF CustodyInv, InputFirst, apiVars
<1>4. NotYetPublished'
  BY <1>p, <1>q, <1>2 DEF CustodyInv, NotYetPublished, Queued, Held, apiVars
<1>5. PublishedIsStored'
  <2>1. ASSUME NEW p \in Queues, NEW j \in Ids, InQueue(j, p)
        PROVE  j \in Stored' \intersect inputs' /\ QueueOf[jobs'[j].payload] = p
    BY <1>k, <2>1, WorkerLists DEF RowsKept, CustodyInv, PublishedIsStored
  <2>2. ASSUME NEW v \in Workers, wJob'[v] # NoJob, NEW j \in Ids, j = wJob'[v]
        PROVE  j \in Stored' \intersect inputs' /\ QueueOf[jobs'[j].payload] = PoolOf[v]
    <3>1. CASE wJob[v] = j
      BY <1>k, <2>2, <3>1, WorkerLists DEF RowsKept, CustodyInv, PublishedIsStored
    <3>2. CASE v = w /\ j = h /\ InQueue(h, PoolOf[w])
      BY <1>p, <2>1, <3>2
    <3> QED BY <1>2, <2>2, <3>1, <3>2
  <2> QED BY <1>q, <1>t, <2>1, <2>2 DEF PublishedIsStored
<1>6. SingleDelivery'
  <2>1. ASSUME NEW u \in Workers, NEW v \in Workers, NEW j \in Ids, wJob'[u] = j, wJob'[v] = j
        PROVE  u = v
    <3>1. wJob[u] = j /\ wJob[v] = j => u = v
      BY ServicesAssumption DEF CustodyInv, SingleDelivery
    <3>2. ASSUME NEW x \in Workers, wJob[x] = j PROVE ~InQueue(j, PoolOf[w])
      BY <1>p, <3>2, ServicesAssumption DEF CustodyInv, SingleDelivery, Queued
    <3> QED BY <1>2, <2>1, <3>1, <3>2
  <2>2. ASSUME NEW v \in Workers, NEW j \in Ids, wJob'[v] = j
        PROVE  ~Queued(j)'
    <3>1. CASE wJob[v] = j
      <4>1. ~Queued(j)
        BY <3>1, ServicesAssumption DEF CustodyInv, SingleDelivery
      <4> QED BY <1>q, <4>1 DEF Queued
    <3>2. CASE j = h /\ InQueue(h, PoolOf[w]) /\ ~InQueue(h, PoolOf[w])'
      <4>1. \A p \in Queues : InQueue(h, p) => p = PoolOf[w]
        BY <1>p, <2>2, <3>2 DEF CustodyInv, PublishedIsStored
      <4> QED BY <1>q, <2>2, <3>2, <4>1 DEF Queued
    <3> QED BY <1>2, <2>2, <3>1, <3>2
  <2>3. \A p \in Queues : Distinct(p)'
    BY <1>1, <1>d DEF Distinct
  <2>4. \A u, v \in Workers : wJob'[u] = wJob'[v] /\ wJob'[u] # NoJob => u = v
    BY <1>t, <2>1
  <2>5. \A v \in Workers : (wJob[v] # NoJob => ~Queued(wJob[v]))'
    BY <1>t, <2>2 DEF Queued, InQueue
  <2> QED BY <2>3, <2>4, <2>5 DEF SingleDelivery, Distinct
<1> QED BY <1>3, <1>4, <1>5, <1>6

LEMMA CustodyInit == Init => CustodyInv
<1> SUFFICES ASSUME Init PROVE CustodyInv
  OBVIOUS
<1>1. Stored = {} /\ \A q \in Queues : queues[q] = << >> /\ DOMAIN queues[q] = {}
  BY DEF Init, ServicesInit, Stored
<1>2. \A w \in Workers : wJob[w] = NoJob
  BY DEF Init, WorkerInit
<1>3. \A a \in Apis : apiPc[a] = "ready" /\ apiReq[a] = NoRequest
  BY DEF Init, ApiInit
<1>4. Fresh /\ Inserted /\ InputFirst /\ NotYetPublished
  BY <1>1, <1>3 DEF Fresh, Inserted, InputFirst, NotYetPublished
<1>5. PublishedIsStored /\ SingleDelivery
  BY <1>1, <1>2 DEF PublishedIsStored, SingleDelivery, InQueue, Queued
<1> QED BY <1>4, <1>5 DEF CustodyInv

LEMMA CustodyStep == TypeOK /\ CustodyInv /\ [Next]_vars => CustodyInv'
<1> SUFFICES ASSUME TypeOK, CustodyInv, [Next]_vars PROVE CustodyInv'
  OBVIOUS
<1>1. Fresh' /\ Inserted'
  BY FreshStep, InsertedStep DEF CustodyInv
<1>2. CASE UNCHANGED vars
  BY <1>1, <1>2 DEF vars, serviceVars, apiVars, workerVars, CustodyInv, InputFirst,
       NotYetPublished, PublishedIsStored, SingleDelivery, Queued, Held, InQueue, Stored
<1> QED BY <1>1, <1>2, StepCases, ApiStepCustody, WorkerStepCustody DEF CustodyInv

LEMMA CustodyInvariant == Spec => []CustodyInv
BY CustodyInit, CustodyStep, TypeCorrect, PTL DEF Spec

\* Whatever fails: a job id that a list or a worker has is one whose row and original
\* are stored, and it is in the list, or with the pool, of its payload's class.
THEOREM PublishedIsStoredAlways == Spec => []PublishedIsStored
<1>1. CustodyInv => PublishedIsStored
  BY DEF CustodyInv
<1> QED BY <1>1, CustodyInvariant, PTL

\* Whatever fails, and with any number of workers in a pool: no job is worked on by
\* two workers, none is in line and worked on, and none is in line twice.
THEOREM SingleDeliveryAlways == Spec => []SingleDelivery
<1>1. CustodyInv => SingleDelivery
  BY DEF CustodyInv
<1> QED BY <1>1, CustodyInvariant, PTL
=============================================================================
