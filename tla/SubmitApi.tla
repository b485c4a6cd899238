------------------------------ MODULE SubmitApi ------------------------------
(***************************************************************************)
(* POST /jobs: the handler create_job of api/app/main.py.                  *)
(*                                                                         *)
(* Each API process runs one event loop and the handler's only await is    *)
(* the reading of the upload, before it touches any shared state: from     *)
(* there a process serves one request at a time and its calls block it.    *)
(* Several API processes interleave between their calls.  apiPc[a] is the  *)
(* next call of process a, apiReq[a] the request it serves.                *)
(*                                                                         *)
(* replies records what clients were told; a request whose process dies    *)
(* gets no reply, and a client may send the same key and payload again.    *)
(***************************************************************************)
EXTENDS PipelineServices

CONSTANTS
  Apis,             \* the API processes
  MaxQueueLength,   \* MAX_QUEUE_LENGTH
  NoRequest,        \* an API process serves no request
  NoReply           \* no reply was sent for a request

ASSUME ApiAssumption ==
  /\ MaxQueueLength \in Nat
  /\ IsFiniteSet(Apis) /\ Apis # {}

VARIABLES apiPc, apiReq, received, replies

apiVars == <<apiPc, apiReq, received, replies>>

\* The id is the uuid4 the handler draws if it gets that far.
Request == [id : Ids, key : KeysSent, payload : Payloads]

Codes == {"200", "409", "429", "500", "503"}
Reply == [key : KeysSent, payload : Payloads, code : Codes, job : Ids \union {NoJob}]

ApiPcs == {"ready", "lookup", "admit", "upload", "insert", "reread", "push",
           "mark_failed", "down"}

ASSUME ApiNoneAssumption == NoRequest \notin Request /\ NoReply \notin Reply

ApiTypeOK ==
  /\ apiPc \in [Apis -> ApiPcs]
  /\ apiReq \in [Apis -> Request \union {NoRequest}]
  /\ \A a \in Apis : apiPc[a] \in {"ready", "down"} <=> apiReq[a] = NoRequest
  /\ received \subseteq Ids
  /\ replies \in [Ids -> Reply \union {NoReply}]

ApiInit ==
  /\ apiPc = [a \in Apis |-> "ready"]
  /\ apiReq = [a \in Apis |-> NoRequest]
  /\ received = {}
  /\ replies = [i \in Ids |-> NoReply]

-----------------------------------------------------------------------------

\* Python's truth value of the header: None and "" are both false.
Truthy(k) == k \in Keys

TargetQueue(a) == QueueOf[apiReq[a].payload]

Goto(a, to) ==
  /\ apiPc' = [apiPc EXCEPT ![a] = to]
  /\ UNCHANGED <<apiReq, received, replies>>

\* The handler of process a returns or raises: the client is sent the code, with
\* the id of a job when it is 200.
Respond(a, code, job) ==
  /\ replies' = [replies EXCEPT ![apiReq[a].id] =
       [key |-> apiReq[a].key, payload |-> apiReq[a].payload, code |-> code, job |-> job]]
  /\ apiPc' = [apiPc EXCEPT ![a] = "ready"]
  /\ apiReq' = [apiReq EXCEPT ![a] = NoRequest]
  /\ UNCHANGED received

Fail500(a) == Respond(a, "500", NoJob)

\* Mutant: the answer names the id drawn for this request.
AnswerWithNewId(a) ==
  \E i \in JobsWithKey(apiReq[a].key) :
    \/ jobs[i].payload = apiReq[a].payload /\ Respond(a, "200", apiReq[a].id)
    \/ jobs[i].payload # apiReq[a].payload /\ Respond(a, "409", NoJob)

\* The job stored under the request's key, if any, decides: 200 with that job
\* when its request hash is the request's, 409 otherwise.
AnswerFromExisting(a) ==
  \E i \in JobsWithKey(apiReq[a].key) :
    \/ jobs[i].payload = apiReq[a].payload /\ Respond(a, "200", i)
    \/ jobs[i].payload # apiReq[a].payload /\ Respond(a, "409", NoJob)

-----------------------------------------------------------------------------
(* The calls of the handler, in order *)

Receive(a) ==
  /\ apiPc[a] = "ready"
  /\ \E r \in Request :
       /\ r.id \notin received
       /\ received' = received \union {r.id}
       /\ apiReq' = [apiReq EXCEPT ![a] = r]
       /\ apiPc' = [apiPc EXCEPT ![a] = IF Truthy(r.key) THEN "lookup" ELSE "admit"]
  /\ UNCHANGED <<replies, serviceVars>>

\* get_job_by_idempotency_key
Lookup(a) ==
  /\ apiPc[a] = "lookup"
  /\ \/ JobsWithKey(apiReq[a].key) = {} /\ Goto(a, "admit")
     \/ AnswerFromExisting(a)
     \/ Raises("db") /\ Fail500(a)
  /\ UNCHANGED serviceVars

\* Mutant: the comparison with MAX_QUEUE_LENGTH lets one more job in.
AdmitOneMore(a) ==
  /\ apiPc[a] = "admit"
  /\ \/ Len(queues[TargetQueue(a)]) <= MaxQueueLength /\ Goto(a, "upload")
     \/ Len(queues[TargetQueue(a)]) > MaxQueueLength /\ Respond(a, "429", NoJob)
     \/ Raises("redis") /\ Fail500(a)
  /\ UNCHANGED serviceVars

\* queue.length and the admission control on it
Admit(a) ==
  /\ apiPc[a] = "admit"
  /\ \/ Len(queues[TargetQueue(a)]) < MaxQueueLength /\ Goto(a, "upload")
     \/ Len(queues[TargetQueue(a)]) >= MaxQueueLength /\ Respond(a, "429", NoJob)
     \/ Raises("redis") /\ Fail500(a)
  /\ UNCHANGED serviceVars

\* Mutant: an error of the upload is logged and the handler goes on.
UploadSwallowsError(a) ==
  /\ apiPc[a] = "upload"
  /\ \/ UploadInput(apiReq[a].id)
     \/ Raises("storage") /\ UNCHANGED inputs
  /\ Goto(a, "insert")
  /\ UNCHANGED <<jobs, queues, outputs>>

\* Mutant: an error of the upload sends the handler back to the admission check.
UploadStartsOver(a) ==
  /\ apiPc[a] = "upload"
  /\ \/ UploadInput(apiReq[a].id) /\ Goto(a, "insert")
     \/ Raises("storage") /\ UNCHANGED inputs /\ Goto(a, "admit")
  /\ UNCHANGED <<jobs, queues, outputs>>

\* storage.upload of the original; nothing catches what it raises
Upload(a) ==
  /\ apiPc[a] = "upload"
  /\ \/ UploadInput(apiReq[a].id) /\ Goto(a, "insert")
     \/ Raises("storage") /\ UNCHANGED inputs /\ Fail500(a)
     \/ RaisesAfterEffect("storage") /\ UploadInput(apiReq[a].id) /\ Fail500(a)
  /\ UNCHANGED <<jobs, queues, outputs>>

\* job_repository.create_job: the row is PENDING before its id is queued
Insert(a) ==
  LET r == apiReq[a] IN
  /\ apiPc[a] = "insert"
  /\ \/ /\ ~UniqueViolation(r.key)
        /\ InsertJob(r.id, r.key, r.payload)
        /\ Goto(a, "push")
     \/ UniqueViolation(r.key) /\ Truthy(r.key) /\ Goto(a, "reread") /\ UNCHANGED jobs
     \/ UniqueViolation(r.key) /\ ~Truthy(r.key) /\ Fail500(a) /\ UNCHANGED jobs
     \/ Raises("db") /\ Fail500(a) /\ UNCHANGED jobs
     \/ /\ RaisesAfterEffect("db") /\ ~UniqueViolation(r.key)
        /\ InsertJob(r.id, r.key, r.payload)
        /\ Fail500(a)
  /\ UNCHANGED <<queues, inputs, outputs>>

\* get_job_by_idempotency_key again, after the constraint refused the row
Reread(a) ==
  /\ apiPc[a] = "reread"
  /\ \/ AnswerFromExisting(a)
     \/ JobsWithKey(apiReq[a].key) = {} /\ Fail500(a)
     \/ Raises("db") /\ Fail500(a)
  /\ UNCHANGED serviceVars

\* Mutant: the RedisError is not caught.
PushJobUncaught(a) ==
  LET r == apiReq[a] IN
  /\ apiPc[a] = "push"
  /\ \/ Push(TargetQueue(a), r.id) /\ Respond(a, "200", r.id)
     \/ Raises("redis") /\ UNCHANGED queues /\ Fail500(a)
  /\ UNCHANGED <<jobs, inputs, outputs>>

\* queue.push_job; only a RedisError is caught
PushJob(a) ==
  LET r == apiReq[a] IN
  /\ apiPc[a] = "push"
  /\ \/ Push(TargetQueue(a), r.id) /\ Respond(a, "200", r.id)
     \/ Raises("redis") /\ UNCHANGED queues /\ Goto(a, "mark_failed")
     \/ RaisesAfterEffect("redis") /\ Push(TargetQueue(a), r.id) /\ Goto(a, "mark_failed")
  /\ UNCHANGED <<jobs, inputs, outputs>>

\* Mutant: 503 without mark_failed.
RefuseOnly(a) ==
  /\ apiPc[a] = "mark_failed"
  /\ Respond(a, "503", NoJob)
  /\ UNCHANGED serviceVars

\* The except clause of push_job: mark_failed, then 503; its own error is a 500
MarkPushFailed(a) ==
  /\ apiPc[a] = "mark_failed"
  /\ \/ UpdateStatus(apiReq[a].id, "FAILED") /\ Respond(a, "503", NoJob)
     \/ UpdateRaises(apiReq[a].id, "FAILED") /\ Fail500(a)
  /\ UNCHANGED <<queues, inputs, outputs>>

-----------------------------------------------------------------------------
(* The process *)

ApiCrash(a) ==
  /\ "api_crash" \in Faults
  /\ apiPc[a] # "down"
  /\ apiPc' = [apiPc EXCEPT ![a] = "down"]
  /\ apiReq' = [apiReq EXCEPT ![a] = NoRequest]
  /\ UNCHANGED <<received, replies, serviceVars>>

\* restart: unless-stopped
ApiRestart(a) == apiPc[a] = "down" /\ Goto(a, "ready") /\ UNCHANGED serviceVars

\* What the handler does once it has a request.
Handle(a) ==
  \/ Lookup(a) \/ Admit(a) \/ Upload(a) \/ Insert(a) \/ Reread(a)
  \/ PushJob(a) \/ MarkPushFailed(a)

ApiNext ==
  \E a \in Apis : Receive(a) \/ Handle(a) \/ ApiCrash(a) \/ ApiRestart(a)
=============================================================================
