---------------------------- MODULE ImagePipeline ----------------------------
(***************************************************************************)
(* The whole service: API processes and worker pools around PostgreSQL,    *)
(* Redis and MinIO, and what it promises to the clients of POST /jobs.     *)
(***************************************************************************)
EXTENDS SubmitApi, Worker

vars == <<serviceVars, apiVars, workerVars>>

Init == ServicesInit /\ ApiInit /\ WorkerInit

Next ==
  \/ ApiNext /\ UNCHANGED workerVars
  \/ WorkerNext /\ UNCHANGED apiVars

Spec == Init /\ [][Next]_vars

TypeOK == ServicesTypeOK /\ ApiTypeOK /\ WorkerTypeOK

\* The blocking calls of a process return or raise, the container runtime restarts a
\* process that died, and Redis does not refuse every BRPOP of a worker for ever:
\* clients owe nothing, and no fault has to happen.
Fairness ==
  /\ \A a \in Apis : WF_vars((Handle(a) \/ ApiRestart(a)) /\ UNCHANGED workerVars)
  /\ \A w \in Workers : WF_vars((RunOnce(w) \/ WorkerRestart(w)) /\ UNCHANGED apiVars)
  /\ \A w \in Workers : SF_vars(TakeJob(w) /\ UNCHANGED apiVars)

FairSpec == Spec /\ Fairness

-----------------------------------------------------------------------------
(* Where a job id can be found *)

InQueue(i, q) == \E n \in DOMAIN queues[q] : queues[q][n] = i
Queued(i) == \E q \in Queues : InQueue(i, q)
Held(i) == \E w \in Workers : wJob[w] = i

\* Process a is serving the request that drew the job id i.
Serves(a, i) == apiReq[a] # NoRequest /\ apiReq[a].id = i

\* The API processes that were admitted to list q and have not pushed yet.
Admitted(q) ==
  {a \in Apis : /\ apiPc[a] \in {"upload", "insert", "push"}
                /\ apiReq[a] # NoRequest /\ TargetQueue(a) = q}

-----------------------------------------------------------------------------
(* Safety *)

\* MAX_QUEUE_LENGTH is checked before the push and not with it, so concurrent
\* handlers overshoot it: by at most one job per further API process, however
\* long they race (main.py:214-226 and 273).
QueueBound == \A q \in Queues : Len(queues[q]) < MaxQueueLength + Cardinality(Apis)

\* All the clients that were answered 200 for one Idempotency-Key sent the same
\* request and were given the same job; a client is answered 409 only if some
\* job of another request has the key, through whichever of the two lookups.
IdempotencyContract ==
  /\ \A i, j \in Ids :
       /\ replies[i] # NoReply /\ replies[j] # NoReply
       /\ replies[i].code = "200" /\ replies[j].code = "200"
       /\ Truthy(replies[i].key) /\ replies[i].key = replies[j].key
       => replies[i].job = replies[j].job /\ replies[i].payload = replies[j].payload
  /\ \A i \in Ids :
       replies[i] # NoReply /\ replies[i].code = "409" =>
         \E j \in JobsWithKey(replies[i].key) : jobs[j].payload # replies[i].payload

\* A job id reaches Redis only after its row and its original are stored
\* (main.py:232-273), stays in the list its payload belongs to, and is worked on
\* by that list's pool alone.
PublishedIsStored ==
  /\ \A q \in Queues : \A i \in Ids :
       InQueue(i, q) => i \in Stored \intersect inputs /\ QueueOf[jobs[i].payload] = q
  /\ \A w \in Workers :
       wJob[w] # NoJob =>
         wJob[w] \in Stored \intersect inputs /\ QueueOf[jobs[wJob[w]].payload] = PoolOf[w]

\* No two workers ever work on one job, and no job is in line while it is worked
\* on: each id is pushed once and popped once (main.py:273, queue_client.py:24).
SingleDelivery ==
  /\ \A v, w \in Workers : wJob[v] = wJob[w] /\ wJob[v] # NoJob => v = w
  /\ \A w \in Workers : wJob[w] # NoJob => ~Queued(wJob[w])
  /\ \A q \in Queues : \A m, n \in DOMAIN queues[q] :
       queues[q][m] = queues[q][n] => m = n

\* GET /jobs/{id}/result answers DONE with the object (main.py:318-324): it is
\* there whenever the row says DONE, under every fault (worker.py:81-91).
DoneHasResult == \A i \in Stored : jobs[i].status = "DONE" => i \in outputs

\* A request refused with 409, 429 or 503 leaves no work behind: its job id has
\* no row, or a FAILED one, and no worker has it or will be given it.
RefusedLeavesNoWork ==
  \A i \in Ids :
    replies[i] # NoReply /\ replies[i].code \in {"409", "429", "503"} =>
      /\ i \in Stored => jobs[i].status = "FAILED"
      /\ ~Queued(i) /\ ~Held(i)

\* An unfinished job is still in hands that will carry it on: its id is in Redis,
\* or a worker has it, or the handler that inserted it has yet to push it or to
\* fail it (docs/architecture.md:443-459).
NoJobIsStranded ==
  \A i \in Stored :
    jobs[i].status \in {"PENDING", "PROCESSING"} =>
      \/ Queued(i)
      \/ Held(i)
      \/ \E a \in Apis : Serves(a, i) /\ apiPc[a] \in {"push", "mark_failed"}

-----------------------------------------------------------------------------
(* The lifecycle of a job, as long as a call that raises had no effect *)

Status(i) == IF jobs[i] = NoRow THEN "none" ELSE jobs[i].status

Lifecycle == INSTANCE JobLifecycle WITH status <- [i \in Ids |-> Status(i)]

\* Whatever calls fail and whatever processes die, the row of a job only moves
\* forward, and DONE and FAILED are final: the API's mark_failed and the
\* worker's never race with the worker's other updates (main.py:275,
\* worker.py:62, 91, 119).
LifecycleSpec == Lifecycle!Spec

-----------------------------------------------------------------------------
(* Liveness *)

\* Every request is answered, by the process that received it.
RequestsAreAnswered ==
  \A i \in Ids : i \in received ~> replies[i] # NoReply

\* Every job that has a row becomes DONE or FAILED.
JobsFinish ==
  \A i \in Ids : i \in Stored ~> Status(i) \in {"DONE", "FAILED"}

\* A job whose result was stored becomes DONE and stays so, as long as PostgreSQL
\* does not fail: nothing that a worker or a handler has still to do overwrites it.
UploadedJobsAreDone ==
  \A i \in Ids :
    (\E w \in Workers : wJob[w] = i /\ wPc[w] = "mark_done") ~> [](Status(i) = "DONE")
=============================================================================
