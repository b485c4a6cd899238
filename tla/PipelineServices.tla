-------------------------- MODULE PipelineServices --------------------------
(***************************************************************************)
(* The state the image pipeline keeps outside its processes, and the calls *)
(* the API and the workers make on it:                                     *)
(*                                                                         *)
(*   jobs     the PostgreSQL table "jobs" (infra/postgres/init.sql), read  *)
(*            and written through PostgresJobRepository;                   *)
(*   queues   the Redis lists jobs:default and jobs:heavy, reached through *)
(*            RedisQueueClient: LPUSH adds at one end, BRPOP takes at the  *)
(*            other, so each list is a FIFO sequence;                      *)
(*   inputs   the jobs whose originals/<job_id>/... object is in MinIO;    *)
(*   outputs  the jobs whose results/<job_id>/result.png object is there.  *)
(*                                                                         *)
(* A call is one atomic step of its caller.  Each service can make a call  *)
(* raise, and a raised call may or may not have taken effect: which of     *)
(* these a run explores is the constant Faults.                            *)
(*                                                                         *)
(* A payload stands for the pipeline and the image bytes of a request: the *)
(* request hash is a SHA-256 of exactly these two and is identified with   *)
(* the payload.  A job id is a uuid4 and is never drawn twice.             *)
(***************************************************************************)
EXTENDS Naturals, Sequences, FiniteSets

CONSTANTS
  Ids,        \* the uuids of the requests a behaviour may serve
  Keys,       \* the non-empty Idempotency-Key values clients use
  NoKey,      \* the header is absent: NULL in the table, which UNIQUE ignores
  EmptyKey,   \* the header is sent empty: falsy in Python, yet stored as ''
  Payloads,   \* pipeline and image of a request
  Queues,     \* the names of the Redis lists
  QueueOf,    \* QueueOf[p]: the list is_heavy_pipeline selects for payload p
  Broken,     \* the payloads whose processing raises in the worker
  NoRow,      \* there is no row for a job id
  NoJob,      \* None in place of a job id
  Faults      \* the faults that may happen, a subset of FaultKinds

FaultKinds ==
  {"db", "redis", "storage",       \* a call on this service may raise
   "lost_ack",                     \* and may raise after taking effect
   "api_crash", "worker_crash"}    \* a process may die between two calls

ASSUME ServicesAssumption ==
  /\ QueueOf \in [Payloads -> Queues]
  /\ Broken \subseteq Payloads
  /\ NoKey \notin Keys
  /\ EmptyKey \notin Keys \union {NoKey}
  /\ NoJob \notin Ids
  /\ Faults \subseteq FaultKinds

VARIABLES jobs, queues, inputs, outputs

serviceVars == <<jobs, queues, inputs, outputs>>

Statuses == {"PENDING", "PROCESSING", "DONE", "FAILED"}
KeysSent == Keys \union {NoKey, EmptyKey}

Row == [status : Statuses, key : KeysSent, payload : Payloads]

ASSUME NoRowAssumption == NoRow \notin Row

ServicesTypeOK ==
  /\ jobs \in [Ids -> Row \union {NoRow}]
  /\ queues \in [Queues -> Seq(Ids)]
  /\ inputs \subseteq Ids
  /\ outputs \subseteq Ids

ServicesInit ==
  /\ jobs = [i \in Ids |-> NoRow]
  /\ queues = [q \in Queues |-> << >>]
  /\ inputs = {}
  /\ outputs = {}

-----------------------------------------------------------------------------
(* PostgreSQL *)

\* The jobs the table holds.
Stored == {i \in Ids : jobs[i] # NoRow}

\* SELECT ... WHERE idempotency_key = k.
JobsWithKey(k) == {i \in Stored : jobs[i].key = k}

\* Mutant: the table has no UNIQUE constraint on idempotency_key.
NoUniqueConstraint(k) == FALSE

\* INSERT fails on the UNIQUE constraint; NULL keys never collide, '' does.
UniqueViolation(k) == k # NoKey /\ JobsWithKey(k) # {}

InsertJob(i, k, p) ==
  jobs' = [jobs EXCEPT ![i] = [status |-> "PENDING", key |-> k, payload |-> p]]

\* UPDATE ... SET status = s WHERE job_id = i: no condition on the old status,
\* and no effect when there is no such row.
UpdateStatus(i, s) ==
  jobs' = IF i \in Stored THEN [jobs EXCEPT ![i].status = s] ELSE jobs

-----------------------------------------------------------------------------
(* Redis *)

\* Mutant: LPUSH is sent again after it took effect.
PushTwice(q, i) == queues' = [queues EXCEPT ![q] = Append(Append(@, i), i)]

Push(q, i) == queues' = [queues EXCEPT ![q] = Append(@, i)]

\* Mutant: the head is read and left in the list.
Peek(q) == UNCHANGED queues

Pop(q) == queues' = [queues EXCEPT ![q] = Tail(@)]

-----------------------------------------------------------------------------
(* MinIO *)

UploadInput(i)  == inputs'  = inputs \union {i}
UploadOutput(i) == outputs' = outputs \union {i}

-----------------------------------------------------------------------------
(* Faults *)

\* A call on this service raises, and left no trace or, when acknowledgements
\* can be lost, did what it was asked.
Raises(service) == service \in Faults
RaisesAfterEffect(service) == {service, "lost_ack"} \subseteq Faults

UpdateRaises(i, s) ==
  \/ Raises("db") /\ UNCHANGED jobs
  \/ RaisesAfterEffect("db") /\ UpdateStatus(i, s)
=============================================================================
