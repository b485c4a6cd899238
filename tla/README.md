# A TLA+ model of the image pipeline

The repository is a small distributed image processing service with the tools to
load-test it. Clients post an image and a pipeline of operations to an API; the API
stores the image in MinIO and a row in PostgreSQL and pushes the job id on one of two
Redis lists; workers pop ids, process the images and store the results; clients poll.
This directory holds a model of that service, the TLC runs that check it on small
instances, and TLAPS proofs of what holds for instances of every size.

## 1. Inventory

| component | state | operations | hard behaviour | what makes it correct |
|---|---|---|---|---|
| Submission API, `api/app/main.py` `create_job` | none of its own; a request in service | parse, look the key up, check the list's length, upload, insert, re-read after a conflict, push, mark failed | requests race on several API processes between any two calls; each call may raise, with or without effect; the process may die | one job per key, refused requests leave nothing, a bound on the lists, every request answered |
| Query API, `get_job`, `get_job_result` | none | read a row; read the result of a DONE job | the row and the object are read one after the other, in threads of their own, while handlers and workers go on | the object is there when it is fetched; an id that was given out is found; answers only move forward |
| Parsing and classification, `parse_pipeline`, `is_heavy_pipeline` | none | check the shape of the steps, weigh them, pick a list | the API and the worker read `repeat` differently; floating point | a light pipeline costs a worker little |
| Worker, `worker/app/worker.py` | the id it popped | pop, load, mark, download, process, upload, mark | retries, the except clause's own failure, crash with the only copy of an id | a job is worked on once, DONE implies a result, every job ends |
| Job repository, `job_repository.py`, `init.sql` | table `jobs` | insert, look up, unconditional update | UNIQUE under concurrency, ambiguous commits | key and payload of a row never change |
| Queue client, `queue_client.py` | lists `jobs:default`, `jobs:heavy` | LPUSH, BRPOP, LLEN | destructive read, lost replies | an id is queued once, in the right list |
| Object storage client, `storage_client.py` | originals, results | upload, download | failures are retried by the worker and not by the API | an original exists before its row |
| Retry, `retry.py` | attempt counter | call, back off, give up | gives up after `max_attempts` | bounded, last error reported |
| Image operations, `image_processor.py`, `operations.py` | image | `repeat`, `region` | region of an operation that changes the size | only the region changes |
| k6 client, `loadtests/` | counters, a poll per job | submit, poll until done or deadline | deadline against a late answer | counters add up |
| Frontend, `frontend/index.html` | selected file, job, poll timer | submit, poll, reset | answers of an earlier job in flight | what is shown belongs to the current job (not modelled, section 5) |
| Cluster runner, `cluster_runner.py`, `cleanup.py`, `ssh_client.py` | process ids of the monitors, what was collected, the link `latest` | clean, start monitors, run k6, stop, collect, report | one node of several fails midway; a stop that does not get through | no monitor of an earlier run disturbs a later one; a result rests on the files of every node, and should on samples of every node |
| Local runner, `run_benchmark.py` | its two monitor threads | clean, start, run k6, join, report | threads still write while their files are read | the queue samples are complete when analysed |
| Monitors, `remote_monitor.py`, `docker_monitor.py`, `queue_monitor.py` | two threads, stop events, CSV files | start, sample, take SIGTERM, join | SIGTERM before the handlers are installed; `docker stats` that hangs | whoever was told to stop ends |
| Sweep, `sweep_runner.py` | list of rows | one run per rate, read `latest`, write the rows at the end | a run that fails; a stale `latest` | row k is what run k measured; the sweep ends |
| Drain analysis, `analyze_results.py`, `sweep_runner.py` 72-107 | none | scan the samples of all nodes by time | the two LLENs of a sample are not atomic; blank cells of a node that cannot reach Redis; submissions past the reckoned end | two programs find one drain time; it is the first empty sample after a backlog |
| Reports, timelines, micro benchmarks, scripts, deployment | none | formatting, provisioning | none that is concurrent | not modelled |

## 2. Modules

```
PipelineServices      PostgreSQL, Redis and MinIO, the calls on them, their faults
   |         |        \
SubmitApi   Worker   QueryApi             the two kinds of processes; the clients that poll
   |         |          |
  ImagePipeline ---- QueriedPipeline      the service; the service with its readers
       |  \ implements
       |   `------->  JobLifecycle  <---- polls ---- LoadClient      the k6 virtual users

ImagePipelineProofs <- CustodyProofs <- LifecycleProofs (with QueriedPipeline)

FoldProofs <- ImageProcessingProofs, LoadClientProofs, DrainProofs          SweepProofs

  ImageProcessing       one pipeline as the API parses and weighs it and the worker applies it

  Monitors <- BenchmarkRun <- Sweep       sampling processes; one run; the runs of a sweep

  DrainAnalysis         queue samples of several nodes and the programs that read them
```

Each of ImagePipeline, QueriedPipeline, ImageProcessing, LoadClient, Sweep and DrainAnalysis has an
MC module with the values of its constants. ImageProcessing, LoadClient, Sweep and DrainAnalysis have a
module of proofs each; FoldProofs has the lemmas on sums and loops that three of them use.

**PipelineServices** declares the shared state. `jobs[i]` is the row of job `i` or `NoRow`;
`queues[q]` is a Redis list as a sequence, LPUSH appending and BRPOP taking the head;
`inputs` and `outputs` are the jobs that have an original and a result in MinIO. A payload
stands for pipeline and image together: the request hash is the SHA-256 of exactly those, so
equal hashes are equal payloads. An `Idempotency-Key` is one of `Keys`, `NoKey` (no header,
NULL in the table, never a conflict) or `EmptyKey` (an empty header: false in Python's tests,
but stored as `''`, where UNIQUE does apply).

**SubmitApi** is `create_job`. A process is at one of the handler's calls; each call is one
action with all its outcomes, among them raising. The handler awaits only the upload's bytes,
before it reads shared state, so one API process serves one request at a time and the
interleaving is between processes. The uuid4 of a request is identified with the request:
the job id that a handler may create is the id of the request it serves. `replies` is
a history variable: what each client was told. Requests that the parser refuses change no
state and are left out.

**Worker** is `run_once` in a loop. The attempts of `retry_with_backoff` are counted; its
delays are not modelled. Processing is deterministic in the payload; `Broken` are the payloads
for which it raises (an undecodable image, a `repeat` that is no number).

**ImagePipeline** composes them and states the properties. **JobLifecycle** is the abstract
specification of one row's status.

**QueryApi** is `get_job` and `get_job_result`. FastAPI runs both in threads, so reading the row
and fetching the object are two steps with anything in between. A client follows one id and sends
one request after the other; `told[c]` is what it last learnt, and a 409 of the result, which names
the status, tells it as much as GET /jobs/{id} does. **QueriedPipeline** composes these readers
with the whole service; they write nothing, so QueriedSpec implements Spec.

**ImageProcessing** follows one pipeline: the API parses it (`parse_pipeline`: which submissions
are refused, and that what is accepted is a list of known operations; it never looks at `region`, so
that a malformed one gets as far as the worker), weighs it (`is_heavy_pipeline`), and the worker
carries it out (`process_image`, one action per step begun and per run of the loop over
`repeat`). A step has an operation, a `repeat`, a `region`, and whether the operation takes its
other parameters. What the two sides can make of a `repeat` is an integer, a value `int()`
rejects (the API takes it for 1, the worker raises) or one too large (an OverflowError the API
does not catch). Costs are in fifths, as a region costs 0.2. An image is its size and the
pixels that may have changed; Pillow enters by the sizes its operations return. It justifies the
constants `QueueOf` and `Broken` of the service: the choice of the list is a function of the
pipeline, and so is whether the worker raises. Light and heavy mean what they mean in
`is_heavy_pipeline`, costs below and from 40; the document has another rule (run ByRepeat).

**LoadClient** is `loadtests/jobs.js`. Its virtual users submit and poll; between their
steps jobs move as JobLifecycle lets them, which is what ImagePipeline is proved to
implement when no acknowledgement is lost. Time
is only whether a user's deadline has passed. `givenUp` is a history variable: which job's
polling ended in `failed_jobs`, and why. Tasks are chosen freely, not by weight.

**Monitors** is a sampling process: the main thread of `remote_monitor.py` with the threads of a
DockerMonitor and a QueueMonitor. Signals before and after the handlers are installed, the join
of the docker thread with its 5 seconds and that of the queue thread without a bound are modelled;
how often a thread samples is not. A process id that main has recorded is Python's, since the
shell that ssh starts executes Python in its own place. **BenchmarkRun** is one run, of
`cluster_runner.py` (a loop over the nodes for starting, stopping and downloading, any
command of which may fail) or of `run_benchmark.py` (which is its own sampling process).
`asked` is a history variable: the monitors that a stop was attempted on. `collected` says of each
node whether its CSV files were downloaded and whether each of them has samples: headers and rows
are flushed at the end of a round, so the files of a node whose first `docker stats` hangs are empty,
and those of one where it raises have a header only. `Silent` are the nodes where that can happen.
`MergedNodes` are the nodes that `merge_node_results` finds samples of in every file. **Sweep** runs
them one after the other and makes a row of what `latest` leads to; reading the figures of a
run that succeeded may raise too, and ends the sweep as a failed run does. That a node of `Silent`
is missing from a row is not reported by the code: `merge_csv_files` passes over its empty file.

**DrainAnalysis** has k6, the workers and the queue monitors of several nodes produce samples, and
reads them as `summarize_queue_drain` and `calculate_drain_seconds` do. A sample is its time stamp,
then two LLENs, between which anything can happen. Time is the order of the stamps, so the clocks of
the nodes are taken to agree; both programs are folds over the finished samples in that order, and
of a file without a row the one returns nothing and the other None. The end of the submissions is
reckoned from before the warmup of k6, so it passes while k6 still submits (`load = "past_end"`).

### Faults

`Faults` selects what may go wrong in a run: `db`, `redis`, `storage` let the calls on that
service raise without effect; `lost_ack` lets a call that raises have taken effect (a commit,
LPUSH, BRPOP or PUT whose answer is lost); `api_crash`, `worker_crash` end a process between
two calls. A fault can happen any number of times. Processes restart (`restart:
unless-stopped` in the compose files of the deployment).

## 3. Runs

All bounds are constants of the `.cfg` files. Deadlock checking is off because behaviours end
when all requests are served. Symmetry (over job ids and API processes, which are never
named, and the workers of one pool) is used in runs that check invariants only.

| run | instance | properties | what it shows |
|---|---|---|---|
| AllFaults (1,168,587 states) | 2 requests, 2 API processes, 2 workers for the default list and one for the heavy list, every fault, 2 attempts | TypeOK, IdempotencyContract, PublishedIsStored, SingleDelivery, DoneHasResult | what holds even when any call fails, with or without effect, and any process dies |
| CleanFailures (723,528) | as AllFaults, but one worker per pool, without lost acknowledgements, with a client that follows the first of the two jobs | RefusedLeavesNoWork, LifecycleSpec, ResultIsThere, GivenIsFound, AnswersMoveForward | a refusal is final, the pipeline implements JobLifecycle, and what a client reads is consistent from one answer to the next |
| Progress (248,567) | 3 requests with one payload, 2 API processes, room for 1 job, 1 worker, Redis and MinIO failing at will, FairSpec | NoJobIsStranded, QueueBound, RequestsAreAnswered, JobsFinish, UploadedJobsAreDone | every unfinished job is on its way; racing admissions overshoot `MAX_QUEUE_LENGTH` by at most one job per further API process; retries are bounded, every path of the handler ends, a worker that Redis threw out comes back, a stored result is not overwritten by a failure |
| Processing (99,964) | pipelines of 1 and 2 steps over 3 operations, repeats -1, 0, 1, 3, 4, 5 and unreadable, 4 regions, a step that is refused, a 3x2 image | TypeOK, LightJobsAreLight, HeavyJobsAreHeavy, UnturnedRegionsConfine | the list chosen by cost fits the work the worker then does; operations that do not turn the crop write inside their regions |
| LoadCounters (15,630) | 2 virtual users, 2 tasks, 2 iterations, with and without polling, FairSpec | TypeOK, EveryIterationCounted, CompletedIsDone, TaskFailuresMissPollErrors, IterationsEnd | what the counters of a benchmark mean |
| SweepRun (683,058) | 2 rates; a cluster of 2 nodes, the second of which may be silent, or the local machine; any command failing | TypeOK, RowsAreTheRuns, NoMonitorIsForgotten, LocalQueueFileIsClosed, StoppedMonitorsExit, SweepEnds | row k is what run k measured, the files of all nodes were downloaded for it, and only a node whose sampler's first round hung or raised is missing from its figures; no later run is measured beside a monitor nobody tried to stop; the queue file of a local run is closed when it is read; stopping ends though `docker stats` hangs, and so does the sweep |
| Drain (158,348) | 4 samples of 2 nodes, one of which may never reach Redis, lists of up to 1 job | TypeOK, SummariesAgree, DrainIsFirstEmpty, UndrainedHasBacklog | the report of a run and the row of its sweep agree, also that a file without rows has no drain time, and find the first empty sample after a backlog |

Why the bounds are enough: a race on a key needs two requests (a third brings no new pair);
a job is touched by the handler that created it and by one worker, so two API processes and
two workers contain each pair of them; two attempts are the first that fails and the one that
gives up; three requests are what it takes to exceed the bound on a list with room for one.
Progress has jobs of one payload, processed by one worker, so that its three requests stay
within reach of the liveness checks; its jobs fail by MinIO, in the except clause that a failing
processing step ends in too.
Keys are one proper key, none and the empty one, chosen freely per request, as is
the payload. Payload `light` goes to the default list and is processed; `heavy` goes to
the heavy list and its processing raises, so both lists and both outcomes occur. Pipelines
of two steps cross the threshold of 40 in every way (one step of cost 40, two below it, a
negative repeat beside them). A second iteration of a virtual user finds what the first left
behind. One polling client is enough since clients share nothing, and it follows the first of the
two ids, so the other request is a stranger's or a retry of its own that is given the same job.
Two rates give a run before and a run after each failure, two nodes a node before and
after the one that fails. Four samples hold a backlog, an empty sample and one of the other node
beside or after them; one job is enough as only zero and non-zero lengths are told apart, and two
lists make sums of two. The proofs of section 4 remove the bounds for most of the safety properties.

### Violations

Each of these checks what the documentation or a message of the program says:

* `StrandedByCrash`: workers can be restarted at any time without losing state
  (docs/architecture.md:152); the id a worker popped is lost.
* `TurnedRegion`: a rotation in a region that is no square modifies pixels beside it
  (docs/architecture.md:226).
* `ByRepeat`: "pipelines are classified as heavy if a processing step contains repeat >= 5"
  (docs/architecture.md:298-302); the API weighs costs and never reads its constant
  HEAVY_REPEAT_THRESHOLD (`main.py` 36), so that a rotation repeated five times is queued as light,
  and a blur repeated four times as heavy.
* `MonitorsLeft`: every run ends with "Stop monitors and download metrics"
  (docs/benchmarking-methodology.md:121); `start_remote_monitors` that raises on the second node
  takes the process id of the first with it, and nobody is left to stop that monitor.
* `BlankDrain`: the cooldown is to show whether the lists drain
  (docs/benchmarking-methodology.md:167); a sample of a node that does not reach Redis counts as
  empty lists, and a run is reported as drained that still has jobs in them.

RefusedLeavesNoWork, LifecycleSpec and AnswersMoveForward need that no acknowledgement is lost. With `lost_ack`
added to CleanFailures TLC finds in a few steps a push that took effect and whose reply was
lost: the API marks the job FAILED and answers 503, and a worker carries it out.

### Fairness

`FairSpec` of ImagePipeline: a process whose call can return takes the step
eventually (weak fairness per process over the calls of the handler, or of `run_once`, and the
restart). Clients owe no request and faults owe nothing. Weak fairness is enough for these because
an API process or a worker that has begun something stays able to go on until it does. BRPOP is the
exception: when Redis can fail, a worker that could take a job is thrown out and restarted in
between, so that TakeJob is enabled again and again and not for ever. Strong fairness on
TakeJob says that Redis does not refuse every BRPOP of a worker for ever; no other call is assumed
to succeed, and the retries' bound is what ends them. `FairSpec` of LoadClient: an iteration goes on
(k6 bounds every HTTP request, sleeps end) and deadlines pass; jobs owe nothing.

`Spec` of Sweep is fair to the program and to the main and queue threads of the monitors: their
commands return. That is an assumption of the model, since ssh, scp and k6 are run without
a timeout. It is not made for the docker threads: `docker stats` may hang for ever, which is what
the join with a timeout is for.

## 4. Proofs

`tlapm` proves the following for every value of the constants: numbers of requests, keys, payloads,
lists, API processes, workers and polling clients, sets of faults; pipelines, regions and images;
virtual users and tasks; rates and nodes; samples.

| theorem | statement | inductive invariant |
|---|---|---|
| `ImagePipelineProofs!TypeCorrect` | `Spec => []TypeOK` | TypeOK |
| `ImagePipelineProofs!DoneHasResultAlways` | `Spec => []DoneHasResult` | with it: a worker about to mark DONE has an acknowledged upload |
| `ImagePipelineProofs!QueueBounded` | `Spec => []QueueBound` | the length of a list plus the processes admitted to it and not yet done stays below MAX_QUEUE_LENGTH plus the number of processes: the length alone is not inductive, since a push happens long after its check |
| `CustodyProofs!IdempotencyHolds` | `Spec => []IdempotencyContract` | keys are unique among rows; ids of requests in service are fresh; every 200 names a row with the key and payload of its reply, every 409 a row that differs |
| `CustodyProofs!PublishedIsStoredAlways`, `SingleDeliveryAlways` | `Spec => []PublishedIsStored`, `Spec => []SingleDelivery` | CustodyInv: an id is with at most one of its handler, one place of one list, one worker; its row and original exist from the stage that wrote them on |
| `LifecycleProofs!RefusedLeavesNoWorkAlways` | `Clean => (Spec => []RefusedLeavesNoWork)` | StageInv (the status that goes with each stage of handler, list and worker) and: an answered request is in no process any more |
| `LifecycleProofs!ImplementsLifecycle` | `Clean => (Spec => LifecycleSpec)` | StageInv |
| `LifecycleProofs!NoJobIsStrandedAlways` | `Dependable => (Spec => []NoJobIsStranded)` | StageInv: a handler that fails its job, or a worker that ends one, has its row, so that the update takes effect before the id is forgotten |
| `LifecycleProofs!QueriedTypeCorrect` | `QueriedSpec => []QueriedTypeOK` | what the row of an id says is one of the answers |
| `LifecycleProofs!ResultIsThereAlways` | `QueriedSpec => []ResultIsThere` | DoneHasResult, and no object is ever removed |
| `LifecycleProofs!GivenIsFoundAlways` | `QueriedSpec => GivenIsFound` | IdempotencyInv: every 200 named a job that was stored already |
| `LifecycleProofs!AnswersMoveForwardAlways` | `Clean => (QueriedSpec => AnswersMoveForward)` | ToldInv: the row is at least as far as the client was told; it stays so since statuses move forward |
| `ImageProcessingProofs!ProcessingTypeCorrect` | `Spec => []TypeOK` | TypeOK, for every set of submissions, accepted or refused |
| `ImageProcessingProofs!UnturnedRegionsConfineAlways` | `Spec => []UnturnedRegionsConfine` | the property and the types, for every pipeline, region and image size; what an operation that does not turn returns fits into its region |
| `ImageProcessingProofs!LightJobsAreLightAlways`, `HeavyJobsAreHeavyAlways` | `Spec => []LightJobsAreLight`, `Spec => []HeavyJobsAreHeavy` | WorkInv: the work done so far is at most the weight of the steps behind, the rest of the current one included, and exactly that when every step asks for a run; the weights of a prefix of the pipeline are a sum that grows with it |
| `LoadClientProofs!EveryIterationCountedAlways` | `Spec => []EveryIterationCounted` | with it: without polling no user is ever at a poll, or DONE would be counted on top of submitted |
| `LoadClientProofs!CompletedIsDoneAlways` | `Spec => []CompletedIsDone` | DoneInv: the jobs counted plus the DONE jobs still polled are no more than the DONE jobs; it rests on LinksInv: no two users poll one job, so that a job that becomes DONE adds one to both sides |
| `LoadClientProofs!TaskFailuresMissPollErrorsAlways` | `Spec => []TaskFailuresMissPollErrors` | FailInv, and of LinksInv that a job that was given up is polled no more: each failed poll is a new one |
| `LoadClientProofs!LoadTypeCorrect` | `Spec => []TypeOK` | all of these, and BoundsInv: whoever posts has an iteration of its own that is not yet among the submitted, and no task has more failures than there are |
| `DrainProofs!DrainTypeCorrect`, `SummariesAgreeAlways`, `DrainIsFirstEmptyAlways`, `UndrainedHasBacklogAlways` | `Spec => []TypeOK`, ... | DrainInv: late samples are followed by late ones, and a node that does not reach Redis has read no length. The rest is about one state: Found says what the rows up to a time show, both loops keep it from one row to the next, and past the last row it determines what was found; a file without rows, of which there is nothing to find, is a case of its own |
| `SweepProofs!SweepTypeCorrect`, `RowsAreTheRunsAlways` | `Spec => []TypeOK`, `Spec => []RowsAreTheRuns` | SweepInv: there are as many rows as runs behind; the runs before the current one succeeded; what each place of the program has behind it (k6's outcome, the nodes downloaded so far, `latest`); files without samples are of nodes in `Silent` |
| `SweepProofs!NoMonitorIsForgottenAlways` | `Spec => []NoMonitorIsForgotten` | Remembered: a monitor that was started is in `pids` until the stop of its node was attempted, or `pids` is empty and the run bound to fail, and with it the sweep |
| `SweepProofs!LocalQueueFileIsClosedAlways` | `Spec => []LocalQueueFileIsClosed` | FileInv: the queue thread has begun before k6 and is over once it was joined |

Assumptions, all named where the constants are declared and evaluated by TLC in every run:
ServicesAssumption and NoRowAssumption (PipelineServices), ApiAssumption and ApiNoneAssumption
(SubmitApi), WorkerAssumption (Worker), ProcessingAssumption (ImageProcessing), ClientAssumption
(LoadClient), QueryAssumption (QueryApi), NodesAssumption (BenchmarkRun), DrainAssumption
(DrainAnalysis). The bounds of an instance among them (job ids of LoadClient, MaxRows and MaxLength)
are numbers of any size, and users and tasks of LoadClient finitely many, as counters need. Only QueueBounded uses that the API processes are finitely
many. `Clean` says that lost acknowledgements are not among the faults; section 3 has
the counterexample that makes it necessary. `Dependable` says that only Redis and MinIO fail, and
without effect: a crash (run StrandedByCrash), an error of PostgreSQL in the except clause of
`run_once` or of the handler, and a BRPOP whose answer is lost each strand a job.

Sums and loops. The sum over a pipeline or over the tasks and the loop over a file of samples
are folds of the community modules: functions defined by recursion over the subsets of a finite set,
taken with CHOOSE. FoldProofs shows that the function exists and how sums behave (any term may be
taken out, more terms make no smaller sum, one term more by one), with induction stated for a set
(`SubsetInduction`, `UpTo`) and derived from the well-foundedness of strict inclusion, since a lemma
with a predicate as its parameter cannot be used here. DrainProofs unfolds the two loops in the same
way, a row at a time.

A proof found one fault of the model: the loop of `calculate_drain_seconds` was a CASE whose
conditions overlapped, of which TLC takes the first and the logic any. It is now the nested
condition of the code.

Only model-checked: the liveness properties, since fairness and ENABLED are beyond the prover. The
runs that expect a violation refute their properties; nothing is proved of those but
NoJobIsStranded, under `Dependable`.

## 5. Not modelled

`components` in `PROJECT.json` names every part and why it is left out or planned. Within the
modelled parts: floating-point rounding in the classification (region costs that add up to
exactly 40 can come out below it); a Redis client that re-sends commands by itself, which depends on
a version the requirements do not pin; NaN and infinite numbers in JSON; rotations by other angles
than multiples of 90 degrees; regions without area; latencies; the rest of the analysis
(`is_stable`, percentiles, container logs, statistics), which is arithmetic on
files that no one else writes.

The frontend is left out: the form it posts has no `pipeline` field (`frontend/index.html` 451-453),
which POST /jobs requires (`api/app/main.py` 174), so that with this API it never gets as far as
having a job to poll, and its later states would be those of another program. Reports, timelines,
micro benchmarks, image generation and provisioning format or create files in one sequential
process. The scripts under `scripts/` and `worker/app/create_test_job.py` are aids of development.

## 6. Plan

1. (done) PipelineServices, SubmitApi, Worker, ImagePipeline, JobLifecycle and their proofs.
2. (done) ImageProcessing and LoadClient, with their first proofs.
3. (done) Monitors, BenchmarkRun and Sweep: the cluster run and the local run, what a failure midway
   leaves behind and what of it reaches the rows of a sweep.
4. (done) QueryApi and QueriedPipeline with their proofs; NoJobIsStranded proved.
5. (done) DrainAnalysis: the samples of several nodes and the two programs that read them.
6. (done) SweepProofs: the safety properties of Sweep for any number of nodes and rates.
7. (done) FoldProofs, and with it every safety property of ImageProcessing, LoadClient and
   DrainAnalysis for instances of any size (LightJobsAreLight, HeavyJobsAreHeavy, CompletedIsDone,
   TaskFailuresMissPollErrors, SummariesAgree, DrainIsFirstEmpty, UndrainedHasBacklog).
8. Further proofs: what the counterexamples leave true, as theorems under named conditions, as
   NoJobIsStranded is under `Dependable` (DrainedIsEmpty once the submissions have ended on time and
   no sample is blank; MonitorsAreStopped when no command fails).
