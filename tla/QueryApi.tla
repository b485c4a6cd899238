------------------------------ MODULE QueryApi ------------------------------
(***************************************************************************)
(* GET /jobs/{id} and GET /jobs/{id}/result: the handlers get_job and      *)
(* get_job_result of api/app/main.py.  They are plain functions, which     *)
(* FastAPI runs in threads of its own: they interleave with each other and *)
(* with create_job also within one process.                                *)
(*                                                                         *)
(* A client follows one job id and sends one request after the other; told *)
(* is what it last learnt of the job.  A request that ends in a 500, or    *)
(* dies with its process, teaches it nothing.                              *)
(***************************************************************************)
EXTENDS PipelineServices

CONSTANTS
  Clients,   \* the clients that poll
  Follows    \* Follows[c]: the job id client c asks for

ASSUME QueryAssumption == Follows \in [Clients -> Ids]

VARIABLES
  reading,   \* the clients whose request has found DONE and not the object yet
  told       \* the last answer of each client

queryVars == <<reading, told>>

\* A 409 of the result names the status of the job, as GET /jobs/{id} does.
Answers == {"nothing", "404", "image"} \union Statuses

QueryTypeOK == reading \subseteq Clients /\ told \in [Clients -> Answers]

QueryInit == reading = {} /\ told = [c \in Clients |-> "nothing"]

Tell(c, answer) == told' = [told EXCEPT ![c] = answer]

\* job_repository.get_job, whose ValueError is a 404
RowRead(c) == IF Follows[c] \in Stored THEN jobs[Follows[c]].status ELSE "404"

GetJob(c) ==
  /\ c \notin reading
  /\ Tell(c, RowRead(c))
  /\ UNCHANGED <<reading, serviceVars>>

\* Mutant: the status is not looked at before the download.
GetAnyResult(c) ==
  /\ c \notin reading
  /\ \/ RowRead(c) = "404" /\ Tell(c, "404") /\ UNCHANGED reading
     \/ RowRead(c) # "404" /\ reading' = reading \union {c} /\ UNCHANGED told
  /\ UNCHANGED serviceVars

\* The first half of get_job_result: 404, 409, or on to the object storage
GetResult(c) ==
  /\ c \notin reading
  /\ \/ RowRead(c) # "DONE" /\ Tell(c, RowRead(c)) /\ UNCHANGED reading
     \/ RowRead(c) = "DONE" /\ reading' = reading \union {c} /\ UNCHANGED told
  /\ UNCHANGED serviceVars

\* storage.download: the image; or it raises, for a missing object always
DownloadResult(c) ==
  /\ c \in reading
  /\ reading' = reading \ {c}
  /\ \/ Follows[c] \in outputs /\ Tell(c, "image")
     \/ (Follows[c] \notin outputs \/ Raises("storage")) /\ UNCHANGED told
  /\ UNCHANGED serviceVars

QueryNext == \E c \in Clients : GetJob(c) \/ GetResult(c) \/ DownloadResult(c)
=============================================================================
