--------------------------- MODULE QueriedPipeline ---------------------------
(***************************************************************************)
(* The image pipeline with clients that poll it: the readers of QueryApi   *)
(* interleave with the handlers of POST /jobs and the workers.             *)
(***************************************************************************)
EXTENDS ImagePipeline, QueryApi

queriedVars == <<vars, queryVars>>

QueriedInit == Init /\ QueryInit

QueriedNext ==
  \/ Next /\ UNCHANGED queryVars
  \/ QueryNext /\ UNCHANGED <<apiVars, workerVars>>

QueriedSpec == QueriedInit /\ [][QueriedNext]_queriedVars

QueriedTypeOK == TypeOK /\ QueryTypeOK

-----------------------------------------------------------------------------

\* A request that has read DONE finds the object, whatever the API and the workers
\* did since it read the row and whatever failed (main.py:313-324, worker.py:81-91).
ResultIsThere == \A c \in reading : Follows[c] \in outputs

\* A client was answered 200 with the id it follows.
WasGiven(c) ==
  \E i \in Ids : replies[i] # NoReply /\ replies[i].code = "200" /\ replies[i].job = Follows[c]

\* Whoever was given a job id, by a first submission or by a repeated one, is never
\* told that there is no such job (main.py:232-243, 267-293 and 297-300).
GivenIsFound ==
  [][\A c \in Clients : WasGiven(c) /\ told'[c] = "404" => told[c] = "404"]_queriedVars

\* What may follow an answer.
Later ==
  LET Seen == Statuses \union {"image"} IN
  [nothing |-> Answers, PENDING |-> Seen, PROCESSING |-> Seen \ {"PENDING"},
   DONE |-> {"DONE", "image"}, image |-> {"DONE", "image"}, FAILED |-> {"FAILED"}]

\* The answers of a client only move forward, over both of its endpoints: a job it
\* has seen DONE, or whose image it has, is never again PROCESSING or FAILED, and one
\* it has seen is never unknown again (main.py:295-329, worker.py:62, 91 and 119).
AnswersMoveForward ==
  [][\A c \in Clients : told[c] # "404" => told'[c] \in Later[told[c]]]_queriedVars
=============================================================================
