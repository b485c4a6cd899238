-------------------------- MODULE MCQueriedPipeline --------------------------
(* The pipeline with one client that follows the first of two jobs. *)
EXTENDS QueriedPipeline

CONSTANTS light, heavy, heavy_pool, i1, c1

MCQueues == {"jobs:default", "jobs:heavy"}
MCQueueOf == [p \in Payloads |-> IF p = heavy THEN "jobs:heavy" ELSE "jobs:default"]
MCPoolOf == [w \in Workers |-> IF w = heavy_pool THEN "jobs:heavy" ELSE "jobs:default"]
MCFollows == [c \in Clients |-> i1]
=============================================================================
