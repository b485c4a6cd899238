--------------------------- MODULE MCImagePipeline ---------------------------
(* Instances of ImagePipeline for TLC. *)
EXTENDS ImagePipeline, TLC

CONSTANTS light, heavy, heavy_pool

MCQueues == {"jobs:default", "jobs:heavy"}

MCQueueOf == [p \in Payloads |-> IF p = heavy THEN "jobs:heavy" ELSE "jobs:default"]
MCPoolOf == [w \in Workers |-> IF w = heavy_pool THEN "jobs:heavy" ELSE "jobs:default"]

\* Sound for safety: Ids and Apis are unordered and no constant names a member, and the
\* workers of one pool differ in nothing.
Symmetry ==
  Permutations(Ids) \union Permutations(Apis) \union Permutations(Workers \ {heavy_pool})
=============================================================================
