SPECIFICATION Spec
CONSTANTS
  Ids = {i1, i2}
  Keys = {k}
  NoKey = no_key
  EmptyKey = empty_key
  Payloads = {light}
  Queues <- MCQueues
  QueueOf <- MCQueueOf
  Broken = {}
  NoRow = no_row
  NoJob = no_job
  Faults = {"worker_crash"}
  Apis = {a1}
  MaxQueueLength = 1
  NoRequest = no_request
  NoReply = no_reply
  Workers = {w1}
  PoolOf <- MCPoolOf
  MaxAttempts = 1
  light = light
  heavy = heavy
  heavy_pool = heavy_pool
SYMMETRY Symmetry
INVARIANTS
  NoJobIsStranded
\* Every request has been served and every worker waits: nothing is left to do.
CHECK_DEADLOCK FALSE
