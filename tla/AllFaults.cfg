SPECIFICATION Spec
CONSTANTS
  Ids = {i1, i2}
  Keys = {k}
  NoKey = no_key
  EmptyKey = empty_key
  Payloads = {light, heavy}
  Queues <- MCQueues
  QueueOf <- MCQueueOf
  Broken = {heavy}
  NoRow = no_row
  NoJob = no_job
  Faults = {"db", "redis", "storage", "lost_ack", "api_crash", "worker_crash"}
  Apis = {a1, a2}
  MaxQueueLength = 1
  NoRequest = no_request
  NoReply = no_reply
  Workers = {w1, w2, heavy_pool}
  PoolOf <- MCPoolOf
  MaxAttempts = 2
  light = light
  heavy = heavy
  heavy_pool = heavy_pool
SYMMETRY Symmetry
INVARIANTS
  TypeOK
  IdempotencyContract
  PublishedIsStored
  SingleDelivery
  DoneHasResult
\* Every request has been served and every worker waits: nothing is left to do.
CHECK_DEADLOCK FALSE
