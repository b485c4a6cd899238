SPECIFICATION QueriedSpec
CONSTANTS
  Ids = {i1, i2}
  Keys = {k}
  NoKey = no_key
  EmptyKey = empty_key
  Payloads = {light, heavy}
  Queues <- MCQueues
  QueueOf <- MCQueueOf
  Broken = {heavy}
  NoRow = no_row
  NoJob = no_job
  Faults = {"db", "redis", "storage", "api_crash", "worker_crash"}
  Apis = {a1, a2}
  MaxQueueLength = 1
  NoRequest = no_request
  NoReply = no_reply
  Workers = {w1, heavy_pool}
  PoolOf <- MCPoolOf
  MaxAttempts = 2
  light = light
  heavy = heavy
  heavy_pool = heavy_pool
  i1 = i1
  c1 = c1
  Clients = {c1}
  Follows <- MCFollows
INVARIANTS
  RefusedLeavesNoWork
  ResultIsThere
PROPERTIES
  LifecycleSpec
  GivenIsFound
  AnswersMoveForward
\* Every request has been served and every worker waits: nothing is left to do.
CHECK_DEADLOCK FALSE
