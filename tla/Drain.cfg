SPECIFICATION Spec
CONSTANTS
  main = main
  worker = worker
  Samplers = {main, worker}
  Reaching = {main}
  MaxLength = 1
  MaxRows = 4
  Blank = blank
  Unread = unread
  None = none
INVARIANTS
  TypeOK
  SummariesAgree
  DrainIsFirstEmpty
  UndrainedHasBacklog
\* Every sample is taken and the lists are empty: nothing is left to do.
CHECK_DEADLOCK FALSE
