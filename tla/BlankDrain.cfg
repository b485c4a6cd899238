SPECIFICATION Spec
CONSTANTS
  main = main
  worker = worker
  Samplers = {main, worker}
  Reaching = {main}
  MaxLength = 1
  MaxRows = 2
  Blank = blank
  Unread = unread
  None = none
INVARIANT DrainedIsEmpty
CHECK_DEADLOCK FALSE
