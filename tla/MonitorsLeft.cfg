SPECIFICATION Spec
CONSTANTS
  main = main
  worker = worker
  NodeSeq <- MCNodeSeq
  LocalNode = main
  Silent = {main, worker}
  NumRates = 1
  Procs <- MCProcs
INVARIANT MonitorsAreStopped
CHECK_DEADLOCK FALSE
