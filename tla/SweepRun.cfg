SPECIFICATION Spec
CONSTANTS
  main = main
  worker = worker
  NodeSeq <- MCNodeSeq
  LocalNode = main
  Silent = {worker}
  NumRates = 2
  Procs <- MCProcs
INVARIANTS
  TypeOK
  
  NoMonitorIsForgotten
  LocalQueueFileIsClosed
PROPERTIES
  StoppedMonitorsExit
  SweepEnds
CHECK_DEADLOCK FALSE
