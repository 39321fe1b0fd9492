SPECIFICATION Spec
CONSTANTS
  r1 = r1
  r2 = r2
  w1 = w1
  w2 = w2
  t1 = t1
  t2 = t2
  NoRecord = NoRecord
  Records <- MCRecords
  Workers <- OneWorker
  Terminators <- TwoRequests
  MaxPolls = 1
  MaxRetries = 0
  FaultKinds = {"crash", "cleanup"}
  MaxFaults = 1
  MaxTerminations = 2
SYMMETRY Symmetric
CHECK_DEADLOCK FALSE
PROPERTY
  TerminationIsPendingOnly
