SPECIFICATION FairSpec
CONSTANTS
  r1 = r1
  r2 = r2
  w1 = w1
  w2 = w2
  t1 = t1
  t2 = t2
  NoRecord = NoRecord
  Records <- MCRecords
  Workers <- OneWorker
  Terminators <- OneRequest
  MaxPolls = 1
  MaxRetries = 0
  FaultKinds = {"crash", "cleanup"}
  MaxFaults = 1
  MaxTerminations = 1
CHECK_DEADLOCK FALSE
PROPERTIES
  RunSettles
  QueuedIsFinished
