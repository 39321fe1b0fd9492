SPECIFICATION Spec
CONSTANTS
  r1 = r1
  r2 = r2
  w1 = w1
  w2 = w2
  t1 = t1
  t2 = t2
  NoRecord = NoRecord
  Records <- MCRecords
  Workers <- TwoWorkers
  Terminators <- OneRequest
  MaxPolls = 20
  MaxRetries = 1
  FaultKinds = {}
  MaxFaults = 0
  MaxTerminations = 0
CHECK_DEADLOCK FALSE
INVARIANT
  CollectorOutlivesDispatch
