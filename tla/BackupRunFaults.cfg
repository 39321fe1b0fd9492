SPECIFICATION Spec
CONSTANTS
  r1 = r1
  r2 = r2
  w1 = w1
  w2 = w2
  t1 = t1
  t2 = t2
  NoRecord = NoRecord
  Records <- MCRecords
  Workers <- TwoWorkers
  Terminators <- OneRequest
  MaxPolls = 2
  MaxRetries = 1
  FaultKinds = {"crash", "redeliver", "lose", "ambiguous", "dispatcher", "finalizer", "cleanup", "latelimit"}
  MaxFaults = 2
  MaxTerminations = 0
SYMMETRY Symmetric
CHECK_DEADLOCK FALSE
INVARIANTS
  TypeOK
  DispatchedIsVisible
  UnfinishedIsOwned
  OpenRunHasCollector
  SucceededRunIsTrue
  ClosedCountsMatch
PROPERTY
  FinishedStaysFinished
  IsLedger
