SPECIFICATION FairSpec
CONSTANTS
  r1 = r1
  r2 = r2
  Records <- TwoRecords
  Configs <- MCConfigs
  FullRetries = 9
  ErrorRetries = 1
  TTL = 2
  HoldLimit = 2
  FaultKinds = {"redis", "ambiguous", "release", "crash", "redeliver"}
  MaxFaults = 1
CHECK_DEADLOCK FALSE
INVARIANTS
  HolderKeepsSlot
  AdmissionBound
  FaultCostsOneSlot
  RefusalIsNotFinal
PROPERTY
  SlotsDrain
