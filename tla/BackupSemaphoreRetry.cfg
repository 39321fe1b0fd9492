SPECIFICATION Spec
CONSTANTS
  r1 = r1
  r2 = r2
  Records <- TwoRecords
  Configs <- BoundedOnly
  FullRetries = 8
  ErrorRetries = 1
  TTL = 2
  HoldLimit = 2
  FaultKinds = {"redis"}
  MaxFaults = 1
CHECK_DEADLOCK FALSE
PROPERTY
  RedisErrorIsRetried
