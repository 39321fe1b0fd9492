SPECIFICATION FairSpec
CONSTANTS
  i1 = i1
  i2 = i2
  Items <- TwoItems
  NumPolicies = 2
  Configs <- MCConfigs
  Plain <- MCPlain
  NumSenders = 2
  Tasks = {1, 2}
  MaxAttempts = 3
  MaxMisses = 1
  MaxFaults = 2
  MaxShared = 2
  MaxToggles = 1
CHECK_DEADLOCK FALSE
INVARIANTS
  RoutesAreExact
  AttemptsAreBounded
  RetryIsQueued
PROPERTIES
  SentStaysSent
  DeliveriesSettle
