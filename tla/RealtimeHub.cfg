SPECIFICATION HubSpec
CONSTANTS
  p1 = p1
  p2 = p2
  Pages <- TwoPages
  InitialLimit = 1
  UpdateLimit = 1
  MaxRows = 3
  MaxConnects = 2
SYMMETRY Symmetric
CHECK_DEADLOCK FALSE
INVARIANTS
  
  ScopeIsWatched
  LogIsComplete
