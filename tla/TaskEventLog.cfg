SPECIFICATION Spec
CONSTANTS
  t1 = t1
  t2 = t2
  Threads <- TwoThreads
  MaxEvents = 4
  Immediate = {3}
  BufferSize = 2
  BatchSize = 2
  MaxFaults = 1
SYMMETRY Symmetric
CHECK_DEADLOCK FALSE
INVARIANTS
  NoEventVanishes
  BufferInOrder
PROPERTY
  IsEventStore
