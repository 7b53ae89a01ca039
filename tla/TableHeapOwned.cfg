SPECIFICATION FairSpec
CONSTANTS
  TableSize = 1
  HeapBytes = 3
  Capacity = 3
  SoftDiv = 1
  ForceDiv = 2
  QueueCap = 3
  CounterMod = 1
  c1 = c1
  c2 = c2
  c3 = c3
  Cells <- MCCells2
  PopShared = FALSE
INVARIANTS TypeOK FreeListIntact LiveTablesKept FreedOnce FailsOnlyWhenFull
PROPERTIES RingIsFifo ImplementsStore SweepReturns
CHECK_DEADLOCK FALSE
