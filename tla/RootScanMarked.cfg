SPECIFICATION FairSpec
CONSTANTS
  Radix = 10
  GlobalVars = 11
  GlobalSlots = 2
  VStackEnd = 97
  CallStackEnd = 87
  Tables = {25}
  Strings = {34}
  Records <- MCRecords
  MainCells = 2
  Numbers = {43}
  CodeAt = 77
  Fillers = {0, 3}
  MaxStack = 2
  Calls <- MCCalls
  GlobalTypes = {2, 3, 4}
  CapturedTypes = {2}
INVARIANT RootsMarked
CHECK_DEADLOCK FALSE
