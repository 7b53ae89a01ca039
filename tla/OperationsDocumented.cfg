CONSTANTS
  WordBits = 5
  Radix = 3
  Groups <- MCGroups
  Literals <- MCLiterals
  Departs = {"equal", "divide", "print"}
  Heap <- MCHeap
  LoadsFirst <- MCLoadsFirst
  MaxStack <- MCMaxStack
  MaxText = 2
  Capacity = 2
  TableAt = 22
  Paths <- MCPaths
  Contents <- MCContents
  Lines <- MCLines
  Devices <- MCDevices
  Buffer = 2
  ByteRange = 8
  MaxFile = 1
SPECIFICATION Spec
PROPERTY ValuesAsDocumented
