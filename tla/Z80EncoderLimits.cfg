SPECIFICATION Spec
CONSTANTS
  loop = loop
  bss_start = bss_start
  Names <- MCNames
  Bytes <- MCBytes
  BssStart = bss_start
  Radix = 4
  Base = 11
  Capacity = 5
  MAX_LABELS = 2
  MAX_REFS = 2
  MaxItems = 6
INVARIANTS TypeOK
PROPERTIES ImplementsAssembler
CHECK_DEADLOCK FALSE
