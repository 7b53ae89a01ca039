SPECIFICATION Spec
CONSTANTS
  a = a
  b = b
  Names <- MCNames
  MaxTokens = 6
  MaxDepth = 3
  Renames = FALSE
  HeaderUses = FALSE
SYMMETRY Renaming
INVARIANTS TypeOK LexicalAccess SlotsAgree StorageDistinct CapturesFound
CHECK_DEADLOCK FALSE
