SPECIFICATION FairSpec
CONSTANTS
  ArenaBytes = 9
  Overhead = 1
  SmallMax = 1
  MediumMax = 2
  c1 = c1
  c2 = c2
  x = x
  y = y
  gone = gone
  Chars <- MCChars
  Link = gone
  Literals <- MCLiterals
  Cells <- MCCells
  Mixed = FALSE
  Covers = TRUE
INVARIANTS TypeOK FreeListsIntact ArenaWalkable HeldStringsKept MarksAreFresh
PROPERTIES SweepIsComplete GrowsOnlyWithoutFit ImplementsStrings WalksEnd
CHECK_DEADLOCK FALSE
