SPECIFICATION Spec
CONSTANTS
  Statements <- MCStatements
  Expressions <- MCExpressions
  InitialLocals = {0, 2}
  MaxTokens = 13
  MAX_CODE_SIZE = 34
  ForInEnds = FALSE
INVARIANTS TypeOK LocalsInPlace LocalsKept
PROPERTIES ImplementsStructured
CHECK_DEADLOCK FALSE
