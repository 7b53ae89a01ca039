SPECIFICATION Spec
CONSTANTS
  Classes <- MCClasses
  TokensOf <- MCTokensOf
  MaxTokens <- MCMaxTokens
INVARIANTS ReadsTheGrammar
PROPERTIES ParserReturns
CHECK_DEADLOCK FALSE
