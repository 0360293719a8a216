SPECIFICATION ScannerSpec
CONSTANTS
  Texts <- MCTexts
  Sources = {"file", "terminal", "memory"}
  YY_READ_BUF_SIZE = 2
  Calls = 1
INVARIANTS
  TokensAreTheLongestMatches
  BufferHoldsTheRest
PROPERTIES
  LinesAreAnsweredFirst
  EveryTextEnds
\* The program ends.
CHECK_DEADLOCK FALSE
