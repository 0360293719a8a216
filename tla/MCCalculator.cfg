SPECIFICATION Spec
CONSTANTS
  YYINITDEPTH = 2
  YYMAXDEPTH = 8
  MaxTokens = 7
INVARIANTS
  StacksHaveRoom
  AnswersAsWritten
  AnswersBeforeItReads
  StopsAtTheFirstError
\* The program ends at the end of its input or at the first error.
CHECK_DEADLOCK FALSE
