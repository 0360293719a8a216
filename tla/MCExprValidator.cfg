CONSTANTS
    Word = {"1", "+", "x"}
    Other = {" "}
    Text <- MCText
    Interactive = {TRUE, FALSE}
    Block = 12

SPECIFICATION ValidatorSpec
INVARIANTS
    TokensFollowTheText
    ValidIsOneExpression
    FileIsJudgedOnce
CHECK_DEADLOCK FALSE
