CONSTANTS
    Notebook <- MCNotebook
    Other = {"x", "cell", "raw"}
    CountOnly = {TRUE, FALSE}

SPECIFICATION Spec
INVARIANTS
    BalancedCountsOpenBrackets
    YymoreEndsWithTheCell
    ExtractsEverySource
CHECK_DEADLOCK FALSE
