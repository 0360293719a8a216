CONSTANTS
    Dim = 5
    Letter = {"a", "b"}
    Request <- MCRequest
    Hash = "#"
    Nul = "NUL"
    NoWord = NoWord

SPECIFICATION Spec
INVARIANTS
    DefinedExactlyWhenItFits
    AdjacentCellsDiffer
    PointersExplainDistance
    ResultIsEditDistance
CHECK_DEADLOCK FALSE
