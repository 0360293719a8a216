CONSTANTS
    Sum = {"A", "B"}
    Char = {"p", "q", " ", "bs"}
    NL = "NL"
    Blank = " "
    Backslash = "bs"
    File <- MCFile
    Argc = {2, 3}
    MaxLen = 2
    Missing = Missing
    Null = Null

SPECIFICATION Spec
INVARIANTS
    StringsAreFreedOnce
    ArraysFollowTheLines
    ReportIsTheJoin
    UndefinedExactlyWhenTooLong
CHECK_DEADLOCK FALSE
