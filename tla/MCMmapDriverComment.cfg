CONSTANTS
    File <- MCFile
    Missing = Missing
    PageSize = 2
    Deletes = {TRUE}
    MaxWrites = 0

SPECIFICATION Spec
INVARIANT ScansATerminatedString
CHECK_DEADLOCK FALSE
