CONSTANTS
    File <- MCFile
    Missing = Missing
    PageSize = 2
    Deletes = {TRUE, FALSE}
    MaxWrites = 2

SPECIFICATION Spec
INVARIANTS
    LexesTheText
    FaultsHaveACause
    ReleasesWhatItHolds
CHECK_DEADLOCK FALSE
