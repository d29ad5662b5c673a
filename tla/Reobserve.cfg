SPECIFICATION Spec
CONSTANTS
    Heads = {"h1", "h2"}
    Bases = {"b1", "b2"}
    FileCount <- MCFileCount
    PageSize = 1
    PageCeiling = 2
    Started = {0, 1, 2}
    MaxRuns <- MCMaxRuns
    NoSha = NoSha
    NoCount = NoCount
INVARIANTS
    TypeOK
    NoDifferenceIsTrue
    DifferencesAreReal
PROPERTIES
    Terminates
CHECK_DEADLOCK FALSE
