SPECIFICATION Spec
CONSTANTS
    Commits = {"c1", "c2"}
    Modules <- MCModules
    Contents = {"old", "new"}
    Tree <- MCTree
    Order <- MCOrder
    NoContent = NoContent
    NoCommit = NoCommit
    MaxChanges = 2
INVARIANTS
    TypeOK
    RecordedCommitRan
    RefusalHasCause
CHECK_DEADLOCK FALSE
