SPECIFICATION Spec
CONSTANTS
    Heads = {"h1", "h2"}
    Blobs = {"w1", "w2"}
    WorkflowAt <- MCWorkflowAt
    Retries = 1
    MaxStarts = 2
    MaxComments = 2
INVARIANTS
    TypeOK
    SuccessIsOwnReview
    GreenIsEvidence
    ErrorsAreBounded
PROPERTIES
    Terminates
    GreenWhenEvident
    PublishesAsPromised
CHECK_DEADLOCK FALSE
