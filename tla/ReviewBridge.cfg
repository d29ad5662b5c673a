SPECIFICATION Spec
CONSTANTS
    Heads = {"h1", "h2"}
    Runs = {1}
    Sources = {"c1", "c2", "c3"}
    Summary <- MCSummary
    Calls <- MCCalls
    Invocations = {"i1", "i2", "i3"}
INVARIANTS
    TypeOK
    AtMostOneReview
    SuccessIsOnGitHub
    RefusalsHaveCause
PROPERTIES
    PublishesAtomically
    Terminates
CHECK_DEADLOCK FALSE
